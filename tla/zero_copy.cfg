SPECIFICATION FairSpec
CONSTANTS
  Callers = {g1, g2, g3}
  Buffers = {b1, b2}
  Msg = Msg
  NoOne = NoOne
  Depth = 2
  CtlSlots = 1
  MaxCalls = 4
  MayRelease = TRUE
  MayClose = TRUE
INVARIANTS ResourcesAccounted FrameDone OneSendPerBuffer
PROPERTIES SendsReturn
CHECK_DEADLOCK FALSE
