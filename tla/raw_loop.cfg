SPECIFICATION FairSpec
CONSTANTS
  Iters = 6
  SendDepth = 3
  RecvDepth = 2
  SqCaps = {2, 3}
  RqCap = 2
INVARIANTS TypeOK WindowKept SlotsDistinct DoneMeansDelivered
PROPERTIES BothFinish
