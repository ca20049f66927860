SPECIFICATION FairSpec
CONSTANTS
  Depth = 2
  CreditSlots = 1
  Payload = 2
  MaxMessage = 4
  Scenes <- LiveScenes
PROPERTIES CallsComplete CloseWakes
CHECK_DEADLOCK FALSE
