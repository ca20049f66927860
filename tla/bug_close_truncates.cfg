SPECIFICATION Spec
CONSTANTS
  Depth = 2
  CreditSlots = 2
  Payload = 2
  MaxMessage = 4
  Scenes <- CloseScenes
INVARIANTS OnlyWholeMessages
