SPECIFICATION Spec
CONSTANTS
  Depth = 2
  CreditSlots = 2
  Payload = 2
  MaxMessage = 4
  Scenes <- SafetyScenes
INVARIANTS TypeOK NilMeansLanded StarvedSenderIsServed SendPathAccounted ReadsTheStream CreditsAccounted DataFits
PROPERTIES ImplementsCreditFlow ImplementsMessageStream
CHECK_DEADLOCK FALSE
