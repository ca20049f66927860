\* Three Dials against a listener that accepts three times.
SPECIFICATION CMFairSpec
CONSTANTS
  Clients = {c1, c2, c3}
  NoClient = NoClient
  MaxAccepts = 3
INVARIANTS CMTypeOK ReturnedIsEstablished CMNothingLeaks
PROPERTIES CMCallsReturn
CHECK_DEADLOCK FALSE
