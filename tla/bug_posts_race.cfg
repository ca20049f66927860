SPECIFICATION QPSpec
CONSTANTS
  sender = sender
  receiver = receiver
  poller = poller
  none = none
  Goroutines <- Conn
  Calls <- ConnCalls
  Mutex <- ConnMutex
  NoMutex = none
INVARIANTS PostedAsBuilt
CHECK_DEADLOCK FALSE
