SPECIFICATION RegistryFairSpec
CONSTANTS
  c1 = c1
  c2 = c2
  n1 = n1
  a1 = a1
  a2 = a2
  g1 = g1
  g2 = g2
  Clients = {c1, c2}
  Calls = 2
  Names = {n1}
  Addrs = {a1, a2}
  NoName = NoName
  None = None
  Closers = {g1, g2}
  Scenes <- SomeScenes
PROPERTIES ImplementsDirectory EverythingEnds
CHECK_DEADLOCK FALSE
