\* Two Dials and two Accepts; or one of each, whose Conns are used and closed.
SPECIFICATION FairSpec
CONSTANTS
  d1 = d1
  d2 = d2
  a1 = a1
  a2 = a2
  Dialers = {d1, d2}
  Accepts = {a1, a2}
  NoOne = NoOne
  Scenes <- MCScenes
INVARIANTS TypeOK Paired NothingLeaks
PROPERTIES CallsReturn
CHECK_DEADLOCK FALSE
