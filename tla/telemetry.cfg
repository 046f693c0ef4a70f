CONSTANTS
  t1 = t1
  t2 = t2
  x1 = x1
  x2 = x2
  Track <- TwoTracks
  Ssrc <- Sources
  None = None
SPECIFICATION Spec
CHECK_DEADLOCK FALSE
INVARIANTS
  GraphOK
  WorkersMatchSenders
PROPERTIES
  DestructCompletes
