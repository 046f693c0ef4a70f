CONSTANTS
  MaxBinds = 2
  Frames = 2
  Lobbies = 1
SPECIFICATION Spec
CHECK_DEADLOCK FALSE
INVARIANTS
  WritersOK
  StartLetIn
PROPERTIES
  UnbindStops
  BoundIsPlayed
