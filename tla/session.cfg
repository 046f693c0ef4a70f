CONSTANTS
  IngressKinds = {"unidirectional"}
  EgressKinds = {"silent", "unidirectional"}
  Mutes = {m1, m2}
  MaxCommands = 4
SPECIFICATION FairSessionSpec
CHECK_DEADLOCK FALSE
INVARIANTS
  SessionOK
  EgressHasMessenger
  ClosedOnce
PROPERTIES
  CommandReturns
