CONSTANTS
  s1 = s1
  s2 = s2
  t1 = t1
  Session <- TwoSessions
  Track <- OneTrack
  Owner <- OneOwner
  Main <- OneTrack
  HasSender = TRUE
  NoTrack = NoTrack
  NoSession = NoSession
SPECIFICATION FairSpec
CHECK_DEADLOCK FALSE
INVARIANTS
  SendersOK
  NeverWaitsForGathering
  InStepButMissed
PROPERTIES
  HubReturns
  FetchEnds
