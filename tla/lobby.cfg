CONSTANTS
  l1 = l1
  l2 = l2
  s1 = s1
  s2 = s2
  s3 = s3
  u1 = u1
  u2 = u2
  r1 = r1
  r2 = r2
  r3 = r3
  w1 = w1
  w2 = w2
  Lobby <- TwoLobbies
  Session <- ThreeSessions
  User <- TwoUsers
  Request <- ThreeRequests
  Watcher <- TwoWatchers
  Instance = Instance
  NoLobby = NoLobby
  NoSession = NoSession
  Nobody = Nobody
  IsHost = FALSE
  DbMayFail = TRUE
SPECIFICATION Spec
CHECK_DEADLOCK FALSE
SYMMETRY Symmetry
INVARIANTS
  LobbyOK
  OpenLobbyIsCurrent
  OneLiveSessionPerUser
  RendezvousMatched
PROPERTIES
  InUseNotDeleted
  LobbiesAreRooms
