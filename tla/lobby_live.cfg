CONSTANTS
  l1 = l1
  l2 = l2
  s1 = s1
  s2 = s2
  s3 = s3
  u1 = u1
  u2 = u2
  r1 = r1
  r2 = r2
  r3 = r3
  w1 = w1
  w2 = w2
  Lobby <- TwoLobbies
  Session <- TwoSessions
  User <- OneUser
  Request <- TwoRequests
  Watcher <- TwoWatchers
  Instance = Instance
  NoLobby = NoLobby
  NoSession = NoSession
  Nobody = Nobody
  IsHost = TRUE
  DbMayFail = FALSE
SPECIFICATION FairSpec
CHECK_DEADLOCK FALSE
PROPERTIES
  RequestsAnswered
  EmptyLobbyIsRemoved
  LostSessionEnds
