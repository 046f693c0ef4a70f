SPECIFICATION Spec
CONSTANTS
  peer = peer
  Server <- MCServer
  Document <- MCDocument
  Fragile = {}
  Nobody = Nobody
  Worker = {w1, w2}
  Video = {v1, v2}
  Guest = {g1}
  Owner = Owner
  MaxPosts = 3
  MaxKills = 1
  MaxLobbies = 3
SYMMETRY MCSymmetry
INVARIANTS
  StreamsOK
  AccessIffVideo
CHECK_DEADLOCK FALSE
