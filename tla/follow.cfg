SPECIFICATION Spec
CONSTANTS
  peer = peer
  odd = odd
  Server <- MCServer
  Document <- MCDocument
  Trusted <- MCTrusted
  Claim <- MCClaim
  Fragile = {odd}
  Nobody = Nobody
  Local = Local
  Worker = {w1}
  Sender = {o1}
  Request = {r1, r2}
  MaxPosts = 2
  MaxKills = 1
INVARIANTS
  TablesOK
  AcceptedOnWord
PROPERTIES
  RegisterAnswered
  InboxServed
CHECK_DEADLOCK FALSE
