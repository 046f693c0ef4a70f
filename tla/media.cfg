SPECIFICATION Spec
CONSTANTS
  User = {owner, guest}
  Owner = owner
  Call = {c1, c2}
  MaxCalls = 3
  Lifetime = 1
  MaxTime = 2
INVARIANTS
  TokensOK
  LastTokenWorks
  OnlyOwnerPublishes
CHECK_DEADLOCK FALSE
