SPECIFICATION ConnectionsSpec
CONSTANTS
  Members = {u1}
  TikToks = {t1}
  Instagrams = {g1, g2}
  Auths = {a1, a2, a3}
  Requests = {r1, r2}
  Limit = 1
  Rotates = TRUE
  MaxTokens = 3
  MaxFaults = 1
  None = None
SYMMETRY ConnectionsSymmetry
INVARIANTS
  ConnectionsTypeOK
  ConnectedWithinLimit
  TransactionUsedOnce
  AccountsFollowIdentity
  StoredTokenIsCurrent
PROPERTIES
  IdentityKeepsItsUser
CHECK_DEADLOCK FALSE
