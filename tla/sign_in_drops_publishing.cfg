SPECIFICATION ConnectionsSpec
CONSTANTS
  Members = {u1}
  TikToks = {t1}
  Instagrams = {}
  Auths = {a1, a2}
  Requests = {r1}
  Limit = 1
  Rotates = TRUE
  MaxTokens = 2
  MaxFaults = 0
  None = None
INVARIANTS
  PublishingStaysApproved
CHECK_DEADLOCK FALSE
