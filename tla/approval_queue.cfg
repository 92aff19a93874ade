\* Approve, reject, retry and edit requests beside two overlapping executions.
SPECIFICATION ApprovalSpec
CONSTANTS
  p1 = p1
  Posts = {p1}
  x1 = x1
  x2 = x2
  y1 = y1
  Targets = {x1, x2, y1}
  Accounts = {"x", "y"}
  AccountOf <- MCAccountOf
  FirstRows = {x1}
  PostOf <- OnePost
  Assets = {a1}
  MediaOf <- AllMedia
  TikTok = {}
  BarePosts = {}
  Workers = {w1, w2}
  NoTarget = NoTarget
  MaxAttempts = 1
  BatchLimit = 1
  DirectPost = TRUE
  MaxCrashes = 0
  MaxDbFailures = 0
  MaxLostAcks = 0
  Requests = {u1, u2}
  NoPost = NoPost
  Limit = 2
  MaxOps = 2
SYMMETRY Symmetry
INVARIANTS
  ApprovalTypeOK
  InstagramExclusion
  DuplicatesNeedFaults
  OnlyApprovedIsSubmitted
  AttemptsBoundedWithRetries
  AccountsPostedOnce
CHECK_DEADLOCK FALSE
