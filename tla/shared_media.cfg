\* Two posts that have one asset in common.
SPECIFICATION Spec
CONSTANTS
  p1 = p1
  Posts = {p1, p2}
  Targets = {ig1, ig2}
  PostOf <- PostEach
  Assets = {a1}
  MediaOf <- AllMedia
  TikTok = {}
  BarePosts = {}
  Workers = {w1}
  NoTarget = NoTarget
  MaxAttempts = 2
  BatchLimit = 1
  DirectPost = TRUE
  MaxCrashes = 0
  MaxDbFailures = 0
  MaxLostAcks = 0
INVARIANTS
  OriginalsRetained
CHECK_DEADLOCK FALSE
