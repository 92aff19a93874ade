\* A post scheduled before any account was connected, and a killed function.
SPECIFICATION FairSpec
CONSTANTS
  p1 = p1
  Posts = {p1}
  Targets = {ig1, ig2}
  PostOf <- OnePost
  Assets = {a1}
  MediaOf <- AllMedia
  TikTok = {}
  BarePosts = {p1}
  Workers = {w1, w2}
  NoTarget = NoTarget
  MaxAttempts = 2
  BatchLimit = 1
  DirectPost = TRUE
  MaxCrashes = 1
  MaxDbFailures = 0
  MaxLostAcks = 0
PROPERTIES
  DuePostsResolve
CHECK_DEADLOCK FALSE
