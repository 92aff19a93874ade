\* Two overlapping executions on a post for TikTok, without faults.
SPECIFICATION FairSpec
CONSTANTS
  p1 = p1
  Posts = {p1}
  Targets = {tt1}
  PostOf <- OnePost
  Assets = {a1}
  MediaOf <- AllMedia
  TikTok = {tt1}
  BarePosts = {}
  Workers = {w1, w2}
  NoTarget = NoTarget
  MaxAttempts = 2
  BatchLimit = 1
  DirectPost = TRUE
  MaxCrashes = 0
  MaxDbFailures = 0
  MaxLostAcks = 0
PROPERTIES
  JobsAreResolved
CHECK_DEADLOCK FALSE
