\* Two Instagram targets, with every kind of fault.
SPECIFICATION Spec
CONSTANTS
  p1 = p1
  Posts = {p1}
  Targets = {ig1, ig2}
  PostOf <- OnePost
  Assets = {a1}
  MediaOf <- AllMedia
  TikTok = {}
  BarePosts = {}
  Workers = {w1, w2}
  NoTarget = NoTarget
  MaxAttempts = 2
  BatchLimit = 1
  DirectPost = TRUE
  MaxCrashes = 1
  MaxDbFailures = 1
  MaxLostAcks = 1
SYMMETRY WorkerSymmetry
INVARIANTS
  DuplicatesNeedFaults
  MediaRetained
CHECK_DEADLOCK FALSE
