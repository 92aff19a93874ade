\* Two overlapping executions on a post for both platforms, one of them killed.
SPECIFICATION Spec
CONSTANTS
  p1 = p1
  Posts = {p1}
  Targets = {ig1, tt1}
  PostOf <- OnePost
  Assets = {a1}
  MediaOf <- AllMedia
  TikTok = {tt1}
  BarePosts = {}
  Workers = {w1, w2}
  NoTarget = NoTarget
  MaxAttempts = 2
  BatchLimit = 1
  DirectPost = TRUE
  MaxCrashes = 1
  MaxDbFailures = 0
  MaxLostAcks = 0
SYMMETRY WorkerSymmetry
INVARIANTS
  TypeOK
  ClaimExclusion
  PublishedIsLive
  PostPublishedIsLive
  AttemptsBounded
  FailedIsExhausted
  ResolvedPostsAreSettled
  FailedPostIsNotLive
PROPERTIES
  PublishedIsFinal
  ImplementsDelivery
CHECK_DEADLOCK FALSE
