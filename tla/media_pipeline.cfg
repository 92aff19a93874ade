\* Overlapping pipelines, compose and create requests and a deletion, with a killed
\* run, a timeout or a failed statement, and cron passes that keep coming.
SPECIFICATION FairPipelineSpec
CONSTANTS
  Assets = {a1}
  Urls = {l1}
  BadUrls = {}
  Files = {}
  Requests = {u1}
  NoAsset = NoAsset
  NoUrl = NoUrl
  NoFile = NoFile
  StorageLimit = 0
  MaxOps = 1
  MaxCrashes = 0
  MaxDbFailures = 0
  Runs = {r1, r2}
  Selections = {{a1}}
  Slots <- OneSlot
  MaxCarousel = 1
  MaxSlotRetries = 2
  AiLimit = 2
  PostLimit = 1
  MaxFaults = 1
  MaxRuns = 1
INVARIANTS
  PipelineTypeOK
  
  GenerationsArePaid
  ScheduledPostsArePaid
PROPERTIES
  AssetsSettle
CHECK_DEADLOCK FALSE
