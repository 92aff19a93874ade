# A verification of AMAI

AMAI takes a brand's media, makes posts of them, and publishes the posts to
Instagram and TikTok on a schedule, for organizations that pay by subscription. This
directory holds TLA+ models of the parts that decide what is stored, what is made of
it, what is sent, when and how often, and who may do so: the publishing engine and
the approval queue, the media library and pipeline, usage counters, billing webhooks
and social connections. TLC checks the models on small instances; TLAPS proves the
main safety properties for every value of the constants.

`tlc -config <run>.cfg <module>` repeats a run, `tlapm <module>Proofs.tla` the
proofs. `PROJECT.json` relates every definition to the lines it models, every
property to a mutation of the code that breaks it, and every hazard of the code to
the properties about it.

Paths below are relative to `src/apps/api/src/` unless they start with `src/`.

## 1. The system

There is no job queue and no long-lived worker. The API runs inside serverless
functions (`src/apps/web/src/app/api/[...path]/route.ts`, killed after 60 seconds,
line 7). A daily cron, every load of a posts list, a "publish now" request, a retry and a
metrics run each execute the same service methods, in functions of their own,
against one PostgreSQL database. Coordination happens only there: by the `WHERE`
clause of an `UPDATE`, by unique indexes, and by timestamps that declare a claim or
a post stale.

| Component | State | Operations | Hard behaviour |
|---|---|---|---|
| Publishing engine, `queue/publishing.service.ts` | `Post.status`, `publishedAt`, `scheduledAt`, `updatedAt`; `PostTarget.status`, `claimedAt`, `attemptCount`, `providerPostId`; `PostMedia`, `MediaAsset.blobUrl` | `publishDuePosts`, `attachTargetsForConnectedAccounts`, `publishOne`, `confirmTikTokPublication`, `failTikTokPublication`, `finalizeIfComplete` | overlapping passes, kills between statements, errors after an irreversible platform call, counts read in one statement and used in another |
| TikTok reconciliation, `metrics/metrics.service.ts` | reads targets, writes them through the two methods above | `syncTikTokMetrics`, `syncOneAccount` | overlapping runs, snapshots of an earlier attempt, a 24-hour limit |
| Approval queue, `engine/engine.service.ts` 980-1265 | `Post.status`, `scheduledAt`, `approvedAt`; usage credits | `approvePost`, `rejectPost`, `retryPost`, `editPost`, `replaceTargets` | check, then unconditional write, beside the passes |
| Media library, `media/media.service.ts`, the upload-token route of the web application | `MediaAsset` rows, blobs in the store | `uploadAsset`, `getUploadPolicy`, `registerUploadedAsset`, `createAssetRecord`, `deleteAsset` | bytes and rows in two stores without a transaction; limits checked before use |
| Media pipeline, `engine/engine.service.ts` 299-978, `media/media.service.ts`, `engine/engine-jobs.service.ts` | `MediaAsset.status`, `linkedPostId`; new posts and targets | `triggerProcessing`, `handleMediaUploaded`, `processMediaAsset`, `composeManualPost`, `createPost`, `processPendingMedia`, sweeps | a timeout that does not stop the work, double claims, deletion while linking, kills between post and link |
| Entitlements and usage, `billing/entitlements.service.ts`, `billing/usage.service.ts` | `UsageRecord.count` per month, of posts and AI generations | `reservePostSlot`, `reserveAiGeneration`, `incrementIfUnderLimit`, `decrement`, `canPerformAction` | concurrent reservations at the limit, a refund after the month has turned, a plan that changes |
| Scheduling, `engine/scheduling.service.ts` | slots taken by posts | `assignNextSlot` | a slot chosen before the post is created; the unique index decides |
| Drive sync, `engine/engine-jobs.service.ts` 102-181 | `DriveSyncLog`, assets | `syncOneConfig` | import and log are separate statements |
| Billing and webhooks, `billing/` | `Subscription`, `BillingWebhookEvent`, `PlanPrice` | `startCheckout`, `handleWebhook`, `applySubscriptionEvent`, `setPrice` | duplicated, reordered and lost deliveries; an event applied before it is recorded; a price taken off the list |
| OAuth connections, `oauth/oauth.service.ts` | `OAuthTransaction`, `AuthIdentity`, `SocialAccount` with tokens and scopes | redirects, refresh, disconnect | redirects delivered twice, two users for one account, a rotating refresh token used by several functions |
| Authentication, `auth/auth.service.ts` | users, pending registrations, tokens | TikTok sign-in, register, activate, reset | two sign-ins of one new identity; a link used twice |
| AI layer, `ai-layer/` | keys with cooldowns | `getNextKey`, `reportFailure` | all keys cooling down |
| Comment replies, `webhooks/webhooks.service.ts` | pending replies | ingest, reply | duplicated deliveries |
| Posts, dashboard, cron, health, brain, notifications, admin, email | records | listing, bookkeeping | they start passes; otherwise advisory |

How they interact: a file arrives as an upload, a direct upload or a Drive import
(media library) and becomes a post with one target per connected account (media
pipeline), for an AI credit (usage), at a slot (scheduling), either `SCHEDULED` at
once for a publication credit (AutoPilot) or `NEEDS_APPROVAL` (approval queue). A pass
finds it when it is due, and publishes each target (publishing engine) with the
token of a social account (connections). Instagram answers when the post is live;
TikTok answers with a job, which the reconciliation follows until the target can be
settled. Each settled target may settle the post. Webhooks of the payment providers
set the plan, and with it every limit (billing).

What makes them correct:

- *Claims.* Two executions never work on one target; no target is sent to its
  platform twice unless a fault forces the choice between once too often and never.
- *Attempts.* A target is attempted `MAX_PUBLISH_ATTEMPTS` times, no more and, before
  it is given up, no fewer.
- *Records.* `PUBLISHED` means the platform shows it; a settled post has no target
  that can still change; `FAILED` means nothing was published; an original is freed
  only with a post that is live everywhere. Another post that shares the asset may lose
  it so, against what the code says (section 3).
- *Progress.* A due post for Instagram is settled in the end, unless a function is killed
  at the one moment that strands it; a post for TikTok need not be, as an overlap can hide
  its job (section 3). No asset is processed for ever; a webhook is answered in the end.
- *Approval.* Nothing is sent without approval, and the monthly limit holds.
- *Media.* A row has its bytes; an asset enters one post; a file is imported once.
- *Credits.* Work that was done is counted, whatever fails, and counted work keeps to
  the plan.
- *Subscription.* The row is what the provider says of the subscription it names,
  although webhooks come twice and Paystack's in any order. It need not be once a
  webhook was lost, overlapped another of its subscription, or, from Stripe, came late.
- *Accounts.* An identity keeps its user, an account sits with its identity, and the
  stored refresh token is the one TikTok accepts.

## 2. The modules

| Module | What it is |
|---|---|
| `Publishing` | the publishing engine and the TikTok reconciliation |
| `Approval` | extends `Publishing` with the requests of the approval queue and the monthly credits |
| `Delivery` | what `publishOne` promises of a target, without its statements: the abstract specification |
| `PublishingDelivery` | the mapping under which `Publishing` implements `Delivery` |
| `MediaLibrary` | uploads, registrations, deletions and Drive imports over rows and blobs |
| `MediaPipeline` | extends `MediaLibrary` with the runs that make posts of assets |
| `Usage` | one metered counter around the turn of a month |
| `Billing` | subscriptions, their webhooks and the price list |
| `Connections` | TikTok and Instagram accounts: redirects, sign-in, refresh, disconnect |
| `PublishingProofs`, `SettlementProofs`, `ApprovalProofs`, `DeliveryProofs`, `MediaProofs`, `UsageProofs`, `BillingProofs`, `ConnectionsProofs` | the theorems and their proofs |
| `MC...` | the constants and symmetries of the TLC runs |

### Publishing

A *worker* is one execution of `publishOne`, of a reconciliation or of the attach
pass. `pc[w]` is the statement it will run next; `target[w]`, `media[w]`, `sub[w]`,
`count[w]` and `late[w]` are its local variables: the row it read, the blob it saw,
the answer it got, the last count. Every database statement and every platform call
is one action, so any two workers interleave between any two statements.

| Code | Actions |
|---|---|
| `publishDuePosts` gather phase (122-176) | `Sweep`: any `take` of the due or stale posts (the query has no order); the claimable targets go to `handed` |
| execute phase and deadline (178-218) | `Read` takes a listed target, `DropHanded` forgets the rest |
| `attachTargetsForConnectedAccounts` (229-258) | `FindBare`, `Attach`, `FailBare` |
| `publishOne`, read and claim (360-411) | `Read`, `Claim` (the compare-and-swap) |
| post mark, preflight, platform call (421-577) | `MarkPost`, `Preflight`, `CallPlatform`, `RefreshAndRetry` |
| commit, event, finalize (579-619) | `Commit`, `Notify`, then the steps of `finalizeIfComplete` |
| catch block (620-690) | `ReadAttempts`, `Release`, `GiveUp`, `CountPublished`, `Revert` |
| `finalizeIfComplete` (777-840) | `CountRemaining`, `Tally`, `Settle`, `CountFailed`, `Purge` |
| `confirmTikTokPublication`, `failTikTokPublication` (695-741) | `ConfirmRead`, `ConfirmWrite`, `FailRead`, `FailWrite` |
| `syncTikTokMetrics`, `syncOneAccount` (`metrics.service.ts` 49-153) | `Track`, `Poll` |

Posts share assets: `MediaOf[p]` are the rows of `PostMedia`, and `blob[a]` says whether
the asset still has its original. `HasMedia` is what an execution sees of them when it
reads the target, and `Freed` the assets that `finalizeIfComplete` strips, whichever
other posts have them too.

`subs[t]` is what the platform of `t` accepted, in order: the ghost against which the
records of the database are judged. Instagram's entries are live at once; TikTok's
start as `processing` and `SettleJob` decides them at any time.

Faults are bounded by three constants. `Crash` kills an execution between two
statements (`MaxCrashes`); it also stands for a throw outside the try block.
`DbFailure` makes a statement after the platform's answer throw into the catch block
(`MaxDbFailures`). A lost answer (`MaxLostAcks`) is a third outcome of `CallPlatform`.
A refusal by the platform or by the preflight is an ordinary outcome, never bounded.

Time is abstract. `due`, `old` and the `claimedAt` ages `fresh` and `stale` change by
actions of their own. A function lives 60 seconds at most, so a claim is ten minutes
old (`STALE_CLAIM_MS`), or a post five minutes without an update, only when no
execution that set it is running: the guards of `ExpireClaim` and `AgePost` (where
`HasMarked` are the executions that have updated their post). A mutant drops the first
guard, and duplicates follow. The 60 seconds are an assumption: `getPosts` does not wait
for the pass it starts (`posts/posts.service.ts` 140), and an instance that is frozen
after its response and used again later would run the rest of that pass then, outside
these guards.

Abstracted: the platform protocols (containers, chunks, polling inside one call) are
one call with its three outcomes; the checks between claim and call are one
`Preflight` that throws when the media is missing and may throw otherwise; event
rows, log rows and notifications are left out except where the step that writes them
can be interrupted (`Notify`, `GiveUp`).

### Approval

A *request* is one HTTP request of `approvePost`, `rejectPost`, `retryPost` or
`editPost`. It reads the post and checks its status (`ApproveRead`, `RejectRead`,
`RetryRead`, `EditRead`), and writes later, without a condition, as the code does. Posts
are those of the queue, which start `NEEDS_APPROVAL`, and those of AutoPilot, which
start `SCHEDULED`.

| Code (`engine/engine.service.ts`) | Actions |
|---|---|
| `approvePost` (984-1107) | `ApproveRead`, `SelectTargets`, `Reserve` (preflight and credit), `ApproveWrite`, `Hand` |
| `rejectPost` (1116-1144) | `RejectRead`, `RejectWrite` |
| `retryPost` (1151-1182) | `RetryRead`, `RetryTargets`, `RetryPost`, `Hand` |
| `editPost` (1184-1227) | `EditRead`, `ReselectTargets`, `EditWrite` |
| `replaceTargets` (1236-1265) | `ReplaceTargets`, `NewRows`, `SwapRows`, inside `SelectTargets` and `ReselectTargets` |
| `publishOne` on a deleted row (`publishing.service.ts` 589-652) | `MissRow` |

`Hand` is the loop of "publish now" and of retry over the pending targets.
`ApproveWrite` and `EditWrite` throw when the partial unique index has the instant
taken, the former with its credit spent. `used` is the month's counter; the statement
that takes a credit compares and increments at once (`usage.service.ts` 103).

`replaceTargets` deletes the rows of deselected accounts, whatever an execution is
doing with them, and creates rows for newly selected ones. `Targets` are therefore
row ids: a deleted row never comes back, and an account that is selected again gets a
row of its own (`AccountOf`, `FirstRows`). An execution whose row is gone meets it at
its next statement by id: the commit throws into the catch block, and the release
there throws out of `publishOne` (`Bereft`, `MissRow`). `Undisturbed` is every step of
`Publishing` that needs no deleted row. The ghosts `erased` and `torn` remember the
deleted rows and those of them that an execution had begun to publish.

A request that is killed takes no further step; nothing here assumes fairness of
requests, so that needs no action.

### Delivery, PublishingDelivery

`Delivery` knows of a target only who leases it, whether the lease has heard the
platform accept, how often it was sent, and the recorded outcome: `Take`, `Send`,
`Record`, `Finish`, `GiveBack`, `Report` (a job that ends), and the faults `Die` and
`Forget`. `PublishingDelivery` maps the engine to it: a lease is the code of an
execution between its claim and its outcome (`LeaseMap`), it has heard from the commit
on while it is in the try block (`HeardMap`), `SentMap` counts `subs`, and `OutcomeMap`
reads status and `claimedAt`. Counting, settling, attaching, ageing and reading are
stutters.

### MediaLibrary

A file is bytes in the store (`blobs`) and a row (`mstatus`, `url`), joined by no
transaction. Uploads: `Upload`, `StoreUpload`, `CreateRow`. Direct uploads: `Token`,
`Transfer` (the browser), `Register`, `Verify`, `CheckLimit`, `CreateRow`. Deletion:
`Delete`, `EraseBytes`, `DropRow`. Drive: `Sync`, `FetchFile`, `CreateRow`, `LogSync`.
`CrashRequest` ends a request between two steps. Files are of size one, so that
`StorageLimit` counts files; Drive imports count and are never refused, as in the
code. The ghost `contended` marks URLs that were registered while another request
registered or deleted them: there the clean-up of a refusal may meet a row.

### MediaPipeline

A *run* is one execution of `processMediaAsset`, `composeManualPost` or `createPost`,
over the rows of `MediaLibrary`.

| Code | Actions |
|---|---|
| `sweepStaleProcessing`, `processPendingMedia`, the import's own call | `Recover` |
| `triggerProcessing`, the claim | `Process`, `ClaimAsset` (the compare-and-swap) |
| `composeManualPost`, `createPost` | `Compose`, `MarkComposed`, `Draft` |
| credit and generation | `ReserveAi`, `Refuse`, `Generate`, `ReleaseAi` |
| slot and post | `PickSlot`, `CreatePost` (with the unique index and `MAX_SLOT_RETRIES`) |
| AutoPilot | `ReserveCredit`, `Downgrade` |
| link, failure | `Link`, `FailRun` |
| `withPipelineTimeout` and the handler | `TimerFires`, `HandlerFails`, `Freeze` |

The timeout answers and does not stop the promise it raced: the run goes on beside a
handler that has failed its asset, until the platform freezes the function (`Freeze`).
`CrashRun` and `StatementFails` are the other faults; `Age` is the two minutes after
which a `PROCESSING` asset is taken for dead. `ResolvePost` and `RejectPost` stand for
`Publishing` and `Approval`, which free or keep an instant.

### Usage

One counter of one organization over several months: `ReadLimit` and `Increment` are
the two statements of a reservation, `Finish` the metered work, `Decrement` the refund,
with `Turn` and `ChangePlan` between any two of them. The ghosts `given`, `strayed` and
`ceiling` keep what each month owes, what was refunded into the wrong month, and the
largest limit there has been.

### Billing

The providers hold the subscriptions and number their webhooks. `Checkout` and `Change`
send one; `CheckProcessed`, `Extract`, `Apply`, `Record` and `Answer` are the statements
of `handleWebhook`; any webhook that has not been answered may be delivered again,
beside the handler that holds it. A Stripe event carries its state; for a Paystack event
`Extract` fetches the state of that moment. `Apply` finds the organization's row by
the metadata or the ids, or, for the first event of a Paystack subscription, by the
customer's address, which may lead to no row: then nothing is written, and the event is
recorded all the same. `ReadPrice`, `CreatePrice` and `SwapPrices`
are `setPrice`. `CrashHandler` and `GiveUp` are the faults. The ghost `newest` is the
latest webhook applied of each subscription; `muddled` has the subscriptions of which a
webhook was lost, came behind a newer one, or was applied beside another.

### Connections

Consent screens (`OpenConsent`, `Expire`), the TikTok redirect (`Receive`, `Consume`,
`ExchangeTikTok`, `ExchangeRefused`, then `ResolveLogin`, `CreateUser` to sign in or
`CheckIdentity`, `LinkIdentity` to link), the Instagram redirect (`ReceiveInstagram`,
`ForgetCode`, `ExchangeInstagram`), the row of either (`LookForRow`, `CountAccounts`,
`UpsertAccount`), the refresh of the publisher and of the API (`StartRefresh`,
`AskRefresh`, `StoreRefresh`), and `Disconnect`. `RequestDies` loses an answer or a
write. `current` is external, the refresh token TikTok accepts; `Rotates` says whether a
refresh replaces it, which the code leaves open. The ghosts: `mislaid` has the accounts
whose newest token was not stored in its turn, `contested` those given to one user
while another had passed the identity check, `linked` the rows whose owner last linked
them with publishing, and `moved` those deleted from one brand while a callback that had
seen the row there was about to write it in another.

Simplified: a user has one brand, where an agency's has several; the bounds are per brand
and do not change. TikTok is taken to honour only the token it issued last, so that two
refreshes cannot both succeed with one token.

## 3. What is checked

| Run | Instance | Shows |
|---|---|---|
| `publishing_cron` | one post, one Instagram and one TikTok target, two workers, one crash | types; `ClaimExclusion`; `AttemptsBounded`, `FailedIsExhausted`; `PublishedIsLive`, `PostPublishedIsLive`, `ResolvedPostsAreSettled`, `FailedPostIsNotLive`; `PublishedIsFinal`; `ImplementsDelivery`: the engine implements `Delivery` |
| `publishing_faults` | two Instagram targets, one fault of each kind | `DuplicatesNeedFaults`: Instagram accepts a target once, plus once per fault; `MediaRetained`: an original is freed only with a post that is live everywhere |
| `publishing_live` | a bare post, two Instagram accounts connected while passes run, one crash, fairness | `DuePostsResolve`: a due post for Instagram is published or failed in the end, unless it is `Stranded`; attaching targets twice duplicates nothing |
| `approval_queue` | one post, of the queue or of AutoPilot; three rows, two of one account and one of another, of which one exists from the start; two workers, two requests, `MaxAttempts` 1, no faults | `InstagramExclusion`, `DuplicatesNeedFaults`, `AttemptsBoundedWithRetries` survive "publish now", retries and replaced rows; `OnlyApprovedIsSubmitted`; `AccountsPostedOnce`: an account gets a post twice only if it was taken off the post after an execution had begun |
| `media_library` | up to four rows and URLs, one of a bad file, a limit of one file, two requests at a time of six, one Drive file, one crash, one failed statement | `RowsKeepTheirBytes`; `DirectUploadsWithinLimit`: exceeded by no more than the requests that overlap; `ImportsBounded` |
| `media_pipeline` | one asset, one slot, two runs at a time, one started by the user, drafts with media only (`Selections`), one deletion, one fault, fairness | `PostsPerAsset`: one post, plus one per fault and composition and two per timed-out run; `GenerationsArePaid`; `ScheduledPostsArePaid`; `AssetsSettle`: no asset stays `PENDING` or `PROCESSING` |
| `billing` | a Stripe and a Paystack subscription, two webhooks, two handlers, a change of price, one fault, fairness | `RowFollowsProvider`; `WebhooksSettle`: a webhook is answered in the end |
| `usage` | three requests, two months, limits 1, 2 and none | `CountWithinLimit`; `WorkIsCounted` |
| `connections` | a member, a TikTok and two Instagram accounts, three consent screens, two requests at a time, rotating tokens, one fault | `TransactionUsedOnce`, `IdentityKeepsItsUser`, `AccountsFollowIdentity`, `StoredTokenIsCurrent`; `ConnectedWithinLimit`: exceeded by no more than the callbacks that overlap |

The bounds. Two workers, runs, handlers or requests are what every race here needs: the
one that acts and the one that acts in between; a third repeats the second's part.
(`usage` has three, since a refund, a reservation and a limit that changed can meet.)
Two attempts make the first failure retryable and the second terminal, the two branches
of the catch block; `approval_queue`, which asks about requests, has one, and leaves
crashes to the publishing runs. Two targets of one post are what `finalizeIfComplete`
relates; one asset will do, since an execution looks at all the assets of its post or at
none, and `shared_media` gives it to two posts. One crash, one database error and one lost answer give the properties their
exceptions, alone and, but for liveness, together in `publishing_faults`. Two requests served (`MaxOps`)
are an approval or a retry and the edit, rejection or approval that overlaps it; three
rows let an account be taken off a post and come back. In `media_library` six requests
are an upload with its registration, a second registration of the same file and a
deletion beside it, and an import made twice. In `media_pipeline` one slot makes every
second post collide; a draft without media writes no asset, and takes an instant as one
with media does, so `Selections` leaves it to the theorems. Two webhooks are the older
and the newer, or one of each provider.
Three tokens are a grant, a refresh and another grant. Symmetry is used in the safety
runs only.

A proof shows what a small instance hides. Two bounds that held on the instances above
turned out false when their invariants were sought, on instances of one more user or
run, and were corrected to what the code does: a run that timed out
may cost an asset two posts (its handler reopens the asset, and the run goes on), and
`assertCanConnectNewAccount` lets an account pass uncounted whose row it saw in another
brand, although that row may be deleted before the upsert.

Deadlock is not checked: every system here may stop, when a post is settled and no
request is left to serve.

Fairness. In `FairSpec`, the clock and TikTok move on (weak fairness of `Clock` and
`SettleJob`). A step that has started continues unless it is
killed (weak fairness of `Step`). Passes keep coming, from the daily cron of
`src/vercel.json` and from every load of a posts list. A pass is an execution of its own
and does not wait for those that run; the model has a fixed number of workers, so a
sweep is made in the end if a worker is idle again and again (strong fairness of
`Sweep`). A target that is listed again and again is attempted in the end, as a bare post
is attached and a TikTok job that can be tracked is polled in the end, although any single
pass may stop at its deadline or be killed: strong fairness of `Read` of each target, of
`Track` of each TikTok target and of `FindBare` of each bare post. In
`PipelineFairness`, the same passes run `processPendingMedia`: a recoverable asset is
recovered in the end (strong fairness of `Recover`), ages (weak, `Age`), and while
functions run, one of them takes a step or is frozen (weak, of `Step` and `Freeze` of
all runs together). In `BillingFairness`, a
handler takes its steps (weak, `Handle`) and a provider that gets no 2xx delivers again,
for days (strong, `Deliver`); giving up is a fault. Nothing is assumed of users'
requests, connections, refusals or faults.

### Where code and documents disagree

Each of these runs checks one promise and finds the behaviour that breaks it.

| Run | Promise | What happens |
|---|---|---|
| `late_revert_hides_job` | a TikTok target is kept "in PUBLISHING with no active claim; MetricsService will resolve the job" (579-582) | without a fault: an execution that was refused releases the target and counts no success; a second one claims it and marks the post `PUBLISHING`; the first one's bounce (681) sets the post to `SCHEDULED`; the second one's job is then under a post that the metrics query passes over, and its target is not one that passes claim |
| `shared_media` | "Retain originals until every destination succeeds so failed targets can retry" (813; `src/docs/production-fix-notes.md` 8) | two posts have one asset, as when two requests of `composeManualPost` overlap between their check of `linkedPostId` (`engine/engine.service.ts` 772) and the link; settling the first post frees the original, and the second post has nothing to send |
| `sign_in_drops_publishing` | "TikTok login identity is distinct from optional content-posting scopes" (`src/docs/architecture.md` 42) | a sign-in asks for the profile scopes only, and its callback writes the new token and scopes over the row that was linked for publishing (`oauth/oauth.service.ts` 746) |

The models contain other behaviours that surprise, as the exceptions of properties and
without a run of their own: a function killed after it has resolved a post's last target
and before `finalizeIfComplete` leaves the post `PUBLISHING`, or `SCHEDULED` if an
overlapping bounce had taken it there, and no pass ever settles it (`Stranded`), although
a hard kill "self-heals on the next cron pass rather than stranding the post"
(`queue/publishing.service.ts` 67-72); a target killed between the platform's answer and the commit
is sent again (the faults in `DuplicatesNeedFaults`); an error after the commit makes a
live target `PENDING` (`PublishedIsFinal` holds without `DbFailure`); a pass that saw no
connected account fails a post another pass has published (bare posts); a target that is
listed is still sent after its post was rejected; two approvals that overlap take
two credits; a row that an edit adds to a post just finished is never published; a paid
Paystack subscription whose first webhook finds no row never changes the plan.

## 4. What is proved

Every theorem is of the specification the runs use, for every value of the constants
that satisfies the named assumptions.

| Theorem | Property |
|---|---|
| `PublishingProofs!TypeCorrect` | `TypeOK` |
| `PublishingProofs!Exclusion` | `ClaimExclusion` |
| `PublishingProofs!NoDuplicateWithoutFault` | `DuplicatesNeedFaults` |
| `PublishingProofs!BoundedAttempts` | `AttemptsBounded` |
| `PublishingProofs!NoEarlyFailure` | `FailedIsExhausted` |
| `PublishingProofs!RecordedIsLive` | `PublishedIsLive` |
| `PublishingProofs!SettledIsLive` | `PostPublishedIsLive` |
| `SettlementProofs!MediaKept` | `MediaRetained`, for posts with accounts and any sharing of assets |
| `SettlementProofs!SettledForGood` | `ResolvedPostsAreSettled`, while `dbFailures = 0` and for posts with accounts |
| `SettlementProofs!FailedIsNotLive` | `FailedPostIsNotLive`, for posts with accounts |
| `SettlementProofs!SuccessIsFinal` | `PublishedIsFinal`, of behaviours without a `DbFailure` |
| `SettlementProofs!FailureIsFinal` | an Instagram target that has failed stays so, whatever fails |
| `ApprovalProofs!ApprovalTypeCorrect` | `ApprovalTypeOK` |
| `ApprovalProofs!OnlyApproved` | `OnlyApprovedIsSubmitted` |
| `ApprovalProofs!InstagramClaims` | `InstagramExclusion` |
| `ApprovalProofs!DuplicatesPaidFor` | `DuplicatesNeedFaults`, of `ApprovalSpec` |
| `ApprovalProofs!RetriesBuyOneAttempt` | `AttemptsBoundedWithRetries` |
| `ApprovalProofs!AccountsOnce` | `AccountsPostedOnce` |
| `DeliveryProofs!Implements` | `ImplementsDelivery` |
| `MediaProofs!LibraryTyped` | `LibraryTypeOK` |
| `MediaProofs!RowsKeepBytes` | `RowsKeepTheirBytes` |
| `MediaProofs!LimitKeptByUploads` | `DirectUploadsWithinLimit`, if there is a request at all |
| `MediaProofs!ImportsKeptBounded` | `ImportsBounded` |
| `MediaProofs!PipelineTyped` | `PipelineTypeOK` |
| `MediaProofs!GenerationsPaid` | `GenerationsArePaid` |
| `MediaProofs!SchedulesPaid` | `ScheduledPostsArePaid` |
| `MediaProofs!PostsKeptFew` | `PostsPerAsset` |
| `UsageProofs!UsageTypeCorrect` | `UsageTypeOK` |
| `UsageProofs!WithinLimit` | `CountWithinLimit` |
| `UsageProofs!Counted` | `WorkIsCounted` |
| `BillingProofs!BillingTypeCorrect` | `BillingTypeOK` |
| `BillingProofs!RowAgrees` | `RowFollowsProvider` |
| `ConnectionsProofs!ConnectionsTypeCorrect` | `ConnectionsTypeOK` |
| `ConnectionsProofs!OneDelivery` | `TransactionUsedOnce` |
| `ConnectionsProofs!IdentityIsKept` | `IdentityKeepsItsUser` |
| `ConnectionsProofs!AccountsSit` | `AccountsFollowIdentity` |
| `ConnectionsProofs!TokensAgree` | `StoredTokenIsCurrent` |
| `ConnectionsProofs!AccountsWithinLimit` | `ConnectedWithinLimit` |

### Publishing

Assumed: `TargetsAssumption` (finitely many targets, each of one post; the absent target
is none of them) and `LimitsAssumption` (positive limits, natural bounds). No property is
inductive alone: that `Claim` keeps two executions apart depends on an owner's row being
neither `PENDING` nor stale, which depends on where every other execution stands. The
inductive invariant `IInv` has four parts, each with a lemma that every action
preserves it:

- `ClaimInv`: `TypeOK`; the code a worker is in follows from its step
  (`WorkersPlaced`); exclusion; and the claim of an owner is in force (`OwnersClaim`):
  the row is not `PENDING`, not stale, and for Instagram it is freshly claimed up to the
  commit and `PUBLISHED` after it. This is what makes the compare-and-swap sufficient,
  and what the guard of `ExpireClaim` is for.
- `SubmissionsInv`: beyond one submission per fault there is at most one more, and
  then the target is `PUBLISHED` or its owner is about to commit; whoever is in a
  catch block holds a submission only at the price of a fault. It rests on exclusion:
  two owners could otherwise submit between each other's steps.
- `AttemptsInv`: a target that can be claimed has an attempt left, and what the catch
  block read is still the count when it decides, again by exclusion. The parameter
  admits attempts granted from outside, as `retryPost` does.
- `LiveInv`: the submission that an answer, a snapshot or a row names exists, and is
  live where it is about to be recorded. A count of published targets read before
  `Settle` keeps its meaning since no submission ever ceases to be live, even if the
  target is reopened in between.

`InitInv` and `NextInv` give `Inductive`; the theorems follow by implication.

### Settlement

`finalizeIfComplete` reads in five statements and trusts, at each, what the ones before
have seen. `SInv` says what it may trust, on top of `IInv`:

- `PlannedInv`: the targets of a post that had accounts when it was scheduled are rows
  from the start. Bare posts are left out of these theorems: a pass that connects an
  account may add a row to a post that another pass has settled.
- `MediaInv`: whoever has counted an Instagram target as resolved finds it live or failed
  for good until the purge, and at the purge every target is live (`CountedInv`); every
  asset that has lost its original belongs to a post that was live everywhere then and is
  so from then on (`FreedInv`). It holds under every fault, because neither `FAILED` nor
  the submission of a live target goes away. Of the other posts that have the asset it
  says nothing, as `OriginalsRetained` is false.
- `JobsInv`, `SettledInv`, `FailedInv`, while no statement has failed after the platform's
  answer: a row that names a submission is resolved, or a job that TikTok has, and
  whoever may still send it owns a row that names none; a post that is settled, or about
  to be, has resolved targets only; a failed one has none live on Instagram.

`DbFailure` breaks the last three in the code: its catch block makes a published target
`PENDING`. `FailedIsNotLive` then holds since the property excuses faults, and
`SuccessIsFinal` and `SettledForGood` say in their statements that they need its absence.
`FailureIsFinal` needs no such condition: the attempts of a given-up row are used up.

### Approval

Assumed, beside the assumptions of `Publishing`: `ApprovalAssumption` (each row is about
one account, the rows a post was created with are about different ones, as
`@@unique([postId, socialAccountId])` of `schema.prisma` has it, and the plan has a limit)
and `RowsAssumption` (each post was created with a row;
posts that no account was connected for are left to `Publishing`). `ClaimInv` does not
carry over: a request deletes rows under their owners, and a TikTok row may have two. What
does is proved in three layers, each from the ones before:

- `BasicInv`: types; `WorkersPlaced`, taken over from `PublishingProofs` for the steps of
  `Publishing` and added for `MissRow`; every post keeps a row, so that no execution ever
  attaches one (`PostsHaveRows`, `NoAttaching`); requests in progress have read a post.
- `ApprovedFirst`: a post that is not approved is untouched. `Moves` says what any step of
  an execution leaves alone (`UndisturbedMoves`, `MissRowStep`): rows nobody works on, and
  work begins only on rows that were handed over, listed from a sweepable post or already
  submitted. None of these an unapproved post has, and no request is past the check that
  only an approved post passes. `OnlyApproved` follows.
- `ClaimsHeld`: exclusion on Instagram, and an owner finds its claim, its success, or no
  row at all (`OwnedRow`). The last disjunct is what replaces `OwnersClaim`: the id of a
  deleted row is not used again, so nobody else can claim it. `PaidFor` is
  `SubmissionsInv` with the same exception: an execution whose row is gone cannot
  give it back for another try.

`RetriesBuyOneAttempt` needs `BasicInv` only, and holds of TikTok rows, which may have
several owners at once: their job may fail, and be retried, under the execution that
sent it. `AttemptsInv` is of no use there, since it rests on exclusion. `AttemptsPaid`
counts instead. The *givers* of a row are the executions that may put it back for another
claim, and the *keen* ones those about to, having read a count below the limit. Claims are
what can be granted: givers, and one more if the row can be claimed now or when time has
passed, are at most one, plus one per crash and per retry. Once the attempts have reached
the limit, attempts, keen executions and that one claim together stay within the limit,
crashes and retries. Below it no bound is needed; the first claim that reaches it is paid
for by the first line (`RowPaid`). `Workers` is finite for this.

`AccountsOnce` is about all the rows that an account has had on a post, for which neither
`DuplicatesPaidFor`, a bound for each row, nor a sum of such bounds will do: the faults
pay for one duplicate each, whichever row has it. `AccountsPaid` therefore says of every
set of Instagram rows that its submissions (`Accepted`, pairs of a row and a number, so
that they can be counted without an induction) are at most the faults and the rows of the
set that are *spent*. A row is spent when its free submission has been made and nobody is
on the way to another: it was deleted under an execution, or its success is recorded, or
the execution that is about to record it is there. `EngineTurn` first reduces the steps of
the executions to nine kinds by what they do to Instagram rows (`Pause`, `Aside`,
`Leaves`, `Proceeds`, `Claims`, `Submits`, `Records`, `Returns`, `Breaks`), and
`RequestTurn` those of the requests to one, rows that go, come and are revived
(`Replaced`). Only `Submits` adds a submission, of a row that was not spent (`OwnRow`),
and either spends it or comes with a fault; only `Breaks` takes back a spent row, with a
fault. `RowsHeld` carries the rest: an account has one row of a post at a time, since
`NewRows` brings rows of different accounts that have none, so that of the spent rows of
an account all but one are `torn`.

### Delivery

`Implements` is the refinement: `InitDelivery` maps initial states, `NextDelivery` every
step to a step of `Delivery` or a stutter. The invariant is `FInv`, `IInv` with one
addition (`FailingJobs`: a reconciliation about to fail a job follows a target that was
sent). `Unseen` lists what the mapping does not see, and the actions that change only
that are stutters (`SilentStep`); each of the others has its lemma (`ClaimStep` is
`Take`, `CallStep` is `Send`, `CommitStep` is `Record`, `ReleaseStep` is `GiveBack`,
`ExitStep` is `Finish`, `ReportStep` is `Report`, `FaultStep` is `Die` and `Forget`).

### Media

Assumed: `LibraryAssumption`, `PipelineAssumption` and `SelectionsAssumption` (finitely
many assets, requests and runs, natural limits, selections of assets). In both modules a request checks first and writes later, and the
invariants count those in between; each is proved on top of the types (`TypedInv`,
`RunsInv`: what a request or a run at a step holds).

- `BytesInv`: of a URL that is not contended, the bytes are in the store for as long as a
  row or a registration has it; only one row, and only one request, has it. A deletion
  erases bytes before its row, so that it must hold that row's URL alone (`DeleteHeld`).
- `LimitInv`: the uploaded rows and the uploads past the check are fewer than the limit
  and the requests together; the one that finds room leaves the rows one below.
- `ImportsInv`: until a Drive file is in the log, each asset of it is about to be logged
  or was cut off; from then on only imports that overlapped the first may make another.
- `GenInv`: posts with media, and runs that have paid and made no post yet, are no more
  than the AI credits taken.
- `SchedInv`: scheduled posts that no run will come back to, and runs past their timeout,
  are no more than the publishing credits and the faults: a run that may be frozen before
  it settles has its fault set aside from the timeout on.
- `PostsInv`: what an asset is charged with is its posts, each run that may still make one
  (`Carries`), each handler that may still fail it (`Answers`), each run that may be frozen
  (`TimesOut`), and one if it can be claimed, now or when it grows stale (`Reopens`). No
  step of a run adds to the charge; faults, timeouts and compositions add to the budget.

### Usage

Assumed: `UsageAssumption` (limits are positive or -1). `CeilingInv` adds to
`CountWithinLimit` that what a request has read is no larger than the ceiling;
`WorkIsCounted` is inductive over the types.

### Billing

Assumed: `BillingAssumption` (prices have a plan, and at most one price per plan is on
offer to begin with) and `NoSubIsNoState`. `BInv` adds to the types: ids of webhooks
are their own and the latest is the last sent (`Numbered`); a price once used has a row,
so that no webhook is mistaken for one without a change of state (`PricesKnown`); a
Stripe handler carries the state of its webhook (`Carried`); and, of every
subscription, `Followed`: the newest webhook is still about and nobody has recorded it, or
the row agrees with the provider and nothing that may still be written says otherwise, or
it is among the `muddled`. `RowFollowsProvider` alone speaks of quiet states only, and
`Followed` is what leads to them through applications in any order.

### Connections

Assumed: `ConnectionsAssumption` and `NoneIsNoRow`. The invariant has: types; a request at a
phase holds what the phase needs (`PlacedInv`); a redirect past its consumption is the
only one of its transaction (`ConsumedInv`); a request that carries a user and a TikTok
account agrees with its identity unless it is contested (`AgreedInv`); and whoever holds
the token TikTok accepts is the row, the one request that will store it, or the account is
mislaid (`TokenInv`). `IdentityIsKept` is an action property that follows step by step.

`AccountsWithinLimit` has an invariant of its own on top (`LimitInv`, with finitely many
accounts and requests): the bound holds not only of the accounts a brand has but of those
it reaches (`Reach`), with the ones that callbacks past their check are to add. A callback
that finds room counts fewer rows than the limit, and each request adds one at the most,
itself included. Every other step leaves the reach as it is or narrows it: an upsert turns an
account that was reached into a row, a reconnect writes to a row that is counted already,
and a disconnection under a callback is what `moved` takes out.

## 5. What is only model-checked, and what is not modelled

Only checked by TLC:

- the liveness properties `DuePostsResolve`, `AssetsSettle` and `WebhooksSettle`:
  liveness under fairness is out of the prover's reach;
- `JobsAreResolved`, `OriginalsRetained` and `PublishingStaysApproved`, which the code
  violates;
- of bare posts, everything in `SettlementProofs`: their rows appear while passes run.

`ClaimExclusion` holds in `Approval` of Instagram targets alone (`InstagramExclusion`): a
TikTok job can fail, and be retried, under the execution that submitted it.

Not modelled, and why:

- registration with a password, activation, reset and sessions (`auth.service.ts`): one
  row per link, decided by unique indexes; the sign-in with TikTok is in `Connections`;
- the AI gateway and its keys: it changes no stored state but cooldowns and statistics,
  and `Generate` has its two outcomes;
- the calendar arithmetic of `scheduling.service.ts`: `PickSlot` has its result and its
  race, and the civil dates are formatting;
- comment replies: a reply per delivery, guarded by a unique id;
- Google Drive's redirect and the refresh of Instagram tokens: the former guards nothing
  modelled here, the latter has no rotation;
- the disconnection of an account also deletes its `PostTarget` rows by cascade, which
  `Publishing` would see as `MissRow`; `Approval` has the same deletion by an edit;
- statistics, health probes, notifications, administration, prompts and captions, image
  and video transformation, and the user interface: nothing the properties are about
  depends on them.

The database is taken to execute each statement atomically and to honour its unique
indexes; platforms, stores and providers are external and modelled by the outcomes the
code distinguishes; a crash kills between statements, never within one.

## 6. Plan

Done: `Publishing`, `Approval`, `Delivery` and the refinement, `MediaLibrary`,
`MediaPipeline`, `Usage`, `Billing`, `Connections`, and the proofs of section 4. Every
safety property of a passing run is a theorem. Next, in this order:

1. That `Approval` keeps what `SettlementProofs` shows of Instagram rows: `SuccessIsFinal`
   and `FailureIsFinal` up to retries and edits.
2. Disconnection in `Publishing`: the cascade over targets, with `MissRow` moved there.
3. `Registration` (a link used twice) and `KeyManager` (keys cooling down) as small
   modules; the slot search of `Scheduling` against a reference definition.
