------------------------------ MODULE MediaPipeline ------------------------------
(***************************************************************************)
(* From an uploaded asset to a post: processMediaAsset, composeManualPost  *)
(* and the timeout around the pipeline, of apps/api/src/engine/            *)
(* engine.service.ts, and createPost of posts.service.ts, over the rows of *)
(* module MediaLibrary.                                                    *)
(*                                                                         *)
(* A "run" is one execution: the browser's POST .../process, a sweep of    *)
(* the library page, a cron pass, a Drive import, or a compose or create   *)
(* request.  Each statement of it is a step, so runs interleave with one   *)
(* another and with deletions.  withPipelineTimeout answers after 50 s,    *)
(* but nothing stops the promise it raced: the run goes on beside the      *)
(* handler that has already failed its asset.                              *)
(***************************************************************************)
EXTENDS MediaLibrary

CONSTANTS
    Runs,           \* executions that may be in progress at once
    Selections,     \* sets of assets a user picks for a post
    Slots,          \* instants of the publishing calendar
    MaxCarousel,    \* media items of a post
    MaxSlotRetries, \* MAX_SLOT_RETRIES
    AiLimit,        \* maxMonthlyAiGenerations of the plan
    PostLimit,      \* maxMonthlyPosts of the plan
    MaxFaults,      \* bound: runs that are killed, outlast PIPELINE_TIMEOUT_MS, or
                    \* have a statement throw
    MaxRuns         \* bound: runs a user starts

ASSUME PipelineAssumption ==
    /\ IsFiniteSet(Runs) /\ 0 \notin Slots
    /\ MaxCarousel \in Nat \ {0} /\ MaxSlotRetries \in Nat \ {0}
    /\ AiLimit \in Nat \ {0} /\ PostLimit \in Nat \ {0}
    /\ MaxFaults \in Nat /\ MaxRuns \in Nat

ASSUME SelectionsAssumption == Selections \subseteq SUBSET Assets

VARIABLES
    run,        \* the progress of each run
    ai,         \* UsageRecord.count of AI_GENERATION this month
    used,       \* posts that were given a credit (POST_PUBLISHED)
    quota,      \* how many the plan had left of them to begin with
    composed,   \* how often composeManualPost has taken each asset
    timeouts,   \* pipelines that were given up so far
    started     \* runs a user has started

pipelineVars == <<run, ai, used, quota, composed, timeouts, started>>
mediaVars    == <<libraryVars, pipelineVars>>
\* What no step of a run touches.
restVars     == <<url, from, storeVars, req, contended, ops, quota>>

\* RESOLVED is PUBLISHED or FAILED; SCHEDULED is also PUBLISHING.
PostStatus == {"DRAFT", "NEEDS_APPROVAL", "SCHEDULED", "RESOLVED", "REJECTED"}
RunSteps == {"idle", "claim", "reserve", "refused", "mark", "generate", "release",
             "slot", "create", "credit", "downgrade", "link", "fail", "late"}

\* The three kinds: processMediaAsset, composeManualPost and createPost.
Run == [kind : {"none", "auto", "compose", "draft"}, pc : RunSteps,
        media : SUBSET Assets, auto : BOOLEAN, slot : Slots \cup {0},
        tries : 1..MaxSlotRetries, post : Nat,
        timer : {"none", "armed", "fired", "written"}]
NoRun == [kind |-> "none", pc |-> "idle", media |-> {}, auto |-> FALSE, slot |-> 0,
          tries |-> 1, post |-> 0, timer |-> "none"]
Post == [status : PostStatus, slot : Slots \cup {0}, media : SUBSET Assets,
         by : {"auto", "compose", "draft"}]

\* A linkedPostId names a row of the Post table, and so does the post of a run
\* that has created one.
PipelineTypeOK ==
    /\ LibraryTypeOK
    /\ posts \in Seq(Post)
    /\ \A a \in Assets : link[a] \in 0..Len(posts)
    /\ run \in [Runs -> Run]
    /\ \A r \in Runs : run[r].post \in 0..Len(posts)
    /\ ai \in Nat /\ quota \in 0..PostLimit /\ used \in 0..quota
    /\ timeouts \in Nat /\ started \in Nat
    /\ composed \in [Assets -> Nat]

\* Every asset has been uploaded, and none processed.
PipelineInit ==
    /\ mstatus = [a \in Assets |-> "PENDING"]
    /\ \E f \in [Assets -> Urls \ BadUrls] :
          /\ \A a, b \in Assets : f[a] = f[b] => a = b
          /\ url = f
    /\ link = [a \in Assets |-> 0]
    /\ stale = [a \in Assets |-> FALSE]
    /\ from = [a \in Assets |-> NoFile]
    /\ posts = <<>>
    /\ blobs = {url[a] : a \in Assets} /\ issued = blobs
    /\ offered = issued /\ synced = {}
    /\ req = [u \in Requests |-> NoRequest]
    /\ contended = {}
    /\ ops = 0 /\ crashes = 0 /\ dbFailures = 0
    /\ run = [r \in Runs |-> NoRun]
    /\ ai = 0 /\ used = 0 /\ quota \in 0..PostLimit /\ timeouts = 0 /\ started = 0
    /\ composed = [a \in Assets |-> 0]

OnRun(r, l) == run[r].pc = l
Go(r, l)    == run' = [run EXCEPT ![r].pc = l]
\* A run whose handler still has to record the timeout waits for that.
End(r) == run' = [run EXCEPT ![r] =
             IF @.timer = "fired" THEN [@ EXCEPT !.pc = "late"] ELSE NoRun]

\* update and updateMany of the assets S that still exist.
Mark(S, s) ==
    /\ mstatus' = [a \in Assets |-> IF a \in S \cap Rows THEN s ELSE mstatus[a]]
    /\ stale' = [a \in Assets |-> stale[a] /\ a \notin S]

TheAsset(r) == CHOOSE a \in run[r].media : TRUE

-----------------------------------------------------------------------------
(* The claim of processMediaAsset.                                         *)

\* A recovery pass looks for these; the browser's request takes any asset.
Recoverable(a) == mstatus[a] = "PENDING" \/ (mstatus[a] = "PROCESSING" /\ stale[a])

Launch(r, k, S, l, timer) ==
    /\ run[r].pc = "idle"
    /\ run' = [run EXCEPT ![r] = [NoRun EXCEPT !.kind = k, !.media = S, !.pc = l,
                                              !.timer = timer]]
    /\ UNCHANGED <<rowVars, posts, restVars, storeVars, faultVars, ai, used, timeouts>>

\* sweepStaleProcessing, processPendingMedia, and a Drive import's own call.
Recover(r, a) ==
    /\ Recoverable(a)
    /\ Launch(r, "auto", {a}, "claim", "armed")
    /\ UNCHANGED <<composed, started>>

\* triggerProcessing, which the browser repeats on request.
Process(r, a) ==
    /\ Present(a)
    /\ started < MaxRuns /\ started' = started + 1
    /\ Launch(r, "auto", {a}, "claim", "armed")
    /\ UNCHANGED composed

\* Mutant: the claim of a failed asset has lost its "linkedPostId: null".
ClaimLinked(r) ==
    /\ OnRun(r, "claim")
    /\ LET a == TheAsset(r) IN
          \/ /\ Recoverable(a) \/ mstatus[a] = "FAILED"
             /\ Mark({a}, "PROCESSING") /\ Go(r, "reserve")
          \/ /\ ~Recoverable(a) /\ mstatus[a] # "FAILED"
             /\ End(r) /\ UNCHANGED <<mstatus, stale>>
    /\ UNCHANGED <<link, posts, restVars, faultVars, ai, used, composed, timeouts, started>>

\* Mutant: an asset that is being processed cannot be claimed again.
ClaimPending(r) ==
    /\ OnRun(r, "claim")
    /\ LET a == TheAsset(r) IN
          \/ mstatus[a] = "PENDING" /\ Mark({a}, "PROCESSING") /\ Go(r, "reserve")
          \/ mstatus[a] # "PENDING" /\ End(r) /\ UNCHANGED <<mstatus, stale>>
    /\ UNCHANGED <<link, posts, restVars, faultVars, ai, used, composed, timeouts, started>>

\* The compare-and-swap on the asset: one UPDATE decides the winner.
ClaimAsset(r) ==
    /\ OnRun(r, "claim")
    /\ LET a == TheAsset(r)
           open == Recoverable(a) \/ (mstatus[a] = "FAILED" /\ link[a] = 0)
       IN  \/ open /\ Mark({a}, "PROCESSING") /\ Go(r, "reserve")
           \/ ~open /\ End(r) /\ UNCHANGED <<mstatus, stale>>
    /\ UNCHANGED <<link, posts, restVars, faultVars, ai, used, composed, timeouts, started>>

-----------------------------------------------------------------------------
(* composeManualPost and createPost, up to the point where they join.      *)

Compose(r, S) ==
    /\ S \subseteq Rows /\ S # {} /\ Cardinality(S) <= MaxCarousel
    /\ \A a \in S : link[a] = 0
    /\ started < MaxRuns /\ started' = started + 1
    /\ Launch(r, "compose", S, "reserve", "none")
    /\ composed' = [a \in Assets |-> composed[a] + (IF a \in S THEN 1 ELSE 0)]

\* createPost checks that the media is the brand's, and nothing more.
Draft(r, S) ==
    /\ S \subseteq Rows /\ Cardinality(S) <= MaxCarousel
    /\ started < MaxRuns /\ started' = started + 1
    /\ Launch(r, "draft", S, "slot", "none")
    /\ UNCHANGED composed

\* reserveAiGeneration: check and increment in one statement.  Refused, a
\* compose request ends and a pipeline fails its asset.
ReserveAi(r) ==
    /\ OnRun(r, "reserve")
    /\ \/ /\ ai < AiLimit
          /\ ai' = ai + 1
          /\ Go(r, IF run[r].kind = "compose" THEN "mark" ELSE "generate")
       \/ /\ ai >= AiLimit
          /\ IF run[r].kind = "compose" THEN End(r) ELSE Go(r, "refused")
          /\ UNCHANGED ai
    /\ UNCHANGED <<mstatus, link, stale, posts, restVars, faultVars, used, composed,
                   timeouts, started>>

Refuse(r) ==
    /\ OnRun(r, "refused")
    /\ Mark(run[r].media, "FAILED")
    /\ End(r)
    /\ UNCHANGED <<link, posts, restVars, faultVars, ai, used, composed, timeouts, started>>

MarkComposed(r) ==
    /\ OnRun(r, "mark")
    /\ Mark(run[r].media, "PROCESSING")
    /\ Go(r, "generate")
    /\ UNCHANGED <<link, posts, restVars, faultVars, ai, used, composed, timeouts, started>>

-----------------------------------------------------------------------------
(* Generation, the calendar and the post.                                  *)

\* Vision, caption and hashtags; and then, for a pipeline, the approval mode:
\* active, automatic, on a plan with AutoPilot, and accepted by the brain.
Generate(r) ==
    /\ OnRun(r, "generate")
    /\ \/ \E auto \in {FALSE, run[r].kind = "auto"} :
             run' = [run EXCEPT ![r].pc = "slot", ![r].auto = auto]
       \/ Go(r, "release")
    /\ UNCHANGED <<mstatus, link, stale, posts, restVars, faultVars, ai, used, composed,
                   timeouts, started>>

\* decrement has a floor at zero.
ReleaseAi(r) ==
    /\ OnRun(r, "release")
    /\ ai' = IF ai > 0 THEN ai - 1 ELSE 0
    /\ Go(r, "fail")
    /\ UNCHANGED <<mstatus, link, stale, posts, restVars, faultVars, used, composed,
                   timeouts, started>>

PostsIn(S) == {p \in DOMAIN posts : posts[p].status \in S}

\* isSlotTaken counts every post that is not rejected.
FreeSlots == Slots \ {posts[p].slot : p \in PostsIn(PostStatus \ {"REJECTED"})}

\* assignNextSlot reads the calendar; with no slot left it takes an instant
\* an hour away, which may be taken.  A draft has any instant, or none.
PickSlot(r) ==
    /\ OnRun(r, "slot")
    /\ \E s \in (IF run[r].kind = "draft" THEN Slots \cup {0}
                 ELSE IF FreeSlots # {} THEN FreeSlots ELSE Slots) :
          run' = [run EXCEPT ![r].pc = "create", ![r].slot = s]
    /\ UNCHANGED <<mstatus, link, stale, posts, restVars, faultVars, ai, used, composed,
                   timeouts, started>>

\* uq_post_brand_scheduled_at_active: unresolved posts have instants of their own.
Collides(s) ==
    s # 0 /\ \E p \in PostsIn({"DRAFT", "NEEDS_APPROVAL", "SCHEDULED"}) : posts[p].slot = s

StatusOf(r) == CASE run[r].kind = "draft" -> {"DRAFT", "NEEDS_APPROVAL"}
                 [] run[r].auto           -> {"SCHEDULED"}
                 [] OTHER                 -> {"NEEDS_APPROVAL"}

\* post.create with its media rows.  A taken instant is tried again with a
\* fresh one; a deleted asset, or one attempt too many, throws.
CreatePost(r) ==
    /\ OnRun(r, "create")
    /\ LET me   == run[r]
           gone == me.kind # "draft" /\ ~ me.media \subseteq Rows
           full == Collides(me.slot)
       IN  \/ /\ ~gone /\ ~full
              /\ \E s \in StatusOf(r) :
                    posts' = Append(posts,
                        [status |-> s, slot |-> me.slot, by |-> me.kind,
                         media |-> IF me.kind = "draft" THEN {} ELSE me.media])
              /\ run' = [run EXCEPT ![r].post = Len(posts) + 1,
                                    ![r].pc = IF me.auto THEN "credit" ELSE "link"]
           \/ /\ full /\ ~gone /\ me.kind # "draft" /\ me.tries < MaxSlotRetries
              /\ run' = [run EXCEPT ![r].pc = "slot", ![r].tries = @ + 1]
              /\ UNCHANGED posts
           \/ /\ gone \/ (full /\ (me.kind = "draft" \/ me.tries = MaxSlotRetries))
              /\ Go(r, "fail")
              /\ UNCHANGED posts
    /\ UNCHANGED <<mstatus, link, stale, restVars, faultVars, ai, used, composed,
                   timeouts, started>>

\* AutoPilot: the credit of a post that is SCHEDULED already.
ReserveCredit(r) ==
    /\ OnRun(r, "credit")
    /\ \/ used < quota /\ used' = used + 1 /\ Go(r, "link")
       \/ used = quota /\ Go(r, "downgrade") /\ UNCHANGED used
    /\ UNCHANGED <<mstatus, link, stale, posts, restVars, faultVars, ai, composed,
                   timeouts, started>>

\* Mutant: without a credit the post goes to the queue in name only.
KeepScheduled(r) ==
    /\ OnRun(r, "downgrade")
    /\ run' = [run EXCEPT ![r].pc = "link", ![r].auto = FALSE]
    /\ UNCHANGED <<mstatus, link, stale, posts, restVars, faultVars, ai, used, composed,
                   timeouts, started>>

Downgrade(r) ==
    /\ OnRun(r, "downgrade")
    /\ posts' = [posts EXCEPT ![run[r].post].status = "NEEDS_APPROVAL"]
    /\ run' = [run EXCEPT ![r].pc = "link", ![r].auto = FALSE]
    /\ UNCHANGED <<mstatus, link, stale, restVars, faultVars, ai, used, composed,
                   timeouts, started>>

\* Mutant: the assets take the status of their post.
LinkWithPostStatus(r) ==
    /\ OnRun(r, "link")
    /\ Mark(run[r].media, posts[run[r].post].status)
    /\ link' = [a \in Assets |-> IF a \in run[r].media \cap Rows THEN run[r].post
                                                              ELSE link[a]]
    /\ End(r)
    /\ UNCHANGED <<posts, restVars, faultVars, ai, used, composed, timeouts, started>>

\* The assets are linked to the post, whatever their rows hold by now.
Link(r) ==
    /\ OnRun(r, "link")
    /\ LET me == run[r] IN
          \/ /\ me.kind # "auto" \/ me.media \subseteq Rows
             /\ Mark(me.media, IF me.auto \/ me.kind = "draft" THEN "SCHEDULED"
                                                              ELSE "READY")
             /\ link' = [a \in Assets |-> IF a \in me.media \cap Rows THEN me.post
                                                                     ELSE link[a]]
             /\ End(r)
          \/ /\ me.kind = "auto" /\ ~ me.media \subseteq Rows
             /\ Go(r, "fail")
             /\ UNCHANGED <<mstatus, stale, link>>
    /\ UNCHANGED <<posts, restVars, faultVars, ai, used, composed, timeouts, started>>

\* Mutant: the handler refunds every failure, the released ones again.
FailAndRefund(r) ==
    /\ OnRun(r, "fail")
    /\ Mark(run[r].media, "FAILED")
    /\ ai' = IF ai > 0 THEN ai - 1 ELSE 0
    /\ End(r)
    /\ UNCHANGED <<link, posts, restVars, faultVars, used, composed, timeouts, started>>

\* The end of a run that threw.  A compose request without a caption fails its
\* assets, one without a slot makes them READY; a pipeline's rejection reaches
\* the handler only if the timer has not settled the promise before.
FailRun(r) ==
    /\ OnRun(r, "fail")
    /\ LET me == run[r] IN
          CASE me.kind = "draft"   -> UNCHANGED <<mstatus, stale>>
            [] me.kind = "compose" ->
                  Mark(me.media, IF me.slot = 0 THEN "FAILED" ELSE "READY")
            [] me.timer = "armed"  -> Mark(me.media, "FAILED")
            [] OTHER               -> UNCHANGED <<mstatus, stale>>
    /\ End(r)
    /\ UNCHANGED <<link, posts, restVars, faultVars, ai, used, composed, timeouts, started>>

-----------------------------------------------------------------------------
(* Time, faults, and what else happens to the rows.                        *)

PipelineFaults == crashes + dbFailures + timeouts

\* withPipelineTimeout rejects; the run goes on.
TimerFires(r) ==
    /\ PipelineFaults < MaxFaults
    /\ run[r].timer = "armed"
    /\ timeouts' = timeouts + 1
    /\ run' = [run EXCEPT ![r].timer = "fired"]
    /\ UNCHANGED <<rowVars, posts, restVars, faultVars, ai, used, composed, started>>

\* handleMediaUploaded answers the timeout: its asset is FAILED.
HandlerFails(r) ==
    /\ run[r].timer = "fired"
    /\ Mark(run[r].media, "FAILED")
    /\ run' = [run EXCEPT ![r] = IF @.pc = "late" THEN NoRun
                                 ELSE [@ EXCEPT !.timer = "written"]]
    /\ UNCHANGED <<link, posts, restVars, faultVars, ai, used, composed, timeouts, started>>

\* Once the handler has replied, its function is frozen at any time.
Freeze(r) ==
    /\ run[r].timer = "written"
    /\ run' = [run EXCEPT ![r] = NoRun]
    /\ UNCHANGED <<rowVars, posts, restVars, faultVars, ai, used, composed, timeouts, started>>

CrashRun(r) ==
    /\ PipelineFaults < MaxFaults
    /\ run[r].pc # "idle"
    /\ crashes' = crashes + 1
    /\ run' = [run EXCEPT ![r] = NoRun]
    /\ UNCHANGED <<rowVars, posts, restVars, dbFailures, ai, used, composed, timeouts, started>>

\* A statement throws after generation: into the catch around the credit, to
\* the caller of a compose request (which cleans up after post.create alone),
\* or to the handler.
StatementFails(r) ==
    /\ PipelineFaults < MaxFaults
    /\ dbFailures' = dbFailures + 1
    /\ \/ OnRun(r, "credit") /\ Go(r, "downgrade")
       \/ run[r].kind = "compose" /\ run[r].pc \in {"slot", "link"} /\ End(r)
       \/ /\ \/ run[r].pc \in {"create", "downgrade"}
             \/ run[r].pc \in {"slot", "link"} /\ run[r].kind # "compose"
          /\ Go(r, "fail")
    /\ UNCHANGED <<rowVars, posts, restVars, crashes, ai, used, composed, timeouts, started>>

\* Two minutes without an update: longer than a function can run.
Age(a) ==
    /\ mstatus[a] = "PROCESSING" /\ ~stale[a]
    /\ \A r \in Runs : a \in run[r].media => run[r].pc = "claim"
    /\ stale' = [stale EXCEPT ![a] = TRUE]
    /\ UNCHANGED <<mstatus, url, link, from, posts, storeVars, req, contended, ops,
                   faultVars, pipelineVars>>

\* The publishing engine resolves a scheduled post.
ResolvePost(p) ==
    /\ posts[p].status = "SCHEDULED"
    /\ posts' = [posts EXCEPT ![p].status = "RESOLVED"]
    /\ UNCHANGED <<rowVars, storeVars, req, contended, ops, faultVars, pipelineVars>>

\* rejectPost fails the assets that are linked to the post.
RejectPost(p) ==
    /\ posts[p].status \in {"NEEDS_APPROVAL", "SCHEDULED"}
    /\ posts' = [posts EXCEPT ![p].status = "REJECTED"]
    /\ Mark({a \in Assets : link[a] = p}, "FAILED")
    /\ UNCHANGED <<url, link, from, storeVars, req, contended, ops, faultVars, pipelineVars>>

Step(r) ==
    \/ ClaimAsset(r) \/ ReserveAi(r) \/ Refuse(r) \/ MarkComposed(r)
    \/ Generate(r) \/ ReleaseAi(r) \/ PickSlot(r) \/ CreatePost(r)
    \/ ReserveCredit(r) \/ Downgrade(r) \/ Link(r) \/ FailRun(r) \/ HandlerFails(r)

PipelineNext ==
    \/ LibraryNext /\ UNCHANGED pipelineVars
    \/ \E r \in Runs :
          \/ \E a \in Assets : Recover(r, a) \/ Process(r, a)
          \/ \E S \in Selections : Compose(r, S) \/ Draft(r, S)
          \/ Step(r)
          \/ TimerFires(r) \/ Freeze(r) \/ CrashRun(r) \/ StatementFails(r)
    \/ \E a \in Assets : Age(a)
    \/ \E p \in DOMAIN posts : ResolvePost(p) \/ RejectPost(p)

PipelineSpec == PipelineInit /\ [][PipelineNext]_mediaVars

\* The cron pass keeps coming, and while functions run, one of them takes a step
\* or is frozen.
PipelineFairness ==
    /\ \A a \in Assets :
          WF_mediaVars(Age(a)) /\ SF_mediaVars(\E r \in Runs : Recover(r, a))
    /\ WF_mediaVars(\E r \in Runs : Step(r) \/ Freeze(r))

FairPipelineSpec == PipelineSpec /\ PipelineFairness

-----------------------------------------------------------------------------
(* Properties.                                                             *)

PostsOf(a) == {p \in DOMAIN posts : a \in posts[p].media}

\* The claim on an asset is there "to avoid duplicate processing": however the
\* browser, the sweeps, the cron pass and imports overlap, an asset enters one
\* post, and one more for each killed or failed run and for each time the user
\* composed it, and two more for each run that timed out: its handler reopens
\* the asset, and the run may claim it once more before it is frozen.
PostsPerAsset ==
    \A a \in Assets :
        Cardinality(PostsOf(a)) <= 1 + PipelineFaults + timeouts + composed[a]

\* Every post with media was paid for with an AI credit, and no failure, late
\* rejection or refund ever gives that credit back.
GenerationsArePaid ==
    /\ Cardinality({p \in DOMAIN posts : posts[p].media # {}}) <= ai
    /\ ai <= AiLimit

\* AutoPilot schedules first and reserves afterwards: a post that stays
\* SCHEDULED has a credit, unless its run was cut off in between.
ScheduledPostsArePaid ==
    Cardinality(PostsIn({"SCHEDULED", "RESOLVED"}))
        <= used + PipelineFaults
             + Cardinality({r \in Runs : run[r].pc \in {"credit", "downgrade"}})

\* A recovery worker for dead runs: no asset stays PENDING or PROCESSING for
\* good, although its run was killed or its browser never asked for one.
AssetsSettle ==
    \A a \in Assets : mstatus[a] \in {"PENDING", "PROCESSING"}
                        ~> mstatus[a] \notin {"PENDING", "PROCESSING"}
=============================================================================
