------------------------------ MODULE Publishing ------------------------------
(***************************************************************************)
(* The publishing engine of apps/api/src/queue/publishing.service.ts, with *)
(* the TikTok reconciliation of apps/api/src/metrics/metrics.service.ts.   *)
(*                                                                         *)
(* There is no queue and no worker process: every serverless invocation    *)
(* (a cron pass, a dashboard load, a "publish now" request, a metrics run) *)
(* executes publishOne or a reconciliation against the shared database.    *)
(* A "worker" is one such execution.  Every database statement and every   *)
(* platform call is a step of its own, so that any two executions          *)
(* interleave between any two statements, and the function that runs one   *)
(* can be killed between them.                                             *)
(***************************************************************************)
EXTENDS Naturals, Sequences, FiniteSets

CONSTANTS
    Posts,          \* posts of the database
    Targets,        \* PostTarget rows: one (post, social account) pair each
    PostOf,         \* the post each target belongs to
    Assets,         \* MediaAsset rows
    MediaOf,        \* the assets of each post, its PostMedia rows; posts may share one
    TikTok,         \* the targets whose platform is TIKTOK; the rest are INSTAGRAM
    Workers,        \* executions that may be in progress at once
    BarePosts,      \* the posts scheduled while no account was connected
    NoTarget,       \* the target of a worker that runs nothing
    MaxAttempts,    \* MAX_PUBLISH_ATTEMPTS
    BatchLimit,     \* the "take: 50" of publishDuePosts
    DirectPost,     \* isTikTokDirectPostEnabled()
    MaxCrashes,     \* bound: functions killed between two steps
    MaxDbFailures,  \* bound: statements that throw after the platform call
    MaxLostAcks     \* bound: platform calls that succeed but answer an error

ASSUME TargetsAssumption ==
    /\ PostOf \in [Targets -> Posts]
    /\ IsFiniteSet(Targets)
    /\ TikTok \subseteq Targets
    /\ BarePosts \subseteq Posts
    /\ NoTarget \notin Targets
    /\ MediaOf \in [Posts -> SUBSET Assets]

ASSUME LimitsAssumption ==
    /\ MaxAttempts \in Nat \ {0}
    /\ BatchLimit \in Nat \ {0}
    /\ DirectPost \in BOOLEAN
    /\ MaxCrashes \in Nat
    /\ MaxDbFailures \in Nat
    /\ MaxLostAcks \in Nat

VARIABLES
    \* The Post table.
    post,       \* Post.status
    publishedAt, \* publishedAt is set
    due,        \* scheduledAt <= now
    old,        \* updatedAt is more than five minutes ago
    \* The MediaAsset table.
    blob,       \* MediaAsset.blobUrl is set: the original is still there
    \* The PostTarget table.
    status,     \* PostTarget.status, ABSENT while there is no such row
    claimedAt,  \* PostTarget.claimedAt: none, fresh, or older than STALE_CLAIM_MS
    attempts,   \* PostTarget.attemptCount
    provider,   \* PostTarget.providerPostId: which submission it names, 0 for NULL
    public,     \* providerPostId is the numeric public id, not a publish job id
    \* The platforms.
    subs,       \* what each platform accepted for a target, in order
    \* The executions.
    handed,     \* target ids a caller has listed and publishOne has not started
    pc,         \* the step each worker is at
    target,     \* the target it works on
    path,       \* the code it is in: the try block of publishOne, its catch
                \* block, a reconciliation, or the pass that attaches targets
    media,      \* the assets had their blobUrl in the rows publishOne read
    sub,        \* the submission its answer or its snapshot is about
    count,      \* the last COUNT or attemptCount a query returned to it
    late,       \* lastAttemptAt of its snapshot is over 24 hours ago
    \* Faults so far.
    crashes, dbFailures, lostAcks

postVars   == <<post, publishedAt, due, old, blob>>
targetVars == <<status, claimedAt, attempts, provider, public>>
runVars    == <<pc, target, path, media, sub, count, late>>
faultVars  == <<crashes, dbFailures, lostAcks>>
\* Everything but the progress of the executions.
worldVars  == <<postVars, targetVars, subs, handed, faultVars>>
vars == <<post, publishedAt, due, old, blob, status, claimedAt, attempts, provider,
          public, subs, handed, pc, target, path, media, sub, count, late,
          crashes, dbFailures, lostAcks>>

PostStatus   == {"NEEDS_APPROVAL", "SCHEDULED", "PUBLISHING", "PUBLISHED",
                 "FAILED", "REJECTED"}
TargetStatus == {"ABSENT", "PENDING", "PUBLISHING", "PUBLISHED", "FAILED"}
ClaimAge     == {"none", "fresh", "stale"}
SubState     == {"processing", "live", "failed"}

\* The steps of publishOne between its claim and the platform's answer ...
PreCommit  == {"claimed", "marked", "call", "recall", "commit"}
\* ... of its catch block up to the release of the claim, and after it ...
Catching   == {"catch", "release"}
Released   == {"giveup", "bounce", "revert"}
\* ... of finalizeIfComplete, with the event that precedes it ...
Finalizing == {"notify", "count", "tally", "settle", "clean", "purge"}
\* ... and of a reconciliation and of attachTargetsForConnectedAccounts.
Reconciling == {"poll", "confirm", "confirmWrite", "fail", "failWrite"}
Attaching   == {"attach", "bare"}
Steps == {"idle", "read"} \cup PreCommit \cup Catching \cup Released
            \cup Finalizing \cup Reconciling \cup Attaching

Paths == {"none", "try", "catch", "reconcile", "attach"}

\* The columns of the rows, and the progress of the executions.  A target never
\* holds a PostStatus nor a post a TargetStatus, and claimedAt and the provider
\* id are those of the row publishOne works on.
TypeOK ==
    /\ post \in [Posts -> PostStatus]
    /\ publishedAt \in [Posts -> BOOLEAN]
    /\ due \in [Posts -> BOOLEAN]
    /\ old \in [Posts -> BOOLEAN]
    /\ blob \in [Assets -> BOOLEAN]
    /\ status \in [Targets -> TargetStatus]
    /\ claimedAt \in [Targets -> ClaimAge]
    /\ attempts \in [Targets -> Nat]
    /\ provider \in [Targets -> Nat]
    /\ public \in [Targets -> BOOLEAN]
    /\ subs \in [Targets -> Seq(SubState)]
    /\ handed \in SUBSET Targets
    /\ pc \in [Workers -> Steps]
    /\ target \in [Workers -> Targets \cup {NoTarget}]
    /\ path \in [Workers -> Paths]
    /\ media \in [Workers -> BOOLEAN]
    /\ sub \in [Workers -> Nat]
    /\ count \in [Workers -> Nat]
    /\ late \in [Workers -> BOOLEAN]
    /\ crashes \in Nat
    /\ dbFailures \in Nat
    /\ lostAcks \in Nat

TargetsOf(p) == {t \in Targets : PostOf[t] = p}
Rows(p)      == {t \in TargetsOf(p) : status[t] # "ABSENT"}

\* What "where: { postId, status: { in: S } }" counts.
CountIn(p, S) == Cardinality({t \in TargetsOf(p) : status[t] \in S})

PostAt(w) == PostOf[target[w]]
At(w, l)  == pc[w] = l

Goto(w, l) ==
    /\ pc' = [pc EXCEPT ![w] = l]
    /\ UNCHANGED <<target, path, media, sub, count, late>>

Begin(w, l, t, code) ==
    /\ pc' = [pc EXCEPT ![w] = l]
    /\ target' = [target EXCEPT ![w] = t]
    /\ path' = [path EXCEPT ![w] = code]

Exit(w) ==
    /\ Begin(w, "idle", NoTarget, "none")
    /\ media' = [media EXCEPT ![w] = FALSE]
    /\ sub' = [sub EXCEPT ![w] = 0]
    /\ count' = [count EXCEPT ![w] = 0]
    /\ late' = [late EXCEPT ![w] = FALSE]

\* The worker holds the claim it took, or has not yet left the code that does.
Owns(w) == /\ path[w] = "try"
           /\ pc[w] \in PreCommit \cup Catching \cup Finalizing

\* @updatedAt: every update of a Post row makes it recent again.
SetPost(p, s) == /\ post' = [post EXCEPT ![p] = s]
                 /\ old' = [old EXCEPT ![p] = FALSE]

\* Posts with the given statuses and the target rows in R, before any execution
\* has touched them.
InitialPosts(statuses, R) ==
    /\ post = statuses
    /\ publishedAt = [p \in Posts |-> FALSE]
    /\ due = [p \in Posts |-> FALSE]
    /\ old = [p \in Posts |-> FALSE]
    /\ blob = [a \in Assets |-> TRUE]
    /\ status = [t \in Targets |-> IF t \in R THEN "PENDING" ELSE "ABSENT"]
    /\ claimedAt = [t \in Targets |-> "none"]
    /\ attempts = [t \in Targets |-> 0]
    /\ provider = [t \in Targets |-> 0]
    /\ public = [t \in Targets |-> FALSE]
    /\ subs = [t \in Targets |-> <<>>]
    /\ handed = {}
    /\ pc = [w \in Workers |-> "idle"]
    /\ target = [w \in Workers |-> NoTarget]
    /\ path = [w \in Workers |-> "none"]
    /\ media = [w \in Workers |-> FALSE]
    /\ sub = [w \in Workers |-> 0]
    /\ count = [w \in Workers |-> 0]
    /\ late = [w \in Workers |-> FALSE]
    /\ crashes = 0
    /\ dbFailures = 0
    /\ lostAcks = 0

Init == InitialPosts([p \in Posts |-> "SCHEDULED"],
                     {t \in Targets : PostOf[t] \notin BarePosts})

-----------------------------------------------------------------------------
(* The clock.  A function is killed after 60 s (maxDuration of the API     *)
(* route), so a claim is ten minutes old, or a post five minutes without   *)
(* an update, only when no execution that set it is still running.         *)

BecomeDue(p) ==
    /\ ~due[p]
    /\ due' = [due EXCEPT ![p] = TRUE]
    /\ UNCHANGED <<post, publishedAt, old, blob, targetVars, subs, handed,
                   runVars, faultVars>>

\* The execution has updated its post, less than 60 s ago.
HasMarked(w) == path[w] \in {"try", "catch"} /\ pc[w] \notin {"read", "claimed"}

AgePost(p) ==
    /\ post[p] = "PUBLISHING" /\ ~old[p]
    /\ \A w \in Workers : ~(HasMarked(w) /\ target[w] \in TargetsOf(p))
    /\ old' = [old EXCEPT ![p] = TRUE]
    /\ UNCHANGED <<post, publishedAt, due, blob, targetVars, subs, handed,
                   runVars, faultVars>>

\* Mutant: STALE_CLAIM_MS shorter than a function may run.
ExpireRunningClaim(t) ==
    /\ claimedAt[t] = "fresh"
    /\ claimedAt' = [claimedAt EXCEPT ![t] = "stale"]
    /\ UNCHANGED <<postVars, status, attempts, provider, public, subs, handed,
                   runVars, faultVars>>

ExpireClaim(t) ==
    /\ claimedAt[t] = "fresh"
    /\ \A w \in Workers : ~(Owns(w) /\ target[w] = t)
    /\ claimedAt' = [claimedAt EXCEPT ![t] = "stale"]
    /\ UNCHANGED <<postVars, status, attempts, provider, public, subs, handed,
                   runVars, faultVars>>

-----------------------------------------------------------------------------
(* publishDuePosts: list the claimable targets of a batch of due posts.    *)

\* Mutant: the pass looks at scheduled posts only.
SweepScheduledOnly(p) == post[p] = "SCHEDULED" /\ due[p]

\* Mutant: the query has lost its condition on the status.
SweepAnyDue(p) == due[p] /\ post[p] \notin {"PUBLISHED", "FAILED"}

Sweepable(p) == \/ post[p] = "SCHEDULED" /\ due[p]
                \/ post[p] = "PUBLISHING" /\ old[p]

StaleClaim(t) == status[t] = "PUBLISHING" /\ claimedAt[t] = "stale"
Claimable(t)  == status[t] = "PENDING" \/ StaleClaim(t)

\* A findMany without orderBy returns any "take" of the rows that match.
Batches ==
    LET found == {p \in Posts : Sweepable(p)}
    IN  {b \in SUBSET found :
            \/ b = found /\ Cardinality(found) <= BatchLimit
            \/ Cardinality(b) = BatchLimit}

Sweep ==
    \E b \in Batches :
        LET listed == {t \in Targets : PostOf[t] \in b /\ Claimable(t)}
        IN  /\ ~ listed \subseteq handed
            /\ handed' = handed \cup listed
            /\ UNCHANGED <<postVars, targetVars, subs, runVars, faultVars>>

\* The pass reached its deadline, or its function was killed, with targets
\* left that no publishOne has started on.
DropHanded ==
    /\ handed # {}
    /\ handed' = {}
    /\ UNCHANGED <<postVars, targetVars, subs, runVars, faultVars>>

\* attachTargetsForConnectedAccounts, for a due post that has no target row.
\* The worker stands at some target of the post; only PostAt(w) matters.
FindBare(w) ==
    /\ At(w, "idle")
    /\ \E t \in Targets :
          /\ Sweepable(PostOf[t])
          /\ Rows(PostOf[t]) = {}
          /\ Begin(w, "attach", t, "attach")
    /\ UNCHANGED <<media, sub, count, late, worldVars>>

\* One row per connected account; the unique index on (post, account) makes a
\* create that meets an existing row throw, which ends the pass.
Attach(w) ==
    /\ At(w, "attach")
    /\ \E connected \in SUBSET TargetsOf(PostAt(w)) :
          \/ /\ connected = {}
             /\ Goto(w, "bare")
             /\ UNCHANGED <<status, handed>>
          \/ /\ connected # {} /\ connected \cap Rows(PostAt(w)) = {}
             /\ status' = [t \in Targets |-> IF t \in connected THEN "PENDING"
                                                                ELSE status[t]]
             /\ handed' = handed \cup connected
             /\ Exit(w)
          \/ /\ connected \cap Rows(PostAt(w)) # {}
             /\ status' = [t \in Targets |->
                              IF t \in connected \ Rows(PostAt(w))
                              THEN "PENDING" ELSE status[t]]
             /\ Exit(w)
             /\ UNCHANGED handed
    /\ UNCHANGED <<postVars, claimedAt, attempts, provider, public, subs,
                   faultVars>>

\* Nothing is connected: the post is failed, whatever its status is by now.
FailBare(w) ==
    /\ At(w, "bare")
    /\ SetPost(PostAt(w), "FAILED")
    /\ Exit(w)
    /\ UNCHANGED <<publishedAt, due, blob, targetVars, subs, handed, faultVars>>

-----------------------------------------------------------------------------
(* publishOne, up to the platform's answer.                                *)

\* The post has media, and every asset of it its original.
HasMedia(p) == MediaOf[p] # {} /\ \A a \in MediaOf[p] : blob[a]

\* findUnique with the post and its media: a snapshot used to the end.
Read(w, t) ==
    /\ At(w, "idle") /\ t \in handed
    /\ handed' = handed \ {t}
    /\ Begin(w, "read", t, "try")
    /\ media' = [media EXCEPT ![w] = HasMedia(PostOf[t])]
    /\ UNCHANGED <<sub, count, late, postVars, targetVars, subs, faultVars>>

\* Mutant: the guard was tested on the row that was read, not in the UPDATE.
ClaimUnchecked(w) ==
    /\ At(w, "read")
    /\ LET t == target[w] IN
          /\ status' = [status EXCEPT ![t] = "PUBLISHING"]
          /\ claimedAt' = [claimedAt EXCEPT ![t] = "fresh"]
          /\ attempts' = [attempts EXCEPT ![t] = @ + 1]
    /\ Goto(w, "claimed")
    /\ UNCHANGED <<postVars, provider, public, subs, handed, faultVars>>

\* The compare-and-swap: one UPDATE whose WHERE clause decides the winner.
Claim(w) ==
    /\ At(w, "read")
    /\ LET t == target[w] IN
          \/ /\ Claimable(t)
             /\ status' = [status EXCEPT ![t] = "PUBLISHING"]
             /\ claimedAt' = [claimedAt EXCEPT ![t] = "fresh"]
             /\ attempts' = [attempts EXCEPT ![t] = @ + 1]
             /\ Goto(w, "claimed")
          \/ /\ ~Claimable(t)
             /\ Exit(w)
             /\ UNCHANGED <<status, claimedAt, attempts>>
    /\ UNCHANGED <<postVars, provider, public, subs, handed, faultVars>>

\* updateMany of the parent post, then the PUBLISH_STARTED event.
MarkPost(w) ==
    /\ At(w, "claimed")
    /\ \/ /\ post[PostAt(w)] \in {"SCHEDULED", "PUBLISHING"}
          /\ SetPost(PostAt(w), "PUBLISHING")
       \/ /\ post[PostAt(w)] \notin {"SCHEDULED", "PUBLISHING"}
          /\ UNCHANGED <<post, old>>
    /\ Goto(w, "marked")
    /\ UNCHANGED <<publishedAt, due, blob, targetVars, subs, handed, faultVars>>

\* Missing media always throws; the carousel, connection, capability and
\* token checks, and the events written between them, may.
Preflight(w) ==
    /\ At(w, "marked")
    /\ \/ media[w] /\ Goto(w, "call")
       \/ Goto(w, "catch")
    /\ UNCHANGED worldVars

\* TikTok answered an error that looks like an expired token: refresh it and
\* call once more.
RefreshAndRetry(w) ==
    /\ At(w, "call") /\ target[w] \in TikTok
    /\ Goto(w, "recall")
    /\ UNCHANGED worldVars

\* publishToPlatform.  Instagram answers once the post is live, TikTok with
\* the id of a publish job that it processes later.
Submit(w, next) ==
    LET t == target[w] IN
    /\ subs' = [subs EXCEPT ![t] =
                   Append(@, IF t \in TikTok THEN "processing" ELSE "live")]
    /\ pc' = [pc EXCEPT ![w] = next]
    /\ sub' = [sub EXCEPT ![w] = Len(subs[t]) + 1]
    /\ UNCHANGED <<target, path, media, count, late>>

CallPlatform(w) ==
    /\ pc[w] \in {"call", "recall"}
    /\ \/ /\ Submit(w, "commit")
          /\ UNCHANGED lostAcks
       \/ /\ lostAcks < MaxLostAcks        \* accepted, but the answer is an error
          /\ lostAcks' = lostAcks + 1
          /\ Submit(w, "catch")
       \/ /\ Goto(w, "catch")              \* refused
          /\ UNCHANGED <<subs, lostAcks>>
    /\ UNCHANGED <<postVars, targetVars, handed, crashes, dbFailures>>

\* Mutant: a TikTok job is taken for a published post.
CommitAsPublished(w) ==
    /\ At(w, "commit")
    /\ LET t == target[w] IN
          /\ status' = [status EXCEPT ![t] = "PUBLISHED"]
          /\ claimedAt' = [claimedAt EXCEPT ![t] = "none"]
          /\ provider' = [provider EXCEPT ![t] = sub[w]]
          /\ public' = [public EXCEPT ![t] = t \notin TikTok]
    /\ Goto(w, "notify")
    /\ UNCHANGED <<postVars, attempts, subs, handed, faultVars>>

\* Mutant: the claim is not reset, so that a TikTok job looks like a claim.
CommitKeepsClaim(w) ==
    /\ At(w, "commit")
    /\ LET t == target[w] IN
          /\ status' = [status EXCEPT ![t] =
                           IF t \in TikTok THEN "PUBLISHING" ELSE "PUBLISHED"]
          /\ provider' = [provider EXCEPT ![t] = sub[w]]
          /\ public' = [public EXCEPT ![t] = t \notin TikTok]
    /\ Goto(w, "notify")
    /\ UNCHANGED <<postVars, claimedAt, attempts, subs, handed, faultVars>>

\* The transaction that records the platform's answer.
Commit(w) ==
    /\ At(w, "commit")
    /\ LET t == target[w] IN
          /\ status' = [status EXCEPT ![t] =
                           IF t \in TikTok THEN "PUBLISHING" ELSE "PUBLISHED"]
          /\ claimedAt' = [claimedAt EXCEPT ![t] = "none"]
          /\ provider' = [provider EXCEPT ![t] = sub[w]]
          /\ public' = [public EXCEPT ![t] = t \notin TikTok]
    /\ Goto(w, "notify")
    /\ UNCHANGED <<postVars, attempts, subs, handed, faultVars>>

\* The event of the outcome; a TikTok job that still has to be confirmed is
\* left for the reconciliation.
Notify(w) ==
    /\ At(w, "notify")
    /\ IF path[w] = "try" /\ target[w] \in TikTok
       THEN Exit(w)
       ELSE Goto(w, "count")
    /\ UNCHANGED worldVars

-----------------------------------------------------------------------------
(* The catch block of publishOne.                                          *)

ReadAttempts(w) ==
    /\ At(w, "catch")
    /\ pc' = [pc EXCEPT ![w] = "release"]
    /\ count' = [count EXCEPT ![w] = attempts[target[w]]]
    /\ UNCHANGED <<target, path, media, sub, late, worldVars>>

ReleaseAs(w, isTerminal, retryStatus) ==
    /\ At(w, "release")
    /\ status' = [status EXCEPT ![target[w]] =
                     IF isTerminal THEN "FAILED" ELSE retryStatus]
    /\ claimedAt' = [claimedAt EXCEPT ![target[w]] = "none"]
    /\ path' = [path EXCEPT ![w] = "catch"]
    /\ pc' = [pc EXCEPT ![w] = IF isTerminal THEN "giveup" ELSE "bounce"]
    /\ UNCHANGED <<target, media, sub, count, late, postVars, attempts, provider,
                   public, subs, handed, faultVars>>

\* Mutants: one attempt too many, one too few, and a PostStatus where a
\* TargetStatus belongs.
ReleaseLate(w)      == ReleaseAs(w, count[w] > MaxAttempts, "PENDING")
ReleaseEarly(w)     == ReleaseAs(w, count[w] + 1 >= MaxAttempts, "PENDING")
ReleaseScheduled(w) == ReleaseAs(w, count[w] >= MaxAttempts, "SCHEDULED")

Release(w) == ReleaseAs(w, count[w] >= MaxAttempts, "PENDING")

\* The PUBLISH_FAILED event and the FAILED mark on the primary asset.
GiveUp(w) ==
    /\ At(w, "giveup")
    /\ Goto(w, "count")
    /\ UNCHANGED worldVars

CountPublished(w) ==
    /\ At(w, "bounce")
    /\ IF CountIn(PostAt(w), {"PUBLISHED"}) = 0 THEN Goto(w, "revert") ELSE Exit(w)
    /\ UNCHANGED worldVars

Revert(w) ==
    /\ At(w, "revert")
    /\ IF post[PostAt(w)] = "PUBLISHING" THEN SetPost(PostAt(w), "SCHEDULED")
                                         ELSE UNCHANGED <<post, old>>
    /\ Exit(w)
    /\ UNCHANGED <<publishedAt, due, blob, targetVars, subs, handed, faultVars>>

-----------------------------------------------------------------------------
(* finalizeIfComplete: five statements, each reading afresh.               *)

\* Mutant: a target that is being published does not count as remaining.
CountPendingOnly(w) ==
    /\ At(w, "count")
    /\ IF CountIn(PostAt(w), {"PENDING"}) > 0 THEN Exit(w) ELSE Goto(w, "tally")
    /\ UNCHANGED worldVars

CountRemaining(w) ==
    /\ At(w, "count")
    /\ IF CountIn(PostAt(w), {"PENDING", "PUBLISHING"}) > 0
       THEN Exit(w)
       ELSE Goto(w, "tally")
    /\ UNCHANGED worldVars

\* Mutant: every target that has an outcome counts as published.
TallyResolved(w) ==
    /\ At(w, "tally")
    /\ pc' = [pc EXCEPT ![w] = "settle"]
    /\ count' = [count EXCEPT ![w] = CountIn(PostAt(w), {"PUBLISHED", "FAILED"})]
    /\ UNCHANGED <<target, path, media, sub, late, worldVars>>

\* Mutant: "any failed target -> whole post FAILED", the rule this code had.
TallyUnlessFailed(w) ==
    /\ At(w, "tally")
    /\ pc' = [pc EXCEPT ![w] = "settle"]
    /\ count' = [count EXCEPT ![w] =
                    IF CountIn(PostAt(w), {"FAILED"}) > 0
                    THEN 0 ELSE CountIn(PostAt(w), {"PUBLISHED"})]
    /\ UNCHANGED <<target, path, media, sub, late, worldVars>>

Tally(w) ==
    /\ At(w, "tally")
    /\ pc' = [pc EXCEPT ![w] = "settle"]
    /\ count' = [count EXCEPT ![w] = CountIn(PostAt(w), {"PUBLISHED"})]
    /\ UNCHANGED <<target, path, media, sub, late, worldVars>>

Settle(w) ==
    /\ At(w, "settle")
    /\ \/ /\ count[w] > 0
          /\ SetPost(PostAt(w), "PUBLISHED")
          /\ publishedAt' = [publishedAt EXCEPT ![PostAt(w)] = TRUE]
          /\ Goto(w, "clean")
       \/ /\ count[w] = 0
          /\ SetPost(PostAt(w), "FAILED")
          /\ Exit(w)
          /\ UNCHANGED publishedAt
    /\ UNCHANGED <<due, blob, targetVars, subs, handed, faultVars>>

\* Mutant: originals are freed as soon as the post is published somewhere.
PurgeRegardless(w) ==
    /\ At(w, "clean")
    /\ Goto(w, "purge")
    /\ UNCHANGED worldVars

\* Originals are kept while a target has failed, or while TikTok may still be
\* downloading them.
CountFailed(w) ==
    /\ At(w, "clean")
    /\ IF CountIn(PostAt(w), {"FAILED"}) = 0 THEN Goto(w, "purge") ELSE Exit(w)
    /\ UNCHANGED worldVars

\* The assets that give up their originals with post p: all of them, whichever
\* other posts have them too, unless TikTok may still be downloading.
Freed(p) == IF Rows(p) \cap TikTok = {} THEN MediaOf[p] ELSE {}

Purge(w) ==
    /\ At(w, "purge")
    /\ blob' = [a \in Assets |-> blob[a] /\ a \notin Freed(PostAt(w))]
    /\ Exit(w)
    /\ UNCHANGED <<post, publishedAt, due, old, targetVars, subs, handed, faultVars>>

-----------------------------------------------------------------------------
(* TikTok's side, and the reconciliation that polls it.                    *)

\* TikTok finishes or refuses a job; for a draft upload the creator does.
SettleJob(t) ==
    /\ \E k \in DOMAIN subs[t], s \in {"live", "failed"} :
          /\ subs[t][k] = "processing"
          /\ subs' = [subs EXCEPT ![t][k] = s]
    /\ UNCHANGED <<postVars, targetVars, handed, runVars, faultVars>>

Awaiting(t) == status[t] = "PUBLISHING" /\ claimedAt[t] = "none"

\* The query of syncTikTokMetrics.
Trackable(t) ==
    /\ t \in TikTok
    /\ status[t] \in {"PUBLISHING", "PUBLISHED"}
    /\ provider[t] # 0
    /\ publishedAt[PostOf[t]] \/ post[PostOf[t]] = "PUBLISHING"

\* Only ids that are not public ids yet are polled.  lastAttemptAt can be a day
\* old only if no attempt is in flight.
Track(w, t) ==
    /\ At(w, "idle")
    /\ Trackable(t) /\ ~public[t]
    /\ Begin(w, "poll", t, "reconcile")
    /\ sub' = [sub EXCEPT ![w] = provider[t]]
    /\ \E dayOld \in {FALSE, claimedAt[t] # "fresh"} :
          late' = [late EXCEPT ![w] = dayOld]
    /\ UNCHANGED <<media, count, worldVars>>

\* The job's status decides; a direct post still unfinished after 24 hours is
\* given up.
Poll(w) ==
    /\ At(w, "poll")
    /\ LET job == subs[target[w]][sub[w]] IN
          \/ job = "live" /\ Goto(w, "confirm")
          \/ job = "failed" /\ Goto(w, "fail")
          \/ job = "processing" /\ DirectPost /\ late[w] /\ Goto(w, "fail")
          \/ job = "processing" /\ ~(DirectPost /\ late[w]) /\ Exit(w)
    /\ UNCHANGED worldVars

\* confirmTikTokPublication reads the row, then writes it unconditionally.
ConfirmRead(w) ==
    /\ At(w, "confirm")
    /\ IF status[target[w]] = "PUBLISHED" THEN Exit(w)
                                              ELSE Goto(w, "confirmWrite")
    /\ UNCHANGED worldVars

\* TikTok may report a job complete without naming the public post.
ConfirmWrite(w) ==
    /\ At(w, "confirmWrite")
    /\ LET t == target[w] IN
          /\ status' = [status EXCEPT ![t] = "PUBLISHED"]
          /\ claimedAt' = [claimedAt EXCEPT ![t] = "none"]
          /\ \/ /\ provider' = [provider EXCEPT ![t] = sub[w]]
                /\ public' = [public EXCEPT ![t] = TRUE]
             \/ UNCHANGED <<provider, public>>
    /\ Goto(w, "notify")
    /\ UNCHANGED <<postVars, attempts, subs, handed, faultVars>>

\* failTikTokPublication, likewise.
FailRead(w) ==
    /\ At(w, "fail")
    /\ IF status[target[w]] = "FAILED" THEN Exit(w) ELSE Goto(w, "failWrite")
    /\ UNCHANGED worldVars

FailWrite(w) ==
    /\ At(w, "failWrite")
    /\ LET t == target[w] IN
          /\ status' = [status EXCEPT ![t] = "FAILED"]
          /\ claimedAt' = [claimedAt EXCEPT ![t] = "none"]
    /\ Goto(w, "notify")
    /\ UNCHANGED <<postVars, attempts, provider, public, subs, handed, faultVars>>

-----------------------------------------------------------------------------
(* Faults.                                                                 *)

\* The function is killed, or a statement outside the try block throws (a
\* status request to TikTok, a query of the catch block): the execution ends
\* and the database keeps what it had written.
Crash(w) ==
    /\ crashes < MaxCrashes
    /\ ~At(w, "idle")
    /\ crashes' = crashes + 1
    /\ Exit(w)
    /\ UNCHANGED <<postVars, targetVars, subs, handed, dbFailures, lostAcks>>

\* A statement of the try block throws after the platform accepted the post.
DbFailure(w) ==
    /\ dbFailures < MaxDbFailures
    /\ path[w] = "try"
    /\ pc[w] \in {"commit"} \cup Finalizing
    /\ dbFailures' = dbFailures + 1
    /\ Goto(w, "catch")
    /\ UNCHANGED <<postVars, targetVars, subs, handed, crashes, lostAcks>>

-----------------------------------------------------------------------------
\* What a worker does next, once it has started.
Step(w) ==
    \/ Attach(w) \/ FailBare(w)
    \/ Claim(w) \/ MarkPost(w) \/ Preflight(w) \/ CallPlatform(w)
    \/ RefreshAndRetry(w) \/ Commit(w) \/ Notify(w)
    \/ ReadAttempts(w) \/ Release(w) \/ GiveUp(w) \/ CountPublished(w) \/ Revert(w)
    \/ CountRemaining(w) \/ Tally(w) \/ Settle(w) \/ CountFailed(w) \/ Purge(w)
    \/ Poll(w) \/ ConfirmRead(w) \/ ConfirmWrite(w) \/ FailRead(w) \/ FailWrite(w)

Next ==
    \/ \E p \in Posts : BecomeDue(p) \/ AgePost(p)
    \/ \E t \in Targets : ExpireClaim(t) \/ SettleJob(t)
    \/ Sweep
    \/ DropHanded
    \/ \E w \in Workers :
          \/ FindBare(w)
          \/ \E t \in Targets : Read(w, t) \/ Track(w, t)
          \/ Step(w)
          \/ Crash(w)
          \/ DbFailure(w)

Spec == Init /\ [][Next]_vars

\* Time passes, passes and metrics runs keep coming, and what has started ends.
\* A pass that lists targets is an execution itself, so that passes do not only
\* come while all Workers are taken; what it has listed it may still drop.
Clock ==
    \/ \E p \in Posts : BecomeDue(p) \/ AgePost(p)
    \/ \E t \in Targets : ExpireClaim(t)

Fairness ==
    /\ WF_vars(Clock)
    /\ \A t \in TikTok : WF_vars(SettleJob(t))
    /\ SF_vars(Sweep /\ \E w \in Workers : At(w, "idle"))
    /\ \A t \in Targets : SF_vars(\E w \in Workers : Read(w, t))
    /\ \A t \in TikTok : SF_vars(\E w \in Workers : Track(w, t))
    /\ \A p \in BarePosts : SF_vars(\E w \in Workers : FindBare(w) /\ PostAt(w)' = p)
    /\ \A w \in Workers : WF_vars(Step(w))

FairSpec == Spec /\ Fairness

-----------------------------------------------------------------------------
(* Properties.                                                             *)

Instagram == Targets \ TikTok
Faults    == crashes + dbFailures + lostAcks
Live(t)   == \E k \in DOMAIN subs[t] : subs[t][k] = "live"

ExclusiveOn(S) ==
    \A v, w \in Workers :
        Owns(v) /\ Owns(w) /\ target[v] = target[w] /\ target[v] \in S => v = w

\* Two executions never work on the same target between its claim and its
\* outcome, however many passes list it and however old its claim is: the
\* compare-and-swap of publishOne, with the stale-claim take-over.
ClaimExclusion == ExclusiveOn(Targets)

\* What the claim is for: Instagram accepts a target twice only after a
\* function was killed, a statement threw after the platform's answer, or the
\* platform's answer was lost, and then once more per such fault.
DuplicatesNeedFaults ==
    \A t \in Instagram : Len(subs[t]) <= 1 + Faults

\* A target is recorded PUBLISHED only if its platform really shows a post,
\* through publishOne or through the reconciliation of a TikTok job.
PublishedIsLive == \A t \in Targets : status[t] = "PUBLISHED" => Live(t)

\* The same of the post that finalizeIfComplete settles from counts it read
\* some statements earlier, while other targets retry.
PostPublishedIsLive ==
    \A p \in Posts : post[p] = "PUBLISHED" => \E t \in TargetsOf(p) : Live(t)

\* publishOne attempts a target at most MAX_PUBLISH_ATTEMPTS times; only an
\* execution that was killed, and so never reached its catch block, adds one.
AttemptsBounded == \A t \in Targets : attempts[t] <= MaxAttempts + crashes

\* An Instagram target is given up only after all of its attempts: no overlap
\* of passes makes the catch block fail it early.
FailedIsExhausted ==
    \A t \in Instagram : status[t] = "FAILED" => attempts[t] >= MaxAttempts

\* finalizeIfComplete settles a post only when no target of it may still be
\* attempted or confirmed, and nothing reopens a target afterwards.
ResolvedPostsAreSettled ==
    \A p \in Posts : post[p] \in {"PUBLISHED", "FAILED"} =>
        \A t \in TargetsOf(p) : status[t] \notin {"PENDING", "PUBLISHING"}

\* "Only mark FAILED when nothing published anywhere": without faults, a
\* FAILED post has no target that is live on Instagram.
FailedPostIsNotLive ==
    \A p \in Posts : post[p] = "FAILED" =>
        \A t \in TargetsOf(p) \cap Instagram : Live(t) => Faults > 0

\* "Retain originals until every destination succeeds so failed targets can
\* retry": an original is freed only with a post that is live everywhere, even
\* if targets of the post fail or retry after they were counted.
MediaRetained ==
    \A a \in Assets : ~blob[a] =>
        \E p \in Posts : a \in MediaOf[p] /\ \A t \in Rows(p) : Live(t)

\* The same sentence of every post that has the asset.  finalizeIfComplete does
\* not ask whether another post, with targets still to publish, shares it.
OriginalsRetained ==
    \A p \in Posts, a \in Assets :
        a \in MediaOf[p] /\ ~blob[a] => \A t \in Rows(p) : Live(t)

\* A function was killed after the last target of the post was resolved, and
\* before the post was: no pass finds a target to claim, and nobody counts them.
Stranded(p) ==
    /\ crashes > 0
    /\ post[p] \in {"SCHEDULED", "PUBLISHING"}
    /\ Rows(p) # {} /\ \A t \in Rows(p) : status[t] \in {"PUBLISHED", "FAILED"}
    /\ \A w \in Workers : target[w] \notin TargetsOf(p)

\* A scheduled post for Instagram that is due is settled in the end, with or
\* without targets, although passes overlap, drop what they have not started in
\* time and may be killed: "a hard function kill self-heals on the next cron
\* pass rather than stranding the post", but for the one kill that strands it.
DuePostsResolve ==
    \A p \in Posts : TargetsOf(p) \cap TikTok = {} =>
        (post[p] = "SCHEDULED" /\ due[p]
            ~> post[p] \in {"PUBLISHED", "FAILED"} \/ Stranded(p))

\* "MetricsService will resolve the job": what TikTok has accepted does not
\* await its confirmation for ever.
JobsAreResolved == \A t \in TikTok : Awaiting(t) ~> ~Awaiting(t)

\* The success of an Instagram target is final: no late catch block, stale
\* claim or reconciliation takes the PUBLISHED status back.
PublishedIsFinal ==
    [][\A t \in Instagram : status[t] = "PUBLISHED" => status'[t] = "PUBLISHED"]_vars
=============================================================================
