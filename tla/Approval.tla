------------------------------- MODULE Approval -------------------------------
(***************************************************************************)
(* The approval queue of apps/api/src/engine/engine.service.ts over the    *)
(* publishing engine: approvePost, rejectPost, retryPost and editPost,     *)
(* each an HTTP request that reads the post, checks its status, and writes *)
(* it later with an unconditional update.  Requests interleave with each   *)
(* other and with every execution of module Publishing.                    *)
(*                                                                         *)
(* Approvals and edits may replace the target rows of a post, whoever is   *)
(* working on them.  A row that is deleted is never seen again: an account *)
(* that is selected anew gets a new row, so that Targets here are row ids. *)
(***************************************************************************)
EXTENDS Publishing

CONSTANTS
    Requests,   \* HTTP requests that may be in progress at once
    NoPost,     \* the post of a request that is not in progress
    Accounts,   \* the social accounts of the brand
    AccountOf,  \* the account each row is about
    FirstRows,  \* the rows that were created with their posts
    Limit,      \* maxMonthlyPosts of the organization's plan
    MaxOps      \* bound: requests served in a behaviour

ASSUME ApprovalAssumption ==
    /\ NoPost \notin Posts
    /\ IsFiniteSet(Workers)
    /\ AccountOf \in [Targets -> Accounts]
    /\ FirstRows \subseteq Targets
    /\ \A s, t \in FirstRows :     \* @@unique([postId, socialAccountId])
          PostOf[s] = PostOf[t] /\ AccountOf[s] = AccountOf[t] => s = t
    /\ Limit \in Nat \ {0}
    /\ MaxOps \in Nat

\* Posts that no account was connected for are a matter of Publishing: here
\* every post was created with a row.
ASSUME RowsAssumption == \A p \in Posts : FirstRows \cap TargetsOf(p) # {}

VARIABLES
    req,        \* the progress of each request
    approvedAt, \* Post.approvedAt is set
    autopilot,  \* the posts that AutoPilot made SCHEDULED from the start
    used,       \* UsageRecord.count of POST_PUBLISHED this month
    retries,    \* how often retryPost has revived failed targets
    erased,     \* history: rows that were deleted
    torn,       \* history: those of them that an execution had begun to publish
    ops         \* requests served so far

userVars == <<req, approvedAt, autopilot, used, retries, erased, torn, ops>>
rowHistory == <<autopilot, erased, torn>>
allVars  == <<vars, userVars>>

RequestSteps == {"idle", "selecting", "approving", "reserved", "rejecting", "retrying",
                 "revived", "handing", "reselecting", "editing"}
NoRequest == [pc |-> "idle", post |-> NoPost, now |-> FALSE]

Request == [pc : RequestSteps, post : Posts \cup {NoPost}, now : BOOLEAN]

\* The rows and executions keep their types beside the requests, which hold a
\* post from the statement that reads it to the reply.
ApprovalTypeOK ==
    /\ TypeOK
    /\ req \in [Requests -> Request]
    /\ approvedAt \in [Posts -> BOOLEAN]
    /\ used \in Nat
    /\ retries \in Nat
    /\ autopilot \subseteq Posts /\ torn \subseteq erased
    /\ \A t \in erased : t \in Targets /\ status[t] = "ABSENT"
    /\ ops \in Nat

ApprovalInit ==
    /\ autopilot \in SUBSET Posts
    /\ InitialPosts([p \in Posts |-> IF p \in autopilot THEN "SCHEDULED"
                                                     ELSE "NEEDS_APPROVAL"],
                    FirstRows)
    /\ req = [u \in Requests |-> NoRequest]
    /\ approvedAt = [p \in Posts |-> FALSE]
    /\ used = 0
    /\ retries = 0
    /\ erased = {} /\ torn = {}
    /\ ops = 0

\* runPublishPreflight: one asset with its original, any of them, at least one
\* target, and connections that can be used; the caption and the connections may
\* fail it at any time.
PassesPreflight(p) == (\E a \in MediaOf[p] : blob[a]) /\ Rows(p) # {}

PendingOf(p) == {t \in TargetsOf(p) : status[t] = "PENDING"}

Continue(u, l) == req' = [req EXCEPT ![u].pc = l]
Reply(u)       == req' = [req EXCEPT ![u] = NoRequest]

\* A request reads the post and goes on if its status allows the operation.
Open(u, p, allowed, l, now) ==
    /\ req[u].pc = "idle"
    /\ ops < MaxOps
    /\ post[p] \in allowed
    /\ ops' = ops + 1
    /\ req' = [req EXCEPT ![u] = [pc |-> l, post |-> p, now |-> now]]
    /\ UNCHANGED <<vars, approvedAt, used, retries, rowHistory>>

-----------------------------------------------------------------------------
(* replaceTargets, in one transaction.                                     *)

Worked(t) == subs[t] # <<>> \/ \E w \in Workers : Owns(w) /\ target[w] = t

\* The rows that bring the accounts A to a post, under ids not used before.
NewRows(p, A) ==
    {N \in SUBSET {t \in TargetsOf(p) \ erased : status[t] = "ABSENT"} :
        {AccountOf[t] : t \in N} = A /\ Cardinality(N) = Cardinality(A)}

\* Rows D of post p go and rows N come.
SwapRows(D, N) ==
    /\ status' = [t \in Targets |-> IF t \in D THEN "ABSENT"
                                    ELSE IF t \in N THEN "PENDING" ELSE status[t]]
    /\ erased' = erased \cup D
    /\ UNCHANGED autopilot

\* Mutant: the rows of a post are deleted and created again, all of them.
ReplaceAll(u, next) ==
    LET p == req[u].post IN
    \E keep \in (SUBSET Accounts) \ {{}} :
       \E N \in NewRows(p, keep) :
          /\ SwapRows(Rows(p), N)
          /\ torn' = torn \cup {t \in Rows(p) : AccountOf[t] \notin keep /\ Worked(t)}
          /\ Continue(u, next)

\* Accounts that are not selected lose their row, whatever it is doing; those
\* that have one keep it as it is.
ReplaceTargets(u, next) ==
    LET p == req[u].post IN
    \E keep \in (SUBSET Accounts) \ {{}} :
       LET D == {t \in Rows(p) : AccountOf[t] \notin keep}
           A == keep \ {AccountOf[t] : t \in Rows(p)}
       IN \E N \in NewRows(p, A) :
             /\ SwapRows(D, N)
             /\ torn' = torn \cup {t \in D : Worked(t)}
             /\ Continue(u, next)

\* None of the selected accounts may be connected.
Select(u, step, next) ==
    /\ req[u].pc = step
    /\ \/ ReplaceTargets(u, next)
       \/ Reply(u) /\ UNCHANGED <<status, rowHistory>>
    /\ UNCHANGED <<postVars, claimedAt, attempts, provider, public, subs, handed,
                   runVars, faultVars, approvedAt, used, retries, ops>>

-----------------------------------------------------------------------------
(* approvePost.                                                            *)

ApproveRead(u, p) ==
    \E l \in {"selecting", "approving"}, now \in BOOLEAN :
        Open(u, p, {"NEEDS_APPROVAL"}, l, now)

SelectTargets(u) == Select(u, "selecting", "approving")

\* runPublishPreflight may refuse; reservePostSlot takes the month's credit in
\* one atomic statement, or refuses.
Reserve(u) ==
    /\ req[u].pc = "approving"
    /\ \/ /\ PassesPreflight(req[u].post)
          /\ used < Limit
          /\ used' = used + 1
          /\ Continue(u, "reserved")
       \/ Reply(u) /\ UNCHANGED used
    /\ UNCHANGED <<vars, approvedAt, retries, rowHistory, ops>>

\* The update of the post.  It throws when the partial unique index on
\* (brandId, scheduledAt) has that instant taken; the credit stays spent.
ApproveWrite(u) ==
    /\ req[u].pc = "reserved"
    /\ LET p == req[u].post IN
          \/ /\ SetPost(p, "SCHEDULED")
             /\ due' \in {[due EXCEPT ![p] = d] : d \in {req[u].now, TRUE}}
             /\ approvedAt' = [approvedAt EXCEPT ![p] = TRUE]
             /\ IF req[u].now THEN Continue(u, "handing") ELSE Reply(u)
          \/ /\ Reply(u)
             /\ UNCHANGED <<post, old, due, approvedAt>>
    /\ UNCHANGED <<publishedAt, blob, targetVars, subs, handed, runVars, faultVars,
                   used, retries, rowHistory, ops>>

\* "Publish now" and retry end by calling publishOne on the pending targets.
Hand(u) ==
    /\ req[u].pc = "handing"
    /\ handed' = handed \cup PendingOf(req[u].post)
    /\ Reply(u)
    /\ UNCHANGED <<postVars, targetVars, subs, runVars, faultVars,
                   approvedAt, used, retries, rowHistory, ops>>

-----------------------------------------------------------------------------
(* rejectPost.                                                             *)

RejectRead(u, p) == Open(u, p, {"NEEDS_APPROVAL", "SCHEDULED"}, "rejecting", FALSE)

RejectWrite(u) ==
    /\ req[u].pc = "rejecting"
    /\ SetPost(req[u].post, "REJECTED")
    /\ Reply(u)
    /\ UNCHANGED <<publishedAt, due, blob, targetVars, subs, handed, runVars,
                   faultVars, approvedAt, used, retries, rowHistory, ops>>

-----------------------------------------------------------------------------
(* retryPost.                                                              *)

RetryRead(u, p) == Open(u, p, {"FAILED"}, "retrying", FALSE)

\* Mutant: every target is reset, the published ones too.
RetryAll(u) ==
    /\ req[u].pc = "retrying"
    /\ LET p == req[u].post IN
          /\ status' = [t \in Targets |-> IF PostOf[t] = p THEN "PENDING" ELSE status[t]]
          /\ retries' = retries + 1
    /\ Continue(u, "revived")
    /\ UNCHANGED <<postVars, claimedAt, attempts, provider, public, subs, handed,
                   runVars, faultVars, approvedAt, used, rowHistory, ops>>

\* Mutant: the targets take the status of their post.
RetryAsScheduled(u) ==
    /\ req[u].pc = "retrying"
    /\ status' = [t \in Targets |-> IF PostOf[t] = req[u].post /\ status[t] = "FAILED"
                                    THEN "SCHEDULED" ELSE status[t]]
    /\ retries' = retries + 1
    /\ Continue(u, "revived")
    /\ UNCHANGED <<postVars, claimedAt, attempts, provider, public, subs, handed,
                   runVars, faultVars, approvedAt, used, rowHistory, ops>>

\* updateMany of the failed targets, once runPublishPreflight has passed.
\* attemptCount and providerPostId keep their values.
RetryTargets(u) ==
    /\ req[u].pc = "retrying"
    /\ LET p == req[u].post IN
          \/ /\ PassesPreflight(p)
             /\ status' = [t \in Targets |->
                              IF PostOf[t] = p /\ status[t] = "FAILED"
                              THEN "PENDING" ELSE status[t]]
             /\ retries' = retries + 1
             /\ Continue(u, "revived")
          \/ Reply(u) /\ UNCHANGED <<status, retries>>
    /\ UNCHANGED <<postVars, claimedAt, attempts, provider, public, subs, handed,
                   runVars, faultVars, approvedAt, used, rowHistory, ops>>

RetryPost(u) ==
    /\ req[u].pc = "revived"
    /\ SetPost(req[u].post, "SCHEDULED")
    /\ due' = [due EXCEPT ![req[u].post] = TRUE]
    /\ Continue(u, "handing")
    /\ UNCHANGED <<publishedAt, blob, targetVars, subs, handed, runVars, faultVars,
                   approvedAt, used, retries, rowHistory, ops>>

-----------------------------------------------------------------------------
(* editPost.                                                               *)

EditRead(u, p) ==
    \E l \in {"reselecting", "editing"} :
        Open(u, p, {"NEEDS_APPROVAL", "SCHEDULED"}, l, FALSE)

ReselectTargets(u) == Select(u, "reselecting", "editing")

\* The update leaves the status as it is by now, and may move the post in time;
\* it throws when that instant is taken.
EditWrite(u) ==
    /\ req[u].pc = "editing"
    /\ LET p == req[u].post IN
          \/ /\ SetPost(p, post[p])
             /\ due' \in {[due EXCEPT ![p] = d] : d \in BOOLEAN}
          \/ UNCHANGED <<post, old, due>>
    /\ Reply(u)
    /\ UNCHANGED <<publishedAt, blob, targetVars, subs, handed, runVars, faultVars,
                   approvedAt, used, retries, rowHistory, ops>>

-----------------------------------------------------------------------------
\* A request whose function is killed takes no further step: there is no
\* fairness here that would make it.
RequestNext ==
    \E u \in Requests :
        \/ \E p \in Posts :
              ApproveRead(u, p) \/ RejectRead(u, p) \/ RetryRead(u, p) \/ EditRead(u, p)
        \/ SelectTargets(u) \/ Reserve(u) \/ ApproveWrite(u) \/ Hand(u)
        \/ RejectWrite(u)
        \/ RetryTargets(u) \/ RetryPost(u)
        \/ ReselectTargets(u) \/ EditWrite(u)

-----------------------------------------------------------------------------
(* An execution whose row has been deleted.                                *)

\* The statements that read or update the row by its id, after its claim.
OnItsRow == {"commit", "release", "confirm", "confirmWrite", "fail", "failWrite"}
Bereft(w) == pc[w] \in OnItsRow /\ target[w] \in erased

\* The transaction that records the answer throws into the catch block, and
\* there its counterpart throws out of publishOne; a reconciliation ends.
MissRow(w) ==
    /\ Bereft(w)
    /\ IF At(w, "commit") THEN Goto(w, "catch") ELSE Exit(w)
    /\ UNCHANGED worldVars

\* A step of Publishing that needs no deleted row: the executions that are at
\* one stay there, unless they are killed.
Undisturbed ==
    /\ Next
    /\ \A w \in Workers : Bereft(w) => pc'[w] \in {pc[w], "idle"}

ApprovalNext ==
    \/ Undisturbed /\ UNCHANGED userVars
    \/ \E w \in Workers : MissRow(w) /\ UNCHANGED userVars
    \/ RequestNext

ApprovalSpec == ApprovalInit /\ [][ApprovalNext]_allVars

-----------------------------------------------------------------------------
(* Properties.                                                             *)

\* With "publish now" and retry handing targets to publishOne beside the cron
\* passes, no two executions work on the same Instagram target.  (On a TikTok
\* target they may: its job can fail, and be retried, before the execution
\* that submitted it has returned.)
InstagramExclusion == ExclusiveOn(Instagram)

\* Nothing of the approval queue reaches a platform without the approval of its
\* post, whichever of the sweep, the requests and the edits handed it over.
OnlyApprovedIsSubmitted ==
    \A t \in Targets :
        subs[t] # <<>> => PostOf[t] \in autopilot \/ approvedAt[PostOf[t]]

\* What the platform accepted of the rows R, each submission by row and number.
Accepted(R) == UNION {{t} \X DOMAIN subs[t] : t \in R}
RowsOf(p, a) == {t \in TargetsOf(p) \cap Instagram : AccountOf[t] = a}

\* replaceTargets keeps the rows of the accounts that stay selected: an account
\* is posted to once, plus once per fault and per time that the user took it
\* off the post after an execution had begun to publish it there, whatever
\* edits and approvals do beside the passes.
AccountsPostedOnce ==
    \A p \in Posts, a \in Accounts :
        Cardinality(Accepted(RowsOf(p, a)))
            <= 1 + Faults + Cardinality(RowsOf(p, a) \cap torn)

\* retryPost does not reset attemptCount, so each retry buys one attempt, not
\* MAX_PUBLISH_ATTEMPTS of them, even when it overlaps a pass.
AttemptsBoundedWithRetries ==
    \A t \in Targets : attempts[t] <= MaxAttempts + crashes + retries

=============================================================================
