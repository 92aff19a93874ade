---------------------------- MODULE DeliveryProofs ----------------------------
(***************************************************************************)
(* The publishing engine implements module Delivery, for any number of     *)
(* posts, targets, executions and faults, and what Delivery promises.      *)
(*                                                                         *)
(* A step of the engine that takes, sends, records or gives back a target  *)
(* is the step of Delivery of that name; every other step, and there are   *)
(* many, leaves the leases, what is known and what is recorded alone.  The *)
(* inductive invariant of PublishingProofs says what each of the former    *)
(* may rely on: an owner's row can be taken by nobody else.                *)
(***************************************************************************)
EXTENDS PublishingDelivery, PublishingProofs

\* A reconciliation fails a target only for a job that was submitted.
FailingJobs ==
    \A w \in Workers : pc[w] \in {"fail", "failWrite"} => Len(subs[target[w]]) > 0

FInv == IInv /\ FailingJobs

-----------------------------------------------------------------------------
(* What Delivery does not see.                                             *)

\* A step that moves no lease, tells no execution of an answer and records no
\* outcome is a stutter.
LEMMA Unseen ==
    ASSUME \A v \in Workers : /\ Owns(v)' <=> Owns(v)
                              /\ Owns(v) => target'[v] = target[v]
                              /\ Heard(v)' <=> Heard(v),
           \A t \in Targets : OutcomeOf(t)' = OutcomeOf(t),
           UNCHANGED <<subs, Faults>>
    PROVE  UNCHANGED D!dvars
<1>1. LeaseMap' = LeaseMap
    BY DEF LeaseMap
<1>2. HeardMap' = HeardMap
  <2>1. \A v \in Workers : Heard(v)' = Heard(v)
      BY DEF Heard
  <2> QED BY <2>1 DEF HeardMap
<1>3. SentMap' = SentMap /\ OutcomeMap' = OutcomeMap
    BY DEF SentMap, OutcomeMap
<1> QED BY <1>1, <1>2, <1>3 DEF D!dvars

\* The moves inside the code before the answer, inside the code after it, and
\* outside of both.
Aside(k, l) ==
    \/ k \in (PreCommit \cup Catching) \ {"commit"}
       /\ l \in (PreCommit \cup Catching) \ {"commit"}
    \/ k \in {"commit"} \cup Finalizing /\ l \in Finalizing
    \/ /\ k \in Released \cup Reconciling \cup Attaching
       /\ l \in Released \cup Reconciling \cup Attaching
    \/ k \in Released \cup Reconciling /\ l \in Finalizing

\* Such a move is a stutter, if it records nothing.
LEMMA GotoUnseen ==
    ASSUME RunType, WorkersPlaced, NEW w \in Workers, NEW l,
           Goto(w, l), Aside(pc[w], l),
           \A t \in Targets : OutcomeOf(t)' = OutcomeOf(t),
           UNCHANGED <<subs, Faults>>
    PROVE  UNCHANGED D!dvars
<1>1. ASSUME NEW v \in Workers
      PROVE  /\ Owns(v)' <=> Owns(v)
             /\ Owns(v) => target'[v] = target[v]
             /\ Heard(v)' <=> Heard(v)
  <2>1. CASE v # w
      BY <2>1 DEF Goto, RunType, Owns, Heard
  <2>2. CASE v = w
      BY <2>2 DEF Goto, Aside, RunType, WorkersPlaced, Placed, Owns, Heard, PreCommit,
         Catching, Released, Finalizing, Reconciling, Attaching
  <2> QED BY <2>1, <2>2
<1> QED BY <1>1, Unseen

\* The leases and the knowledge of the other executions stay as they are.
LEMMA Others ==
    ASSUME RunType, NEW w \in Workers, NEW v \in Workers \ {w},
           pc'[v] = pc[v], path'[v] = path[v], target'[v] = target[v]
    PROVE  LeaseMap'[v] = LeaseMap[v] /\ HeardMap'[v] = HeardMap[v]
<1>1. Owns(v)' = Owns(v) /\ Heard(v)' = Heard(v)
    BY DEF Owns, Heard
<1> QED BY <1>1 DEF LeaseMap, HeardMap

\* The end of an execution ends its lease, if it has one.
LEMMA ExitLease ==
    ASSUME RunType, NEW w \in Workers, Exit(w)
    PROVE  /\ LeaseMap' = [LeaseMap EXCEPT ![w] = NoTarget]
           /\ HeardMap' = [HeardMap EXCEPT ![w] = FALSE]
<1>1. \A v \in Workers \ {w} : pc'[v] = pc[v] /\ path'[v] = path[v]
                                /\ target'[v] = target[v]
    BY DEF Exit, Begin, RunType
<1>2. \A v \in Workers \ {w} : LeaseMap'[v] = LeaseMap[v] /\ HeardMap'[v] = HeardMap[v]
    BY <1>1, Others
<1>3. path'[w] = "none"
    BY DEF Exit, Begin, RunType
<1>4. LeaseMap'[w] = NoTarget /\ HeardMap'[w] = FALSE
    BY <1>3 DEF LeaseMap, HeardMap, Owns, Heard
<1> QED BY <1>2, <1>4 DEF LeaseMap, HeardMap

\* An execution that ends without a fault has recorded what the platform
\* accepted, or held no lease.
LEMMA ExitStep ==
    ASSUME FInv, NEW w \in Workers, Exit(w), UNCHANGED <<status, claimedAt, subs, Faults>>,
           Owns(w) => pc[w] \in Finalizing
    PROVE  D!DeliveryNext \/ UNCHANGED D!dvars
<1> USE TargetsAssumption
<1>t. RunType /\ WorldType /\ WorkersPlaced /\ OwnersClaim
    BY TypeHalves DEF FInv, IInv, ClaimInv
<1>1. /\ LeaseMap' = [LeaseMap EXCEPT ![w] = NoTarget]
      /\ HeardMap' = [HeardMap EXCEPT ![w] = FALSE]
    BY <1>t, ExitLease
<1>2. SentMap' = SentMap /\ OutcomeMap' = OutcomeMap
    BY DEF SentMap, OutcomeMap, OutcomeOf, Awaiting
<1>3. CASE Owns(w)
  <2>1. target[w] \in Targets
      BY <1>3, <1>t DEF Owns, RunType, WorkersPlaced, Placed, PreCommit, Catching,
         Finalizing
  <2>2. OutcomeOf(target[w]) # "open"
      BY <1>3, <1>t, <2>1 DEF OwnersClaim, Claimed, OutcomeOf, Awaiting,
         WorldType, TargetStatus
  <2>3. Heard(w)
      BY <1>3 DEF Heard, Owns
  <2>4. D!Finish(w)
      BY <1>1, <1>2, <1>3, <2>1, <2>2, <2>3 DEF D!Finish, D!Holds, LeaseMap, HeardMap,
         OutcomeMap
  <2> QED BY <2>4 DEF D!DeliveryNext
<1>4. CASE ~Owns(w)
  <2>1. Heard(w) = FALSE
      BY <1>4 DEF Owns, Heard, PreCommit
  <2>2. LeaseMap[w] = NoTarget /\ HeardMap[w] = FALSE
      BY <1>4, <2>1 DEF LeaseMap, HeardMap
  <2> QED BY <1>1, <1>2, <2>2 DEF D!dvars, LeaseMap, HeardMap
<1> QED BY <1>3, <1>4

\* The steps that Delivery does not see, or sees only as the end of an execution.
Silent(w) ==
    \/ FailBare(w) \/ MarkPost(w) \/ Preflight(w) \/ RefreshAndRetry(w) \/ Notify(w)
    \/ ReadAttempts(w) \/ GiveUp(w) \/ CountPublished(w) \/ Revert(w)
    \/ CountRemaining(w) \/ Tally(w) \/ Settle(w) \/ CountFailed(w) \/ Purge(w)
    \/ Poll(w) \/ ConfirmRead(w) \/ FailRead(w)

LEMMA SilentStep ==
    ASSUME FInv, NEW w \in Workers, Silent(w)
    PROVE  D!DeliveryNext \/ UNCHANGED D!dvars
<1>t. RunType /\ WorkersPlaced
    BY TypeHalves DEF FInv, IInv, ClaimInv
<1>1. UNCHANGED <<status, claimedAt, subs, Faults>>
    BY DEF Silent, FailBare, MarkPost, Preflight, RefreshAndRetry, Notify,
       ReadAttempts, GiveUp, CountPublished, Revert, CountRemaining, Tally, Settle,
       CountFailed, Purge, Poll, ConfirmRead, FailRead, worldVars, targetVars,
       faultVars, Faults
<1>2. \A t \in Targets : OutcomeOf(t)' = OutcomeOf(t)
    BY <1>1 DEF OutcomeOf, Awaiting
<1>3. CASE Exit(w)
  <2>1. Owns(w) => pc[w] \in Finalizing
      BY <1>3, <1>t DEF Silent, FailBare, MarkPost, Preflight, RefreshAndRetry, Notify,
         ReadAttempts, GiveUp, CountPublished, Revert, CountRemaining, Tally, Settle,
         CountFailed, Purge, Poll, ConfirmRead, FailRead, At, Goto, Exit, Begin, Owns,
         RunType, WorkersPlaced, Placed, PreCommit, Catching, Released, Finalizing,
         Reconciling, Attaching
  <2> QED BY <1>1, <1>3, <2>1, ExitStep
<1>4. CASE \E l : Goto(w, l) /\ Aside(pc[w], l)
    BY <1>t, <1>1, <1>2, <1>4, GotoUnseen
<1>5. CASE ReadAttempts(w) \/ Tally(w)
  <2>1. \A v \in Workers : /\ Owns(v)' <=> Owns(v)
                           /\ target'[v] = target[v]
                           /\ Heard(v)' <=> Heard(v)
      BY <1>5, <1>t DEF ReadAttempts, Tally, At, Owns, Heard, RunType, PreCommit,
         Catching, Finalizing
  <2> QED BY <1>1, <1>2, <2>1, Unseen
<1> QED
    BY <1>3, <1>4, <1>5 DEF Silent, FailBare, MarkPost, Preflight, RefreshAndRetry,
       Notify, GiveUp, CountPublished, Revert, CountRemaining, Settle,
       CountFailed, Purge, Poll, ConfirmRead, FailRead, At, Aside, PreCommit, Catching,
       Released, Finalizing, Reconciling, Attaching

-----------------------------------------------------------------------------
(* The steps of Delivery.                                                  *)

\* The compare-and-swap takes the lease: it succeeds only on a row that no owner
\* holds and that has no outcome.
LEMMA ClaimStep ==
    ASSUME FInv, NEW w \in Workers, Claim(w)
    PROVE  D!DeliveryNext \/ UNCHANGED D!dvars
<1> DEFINE t == target[w]
<1>t. RunType /\ WorldType /\ WorkersPlaced /\ OwnersClaim
    BY TypeHalves DEF FInv, IInv, ClaimInv
<1>1. t \in Targets /\ ~Owns(w) /\ ~Heard(w)
    BY <1>t DEF Claim, At, RunType, WorkersPlaced, Placed, Owns, Heard, PreCommit,
       Catching, Finalizing
<1>2. CASE ~Claimable(t)
  <2>1. Exit(w) /\ UNCHANGED <<status, claimedAt, subs, Faults>>
      BY <1>2 DEF Claim, faultVars, Faults
  <2> QED BY <1>1, <2>1, ExitStep
<1>3. CASE Claimable(t)
  <2>1. /\ pc' = [pc EXCEPT ![w] = "claimed"] /\ UNCHANGED <<target, path, subs, Faults>>
        /\ status' = [status EXCEPT ![t] = "PUBLISHING"]
        /\ claimedAt' = [claimedAt EXCEPT ![t] = "fresh"]
      BY <1>3 DEF Claim, Goto, faultVars, Faults
  <2>2. \A v \in Workers : LeaseMap[v] # t
      BY <1>3, <1>t, <1>1, TargetsAssumption
         DEF LeaseMap, OwnersClaim, Claimed, Claimable, StaleClaim
  <2>3. \A v \in Workers \ {w} : LeaseMap'[v] = LeaseMap[v] /\ HeardMap'[v] = HeardMap[v]
      BY <1>t, <2>1, Others DEF RunType
  <2>4. path[w] = "try"
      BY <1>t DEF Claim, At, WorkersPlaced, Placed
  <2>5. Owns(w)' /\ ~Heard(w)'
      BY <1>t, <2>1, <2>4 DEF Owns, Heard, RunType, PreCommit, Finalizing
  <2>6. LeaseMap' = [LeaseMap EXCEPT ![w] = t]
      BY <2>1, <2>3, <2>5 DEF LeaseMap
  <2>7. HeardMap' = HeardMap
    <3>1. Heard(w)' = Heard(w)
        BY <1>1, <2>5 DEF Heard
    <3>2. HeardMap'[w] = HeardMap[w]
        BY <3>1 DEF HeardMap
    <3> QED BY <2>3, <3>2 DEF HeardMap
  <2>8. OutcomeOf(t) = "open" /\ \A u \in Targets : OutcomeOf(u)' = OutcomeOf(u)
      BY <1>3, <1>t, <1>1, <2>1 DEF OutcomeOf, Awaiting, Claimable, StaleClaim, WorldType
  <2>9. OutcomeMap' = OutcomeMap /\ SentMap' = SentMap
      BY <2>1, <2>8 DEF OutcomeMap, SentMap
  <2>10. D!Take(w, t)
      BY <1>1, <2>1, <2>2, <2>6, <2>7, <2>8, <2>9
         DEF D!Take, D!Holds, LeaseMap, OutcomeMap
  <2> QED BY <1>1, <2>10 DEF D!DeliveryNext
<1> QED BY <1>2, <1>3

\* The owner's call is a sending, whether its answer arrives or not; a refusal
\* is not seen.
LEMMA CallStep ==
    ASSUME FInv, NEW w \in Workers, CallPlatform(w)
    PROVE  D!DeliveryNext \/ UNCHANGED D!dvars
<1> DEFINE t == target[w]
<1> USE TargetsAssumption
<1>t. RunType /\ WorldType /\ WorkersPlaced /\ OwnersClaim
    BY TypeHalves DEF FInv, IInv, ClaimInv
<1>1. t \in Targets /\ Owns(w) /\ ~Heard(w) /\ path[w] = "try"
    BY <1>t DEF CallPlatform, RunType, WorkersPlaced, Placed, Owns, Heard, PreCommit,
       Catching, Finalizing
<1>2. t \in TikTok \/ OutcomeOf(t) = "open"
    BY <1>t, <1>1 DEF OwnersClaim, Claimed, CallPlatform, PreCommit, Instagram, OutcomeOf,
       Awaiting
<1>3. UNCHANGED <<status, claimedAt, target, path>>
    BY DEF CallPlatform, Submit, Goto, targetVars
<1>4. OutcomeMap' = OutcomeMap
    BY <1>3 DEF OutcomeMap, OutcomeOf, Awaiting
<1>5. ASSUME NEW l \in {"commit", "catch"}, Submit(w, l)
      PROVE  /\ LeaseMap' = LeaseMap
             /\ SentMap' = [SentMap EXCEPT ![t] = @ + 1]
             /\ HeardMap' = [HeardMap EXCEPT ![w] = (l = "commit")]
  <2>1. pc' = [pc EXCEPT ![w] = l]
      BY <1>5 DEF Submit
  <2>2. Owns(w)' /\ (Heard(w)' <=> l = "commit")
      BY <1>t, <1>1, <1>3, <2>1 DEF Owns, Heard, RunType, PreCommit, Catching, Finalizing
  <2>3. \A v \in Workers \ {w} : LeaseMap'[v] = LeaseMap[v] /\ HeardMap'[v] = HeardMap[v]
      BY <1>t, <1>3, <2>1, Others DEF RunType
  <2>4. LeaseMap' = LeaseMap
      BY <1>1, <1>3, <2>2, <2>3 DEF LeaseMap
  <2>5. PICK s \in SubState : subs' = [subs EXCEPT ![t] = Append(@, s)]
      BY <1>5 DEF Submit, SubState
  <2>6. SentMap' = [SentMap EXCEPT ![t] = @ + 1]
    <3>1. subs[t] \in Seq(SubState)
        BY <1>t, <1>1 DEF WorldType
    <3>2. Len(Append(subs[t], s)) = Len(subs[t]) + 1
        BY <3>1, LenAppend
    <3> QED BY <1>1, <1>t, <2>5, <3>2 DEF SentMap, WorldType
  <2>7. Heard(w)' = (l = "commit")
      BY <2>2 DEF Heard
  <2>8. HeardMap'[w] = (l = "commit")
      BY <2>7 DEF HeardMap
  <2> QED BY <2>3, <2>4, <2>6, <2>8 DEF HeardMap
<1>6. LeaseMap[w] = t /\ ~HeardMap[w] /\ (t \in TikTok \/ OutcomeMap[t] = "open")
    BY <1>1, <1>2 DEF LeaseMap, HeardMap, OutcomeMap
<1>7. CASE Submit(w, "commit") /\ UNCHANGED lostAcks
  <2>1. Faults' = Faults
      BY <1>7 DEF CallPlatform, Faults
  <2>2. D!Send(w)
      BY <1>1, <1>4, <1>5, <1>6, <1>7, <2>1 DEF D!Send, D!Holds
  <2> QED BY <2>2 DEF D!DeliveryNext
<1>8. CASE Submit(w, "catch") /\ lostAcks' = lostAcks + 1
  <2>1. Faults' = Faults + 1
      BY <1>8, <1>t DEF CallPlatform, Faults, WorldType
  <2>2. HeardMap' = HeardMap
    <3>1. Heard(w) = FALSE
        BY <1>1 DEF Heard
    <3>2. HeardMap[w] = FALSE /\ HeardMap'[w] = FALSE
        BY <1>5, <1>8, <3>1 DEF HeardMap
    <3> QED BY <1>5, <1>8, <3>2 DEF HeardMap
  <2>3. D!Send(w)
      BY <1>1, <1>4, <1>5, <1>6, <1>8, <2>1, <2>2 DEF D!Send, D!Holds
  <2> QED BY <2>3 DEF D!DeliveryNext
<1>9. CASE Goto(w, "catch") /\ UNCHANGED <<subs, lostAcks>>
  <2>1. UNCHANGED Faults /\ Aside(pc[w], "catch")
      BY <1>9 DEF CallPlatform, Faults, Aside, PreCommit, Catching
  <2>2. \A u \in Targets : OutcomeOf(u)' = OutcomeOf(u)
      BY <1>3 DEF OutcomeOf, Awaiting
  <2> QED BY <1>t, <1>9, <2>1, <2>2, GotoUnseen
<1> QED BY <1>7, <1>8, <1>9 DEF CallPlatform

\* The commit records the acceptance its owner has heard of.
LEMMA CommitStep ==
    ASSUME FInv, NEW w \in Workers, Commit(w)
    PROVE  D!DeliveryNext
<1> DEFINE t == target[w]
<1> USE TargetsAssumption
<1>t. RunType /\ WorldType /\ WorkersPlaced
    BY TypeHalves DEF FInv, IInv, ClaimInv
<1>1. /\ t \in Targets /\ pc[w] = "commit" /\ path[w] = "try"
      /\ pc' = [pc EXCEPT ![w] = "notify"] /\ UNCHANGED <<target, path, subs, Faults>>
    BY <1>t DEF Commit, At, Goto, RunType, WorkersPlaced, Placed, PreCommit, faultVars,
       Faults
<1>2. \A v \in Workers : (Owns(v)' <=> Owns(v)) /\ (Heard(v)' <=> Heard(v))
    BY <1>t, <1>1 DEF Owns, Heard, RunType, PreCommit, Finalizing
<1>3. LeaseMap' = LeaseMap /\ SentMap' = SentMap
    BY <1>1, <1>2 DEF LeaseMap, SentMap
<1>4. HeardMap' = HeardMap
  <2>1. \A v \in Workers : Heard(v)' = Heard(v)
      BY <1>2 DEF Heard
  <2> QED BY <2>1 DEF HeardMap
<1>5. Owns(w) /\ Heard(w)
    BY <1>1 DEF Owns, Heard, PreCommit
<1>6. LeaseMap[w] = t /\ HeardMap[w]
    BY <1>5 DEF LeaseMap, HeardMap
<1>7. OutcomeMap' = [OutcomeMap EXCEPT ![t] = IF t \in TikTok THEN "awaiting"
                                                             ELSE "published"]
    BY <1>t, <1>1 DEF Commit, OutcomeMap, OutcomeOf, Awaiting, WorldType
<1>8. D!Record(w)
    BY <1>1, <1>3, <1>4, <1>6, <1>7 DEF D!Record, D!Holds
<1> QED BY <1>8 DEF D!DeliveryNext

\* The release of the catch block gives the target back: nothing is known to be
\* accepted, since whoever knew has paid for the error with a fault.
LEMMA ReleaseStep ==
    ASSUME FInv, NEW w \in Workers, Release(w)
    PROVE  D!DeliveryNext
<1> DEFINE t == target[w]
<1> USE TargetsAssumption
<1>t. RunType /\ WorldType /\ WorkersPlaced
    BY TypeHalves DEF FInv, IInv, ClaimInv
<1>1. /\ t \in Targets /\ Owns(w) /\ ~Heard(w) /\ ~Owns(w)' /\ ~Heard(w)'
      /\ UNCHANGED <<target, subs, Faults>>
    BY <1>t DEF Release, ReleaseAs, At, RunType, WorkersPlaced, Placed, Owns, Heard,
       PreCommit, Catching, Finalizing, faultVars, Faults
<1>2. \A v \in Workers \ {w} : LeaseMap'[v] = LeaseMap[v] /\ HeardMap'[v] = HeardMap[v]
    BY <1>t, Others DEF Release, ReleaseAs, RunType
<1>3. LeaseMap' = [LeaseMap EXCEPT ![w] = NoTarget] /\ LeaseMap[w] = t
    BY <1>1, <1>2 DEF LeaseMap
<1>4. HeardMap' = HeardMap /\ ~HeardMap[w]
  <2>1. Heard(w) = FALSE /\ Heard(w)' = FALSE
      BY <1>1 DEF Heard
  <2>2. HeardMap[w] = FALSE /\ HeardMap'[w] = FALSE
      BY <2>1 DEF HeardMap
  <2> QED BY <1>2, <2>2 DEF HeardMap
<1>5. \E o \in {"open", "failed"} : OutcomeMap' = [OutcomeMap EXCEPT ![t] = o]
    BY <1>t, <1>1 DEF Release, ReleaseAs, OutcomeMap, OutcomeOf, Awaiting, WorldType
<1>6. D!GiveBack(w)
    BY <1>1, <1>3, <1>4, <1>5 DEF D!GiveBack, D!Holds, SentMap
<1> QED BY <1>6 DEF D!DeliveryNext

\* The reconciliation reports a job that was submitted.
LEMMA ReportStep ==
    ASSUME FInv, NEW w \in Workers, ConfirmWrite(w) \/ FailWrite(w)
    PROVE  D!DeliveryNext
<1> DEFINE t == target[w]
<1> USE TargetsAssumption
<1>t. RunType /\ WorldType /\ WorkersPlaced /\ LiveInv
    BY TypeHalves DEF FInv, IInv, ClaimInv
<1>1. /\ t \in Targets /\ t \in TikTok /\ path[w] = "reconcile"
      /\ pc' = [pc EXCEPT ![w] = "notify"] /\ UNCHANGED <<target, path, subs, Faults>>
    BY <1>t DEF ConfirmWrite, FailWrite, At, Goto, RunType, WorkersPlaced, Placed,
       Reconciling, faultVars, Faults
<1>2. SentMap[t] > 0
  <2>1. subs[t] \in Seq(SubState)
      BY <1>1, <1>t DEF WorldType
  <2>2. pc[w] = "confirmWrite" => subs[t] # <<>>
      BY <1>t DEF LiveInv, Shown, Pointing
  <2>3. Len(subs[t]) > 0
      BY <2>1, <2>2 DEF ConfirmWrite, FailWrite, At, FInv, FailingJobs
  <2> QED BY <1>1, <2>3 DEF SentMap
<1>3. \A v \in Workers : (Owns(v)' <=> Owns(v)) /\ (Heard(v)' <=> Heard(v))
    BY <1>t, <1>1 DEF Owns, Heard, RunType
<1>4. LeaseMap' = LeaseMap /\ SentMap' = SentMap
    BY <1>1, <1>3 DEF LeaseMap, SentMap
<1>5. HeardMap' = HeardMap
  <2>1. \A v \in Workers : Heard(v)' = Heard(v)
      BY <1>3 DEF Heard
  <2> QED BY <2>1 DEF HeardMap
<1>6. \E o \in {"published", "failed"} : OutcomeMap' = [OutcomeMap EXCEPT ![t] = o]
  <2>1. CASE ConfirmWrite(w)
    <3>1. OutcomeMap' = [OutcomeMap EXCEPT ![t] = "published"]
        BY <2>1, <1>t, <1>1 DEF ConfirmWrite, OutcomeMap, OutcomeOf, Awaiting, WorldType
    <3> QED BY <3>1
  <2>2. CASE FailWrite(w)
    <3>1. OutcomeMap' = [OutcomeMap EXCEPT ![t] = "failed"]
        BY <2>2, <1>t, <1>1 DEF FailWrite, OutcomeMap, OutcomeOf, Awaiting, WorldType
    <3> QED BY <3>1
  <2> QED BY <2>1, <2>2
<1>7. D!Report(t)
    BY <1>1, <1>2, <1>4, <1>5, <1>6 DEF D!Report
<1> QED BY <1>1, <1>7 DEF D!DeliveryNext

\* A killed function loses its lease; a late database error loses only what its
\* owner knew.
LEMMA FaultStep ==
    ASSUME FInv, NEW w \in Workers, Crash(w) \/ DbFailure(w)
    PROVE  D!DeliveryNext
<1> USE TargetsAssumption
<1>t. RunType /\ WorldType /\ WorkersPlaced
    BY TypeHalves DEF FInv, IInv, ClaimInv
<1>1. Faults' = Faults + 1 /\ UNCHANGED <<status, claimedAt, subs>>
    BY <1>t DEF Crash, DbFailure, Faults, targetVars, WorldType
<1>2. SentMap' = SentMap /\ OutcomeMap' = OutcomeMap
    BY <1>1 DEF SentMap, OutcomeMap, OutcomeOf, Awaiting
<1>3. CASE Crash(w)
  <2>1. D!Die(w)
      BY <1>1, <1>2, <1>3, <1>t, ExitLease DEF Crash, D!Die
  <2> QED BY <2>1 DEF D!DeliveryNext
<1>4. CASE DbFailure(w)
  <2>1. /\ pc' = [pc EXCEPT ![w] = "catch"] /\ UNCHANGED <<target, path>>
        /\ Owns(w) /\ Heard(w) /\ target[w] \in Targets
      BY <1>4, <1>t DEF DbFailure, Goto, Owns, Heard, PreCommit, Finalizing, RunType,
         WorkersPlaced, Placed
  <2>2. Owns(w)' /\ ~Heard(w)'
      BY <1>t, <2>1 DEF Owns, Heard, RunType, Catching, Finalizing
  <2>3. \A v \in Workers \ {w} : LeaseMap'[v] = LeaseMap[v] /\ HeardMap'[v] = HeardMap[v]
      BY <1>t, <2>1, Others DEF RunType
  <2>4. LeaseMap' = LeaseMap /\ LeaseMap[w] = target[w]
      BY <2>1, <2>2, <2>3 DEF LeaseMap
  <2>5. HeardMap' = [HeardMap EXCEPT ![w] = FALSE] /\ HeardMap[w]
    <3>1. Heard(w)' = FALSE
        BY <2>2 DEF Heard
    <3>2. HeardMap'[w] = FALSE
        BY <3>1 DEF HeardMap
    <3> QED BY <2>1, <2>3, <3>2 DEF HeardMap
  <2>6. D!Forget(w)
      BY <1>1, <1>2, <2>1, <2>4, <2>5 DEF D!Forget, D!Holds
  <2> QED BY <2>6 DEF D!DeliveryNext
<1> QED BY <1>3, <1>4

\* Listing, the clock, TikTok's side and the passes that attach targets change
\* no outcome and no lease.
LEMMA OutsideStep ==
    ASSUME FInv,
           \/ \E p \in Posts : BecomeDue(p) \/ AgePost(p)
           \/ \E t \in Targets : ExpireClaim(t) \/ SettleJob(t)
           \/ Sweep \/ DropHanded
    PROVE  UNCHANGED D!dvars
<1>t. WorldType
    BY TypeHalves DEF FInv, IInv, ClaimInv
<1>1. UNCHANGED <<pc, target, path, status, Faults>>
    BY DEF BecomeDue, AgePost, ExpireClaim, SettleJob, Sweep, DropHanded, runVars,
       targetVars, faultVars, Faults
<1>2. \A t \in Targets : claimedAt'[t] = "none" <=> claimedAt[t] = "none"
    BY <1>t DEF BecomeDue, AgePost, ExpireClaim, SettleJob, Sweep, DropHanded,
       targetVars, WorldType
<1>3. LeaseMap' = LeaseMap /\ HeardMap' = HeardMap /\ OutcomeMap' = OutcomeMap
    BY <1>1, <1>2 DEF LeaseMap, HeardMap, OutcomeMap, Owns, Heard, OutcomeOf, Awaiting
<1>4. SentMap' = SentMap
  <2>1. CASE UNCHANGED subs
      BY <2>1 DEF SentMap
  <2>2. ASSUME NEW t \in Targets, SettleJob(t) PROVE SentMap' = SentMap
    <3>1. \A u \in Targets : Len(subs'[u]) = Len(subs[u])
        BY <2>2, <1>t DEF SettleJob, WorldType
    <3> QED BY <3>1 DEF SentMap
  <2> QED
      BY <2>1, <2>2 DEF BecomeDue, AgePost, ExpireClaim, Sweep, DropHanded
<1> QED BY <1>1, <1>3, <1>4 DEF D!dvars

LEMMA StartStep ==
    ASSUME FInv, NEW w \in Workers,
           \/ FindBare(w) \/ Attach(w)
           \/ \E t \in Targets : Read(w, t) \/ Track(w, t)
    PROVE  UNCHANGED D!dvars
<1>t. RunType /\ WorldType /\ WorkersPlaced
    BY TypeHalves DEF FInv, IInv, ClaimInv
<1>1. UNCHANGED <<claimedAt, subs, Faults>>
    BY DEF FindBare, Attach, Read, Track, worldVars, targetVars, faultVars, Faults
<1>2. \A t \in Targets : OutcomeOf(t)' = OutcomeOf(t)
  <2>1. \A t \in Targets : \/ status'[t] = status[t]
                           \/ status[t] = "ABSENT" /\ status'[t] = "PENDING"
    <3>1. CASE Attach(w)
      <4>1. PICK connected \in SUBSET TargetsOf(PostAt(w)) :
               \/ UNCHANGED status
               \/ /\ connected \cap Rows(PostAt(w)) = {}
                  /\ status' = [t \in Targets |-> IF t \in connected
                                                  THEN "PENDING" ELSE status[t]]
               \/ status' = [t \in Targets |-> IF t \in connected \ Rows(PostAt(w))
                                               THEN "PENDING" ELSE status[t]]
          BY <3>1 DEF Attach
      <4> QED BY <4>1 DEF Rows
    <3>2. CASE UNCHANGED status
        BY <3>2
    <3> QED
        BY <3>1, <3>2 DEF FindBare, Read, Track, worldVars, targetVars
  <2> QED BY <1>1, <2>1 DEF OutcomeOf, Awaiting
<1>3. \A v \in Workers : /\ Owns(v)' <=> Owns(v)
                         /\ Owns(v) => target'[v] = target[v]
                         /\ Heard(v)' <=> Heard(v)
    BY <1>t DEF FindBare, Attach, Read, Track, At, Goto, Exit, Begin, Owns, Heard,
       RunType, WorkersPlaced, Placed, PreCommit, Catching, Finalizing
<1> QED BY <1>1, <1>2, <1>3, Unseen

-----------------------------------------------------------------------------
(* The refinement.                                                         *)

\* A reconciliation that fails a target has polled a job that was submitted,
\* and submissions are never taken back.
LEMMA NextFailing == FInv /\ [Next]_vars => FailingJobs'
<1> SUFFICES ASSUME FInv, [Next]_vars, NEW w \in Workers, pc'[w] \in {"fail", "failWrite"}
             PROVE  Len(subs'[target'[w]]) > 0
    BY DEF FailingJobs
<1>t. RunType /\ WorldType /\ WorkersPlaced /\ LiveInv
    BY TypeHalves DEF FInv, IInv, ClaimInv
<1>1. pc[w] \in {"poll", "fail", "failWrite"} /\ target'[w] = target[w]
  <2>1. CASE UNCHANGED <<pc, target>>
      BY <2>1
  <2>2. ASSUME NEW v \in Workers,
               Attach(v) \/ FailBare(v) \/ Claim(v) \/ MarkPost(v) \/
               Preflight(v) \/ RefreshAndRetry(v) \/ Commit(v) \/ Notify(v)
        PROVE  pc[w] \in {"poll", "fail", "failWrite"} /\ target'[w] = target[w]
      BY <1>t, <2>2 DEF Attach, FailBare, Claim, MarkPost, Preflight, RefreshAndRetry,
         Commit, Notify, At, Goto, Exit, Begin, RunType
  <2>3. ASSUME NEW v \in Workers,
               GiveUp(v) \/ CountPublished(v) \/ Revert(v) \/ CountRemaining(v)
               \/ Settle(v) \/ CountFailed(v) \/ Purge(v) \/ Crash(v) \/
               DbFailure(v)
        PROVE  pc[w] \in {"poll", "fail", "failWrite"} /\ target'[w] = target[w]
      BY <1>t, <2>3 DEF GiveUp, CountPublished, Revert, CountRemaining, Settle,
         CountFailed, Purge, Crash, DbFailure, At, Goto, Exit, Begin, RunType
  <2>4. ASSUME NEW v \in Workers,
               Poll(v) \/ ConfirmRead(v) \/ ConfirmWrite(v) \/ FailRead(v) \/
               FailWrite(v)
        PROVE  pc[w] \in {"poll", "fail", "failWrite"} /\ target'[w] = target[w]
      BY <1>t, <2>4 DEF Poll, ConfirmRead, ConfirmWrite, FailRead, FailWrite, At,
         Goto, Exit, Begin, RunType
  <2>5. ASSUME NEW v \in Workers,
               ReadAttempts(v) \/ Release(v) \/ Tally(v) \/ CallPlatform(v)
        PROVE  pc[w] \in {"poll", "fail", "failWrite"} /\ target'[w] = target[w]
      BY <1>t, <2>5 DEF ReadAttempts, Release, Tally, CallPlatform, ReleaseAs, Submit,
         At, Goto, Exit, Begin, RunType
  <2>6. ASSUME NEW v \in Workers,
               FindBare(v) \/ \E t \in Targets : Read(v, t) \/ Track(v, t)
        PROVE  pc[w] \in {"poll", "fail", "failWrite"} /\ target'[w] = target[w]
      BY <1>t, <2>6 DEF FindBare, Read, Track, Begin, RunType
  <2>7. \/ UNCHANGED <<pc, target>>
        \/ \E v \in Workers : \/ Step(v) \/ Crash(v) \/ DbFailure(v)
                             \/ FindBare(v)
                             \/ \E t \in Targets : Read(v, t) \/ Track(v, t)
      BY DEF Next, BecomeDue, AgePost, ExpireClaim, SettleJob, Sweep, DropHanded,
         runVars, vars
  <2> QED BY <2>1, <2>2, <2>3, <2>4, <2>5, <2>6, <2>7 DEF Step
<1>2. target[w] \in Targets
    BY <1>1, <1>t DEF RunType, WorkersPlaced, Placed
<1>3. subs[target[w]] \in Seq(SubState) /\ subs'[target[w]] \in Seq(SubState)
  <2>1. TypeOK /\ TypeOK'
      BY NextType DEF FInv, IInv, ClaimInv
  <2> QED BY <1>2, <2>1 DEF TypeOK
<1>4. Len(subs[target[w]]) > 0
    BY <1>1, <1>3, <1>t DEF LiveInv, Shown, Pointing, FInv, FailingJobs
<1>5. DOMAIN subs[target[w]] \subseteq DOMAIN subs'[target[w]]
    BY <1>2, <1>t, SubsGrow
<1> QED BY <1>1, <1>3, <1>4, <1>5

\* The first rows: nothing is leased, sent or recorded.
LEMMA InitDelivery == Init => FInv /\ D!DeliveryInit
<1> SUFFICES ASSUME Init PROVE FInv /\ D!DeliveryInit
    OBVIOUS
<1>1. /\ \A w \in Workers : pc[w] = "idle" /\ path[w] = "none"
      /\ \A t \in Targets : status[t] \in {"ABSENT", "PENDING"} /\ subs[t] = <<>>
      /\ Faults = 0
    BY DEF Init, InitialPosts, Faults
<1>2. \A w \in Workers : ~Owns(w) /\ Heard(w) = FALSE
    BY <1>1 DEF Owns, Heard
<1>3. LeaseMap = [w \in Workers |-> NoTarget] /\ HeardMap = [w \in Workers |-> FALSE]
    BY <1>2 DEF LeaseMap, HeardMap
<1>4. /\ SentMap = [t \in Targets |-> 0]
      /\ OutcomeMap = [t \in Targets |-> "open"]
    BY <1>1 DEF SentMap, OutcomeMap, OutcomeOf, Awaiting
<1>5. FInv
    BY <1>1, InitInv DEF FInv, FailingJobs
<1> QED BY <1>1, <1>3, <1>4, <1>5 DEF D!DeliveryInit

\* Every step of the engine is a step of Delivery or a stutter.
LEMMA NextDelivery == FInv /\ [Next]_vars => [D!DeliveryNext]_(D!dvars)
<1> SUFFICES ASSUME FInv, [Next]_vars
             PROVE  D!DeliveryNext \/ UNCHANGED D!dvars
    OBVIOUS
<1>1. CASE UNCHANGED vars
    BY <1>1, Unseen DEF vars, Owns, Heard, OutcomeOf, Awaiting, Faults
<1>2. ASSUME NEW w \in Workers, Step(w)
      PROVE  D!DeliveryNext \/ UNCHANGED D!dvars
    BY <1>2, StartStep, ClaimStep, CallStep, CommitStep, ReleaseStep, ReportStep,
       SilentStep DEF Step, Silent
<1> QED
    BY <1>1, <1>2, OutsideStep, StartStep, FaultStep DEF Next

\* The publishing engine implements Delivery: claims, stale claims, retries,
\* reconciliations and crashes together never lease a target twice, send it
\* twice in one lease, nor end a lease without a record of what was accepted,
\* except for the faults that Delivery counts.
THEOREM Implements == Spec => ImplementsDelivery
<1>1. Init => FInv /\ D!DeliveryInit
    BY InitDelivery
<1>2. FInv /\ [Next]_vars => FInv'
    BY NextInv, NextFailing DEF FInv
<1>3. FInv /\ [Next]_vars => [D!DeliveryNext]_(D!dvars)
    BY NextDelivery
<1> QED BY <1>1, <1>2, <1>3, PTL DEF Spec, ImplementsDelivery, D!DeliverySpec
=============================================================================
