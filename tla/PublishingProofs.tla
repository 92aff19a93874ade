--------------------------- MODULE PublishingProofs ---------------------------
(***************************************************************************)
(* Theorems about module Publishing: its type invariant, the exclusion of  *)
(* its claims, the bounds on submissions and attempts, and the truth of    *)
(* what it records as published, for any number of posts, targets,         *)
(* executions and faults.                                                  *)
(*                                                                         *)
(* None of these is inductive by itself.  The inductive invariant IInv, at *)
(* the end, is the conjunction of four parts proved one after the other:   *)
(* what an execution's step says of its claim (ClaimInv), what it says of  *)
(* the submissions so far (SubmissionsInv), of the attempts counted        *)
(* (AttemptsInv), and of the submission a row or an answer names (LiveInv).*)
(* Each part has the lemmas for the two moves that most actions end with,  *)
(* Goto and Exit, and one lemma with a step for every action.              *)
(***************************************************************************)
EXTENDS Publishing, FiniteSetTheorems, TLAPS

\* The code a worker is in follows from the step it is at, and only TikTok
\* targets are reconciled.
Placed(w) ==
    /\ target[w] = NoTarget <=> pc[w] = "idle"
    /\ pc[w] = "idle" => path[w] = "none"
    /\ pc[w] \in {"read"} \cup PreCommit \cup Catching => path[w] = "try"
    /\ pc[w] \in Released => path[w] = "catch"
    /\ pc[w] \in Finalizing => path[w] \in {"try", "catch", "reconcile"}
    /\ pc[w] \in Reconciling => path[w] = "reconcile"
    /\ pc[w] \in Attaching => path[w] = "attach"
    /\ path[w] = "reconcile" => target[w] \in TikTok

WorkersPlaced == \A w \in Workers : Placed(w)

\* The worker is the owner of the target.
Holds(w, t) == Owns(w) /\ target[w] = t

\* The claim of an owner is in force: no other pass can list or take the target.
\* For Instagram it lasts, fresh, until the commit or the release; a database
\* error after the commit reaches the catch block with the target PUBLISHED.
\* For TikTok the reconciliation may resolve the target under its owner.
Claimed(w) ==
    LET t == target[w] IN
      /\ status[t] \notin {"ABSENT", "PENDING"} /\ claimedAt[t] # "stale"
      /\ pc[w] \in Finalizing => claimedAt[t] = "none"
      /\ t \in Instagram =>
          /\ pc[w] \in PreCommit =>
                status[t] = "PUBLISHING" /\ claimedAt[t] = "fresh"
          /\ pc[w] \in Finalizing => status[t] = "PUBLISHED"
          /\ pc[w] \in Catching =>
                \/ status[t] = "PUBLISHING" /\ claimedAt[t] = "fresh"
                \/ status[t] = "PUBLISHED"
OwnersClaim == \A w \in Workers : Owns(w) => Claimed(w)

ClaimInv == TypeOK /\ WorkersPlaced /\ ClaimExclusion /\ OwnersClaim

\* What Instagram accepted beyond the faults so far: one submission at most, and
\* that one only if the target is PUBLISHED or about to be committed.  Whoever is
\* in a catch block before its release has paid for its submission with a fault.
SubmissionsInv ==
    \A t \in Instagram :
        /\ Len(subs[t]) <= 1 + Faults
        /\ \/ status[t] = "PUBLISHED"
           \/ \E w \in Workers : pc[w] = "commit" /\ target[w] = t
           \/ Len(subs[t]) <= Faults
        /\ \A w \in Workers : pc[w] \in Catching /\ target[w] = t =>
               Len(subs[t]) <= Faults

\* The attempts counted, where e of them were granted by something outside this
\* module.  A target that may be claimed has an attempt left; one that is being
\* published has too, unless its owner is at its last, or was killed.  What an
\* owner read before its release is still the number of attempts.
AttemptsInv(e) ==
    \A t \in Targets :
        /\ attempts[t] <= MaxAttempts + crashes + e
        /\ status[t] \in {"ABSENT", "PENDING"} => attempts[t] < MaxAttempts + crashes + e
        /\ status[t] = "PUBLISHING" /\ claimedAt[t] # "none" =>
              \/ attempts[t] < MaxAttempts + crashes + e
              \/ \E w \in Workers : Holds(w, t)
        /\ t \in Instagram /\ status[t] = "FAILED" => attempts[t] >= MaxAttempts
        /\ \A w \in Workers : pc[w] = "release" /\ target[w] = t =>
              count[w] = attempts[t]

\* The submission an execution, or the row, speaks of.
Pointing == {"commit", "poll", "confirm", "confirmWrite"}

\* The submission a worker is about exists, and is live where the worker is about
\* to record that it is; a positive count of published targets has a live target
\* behind it, although it was read a statement earlier.
Shown(w) ==
    /\ pc[w] \in Pointing => sub[w] \in DOMAIN subs[target[w]]
    /\ pc[w] = "commit" /\ target[w] \in Instagram => Live(target[w])
    /\ pc[w] \in {"confirm", "confirmWrite"} => Live(target[w])
    /\ pc[w] = "settle" /\ count[w] > 0 => \E t \in TargetsOf(PostAt(w)) : Live(t)

LiveInv ==
    /\ PublishedIsLive
    /\ PostPublishedIsLive
    /\ \A t \in Targets : provider[t] \in {0} \cup DOMAIN subs[t]
    /\ \A w \in Workers : Shown(w)

\* The counts of finalizeIfComplete and of the bounce are numbers.
LEMMA CountIsNat ==
    ASSUME NEW p, NEW S
    PROVE  CountIn(p, S) \in Nat
BY TargetsAssumption, FS_Subset, FS_CardinalityType DEF CountIn, TargetsOf

\* The first rows and the idle executions have their types.
LEMMA InitType == Init => TypeOK
BY TargetsAssumption, LimitsAssumption
   DEF Init, InitialPosts, TypeOK, PostStatus, TargetStatus, ClaimAge, Steps, Paths

\* The two halves of TypeOK: the progress of the executions, and the rest.
RunType ==
    /\ pc \in [Workers -> Steps]
    /\ target \in [Workers -> Targets \cup {NoTarget}]
    /\ path \in [Workers -> Paths]
    /\ media \in [Workers -> BOOLEAN]
    /\ sub \in [Workers -> Nat]
    /\ count \in [Workers -> Nat]
    /\ late \in [Workers -> BOOLEAN]

WorldType ==
    /\ post \in [Posts -> PostStatus]
    /\ publishedAt \in [Posts -> BOOLEAN]
    /\ due \in [Posts -> BOOLEAN]
    /\ old \in [Posts -> BOOLEAN]
    /\ blob \in [Assets -> BOOLEAN]
    /\ status \in [Targets -> TargetStatus]
    /\ claimedAt \in [Targets -> ClaimAge]
    /\ attempts \in [Targets -> Nat]
    /\ provider \in [Targets -> Nat]
    /\ public \in [Targets -> BOOLEAN]
    /\ subs \in [Targets -> Seq(SubState)]
    /\ handed \in SUBSET Targets
    /\ crashes \in Nat
    /\ dbFailures \in Nat
    /\ lostAcks \in Nat

\* They are TypeOK, taken apart.
LEMMA TypeHalves == TypeOK <=> RunType /\ WorldType
BY DEF TypeOK, RunType, WorldType

\* Going to a step, ending, or doing nothing keeps the types of the executions.
LEMMA GotoType ==
    ASSUME RunType, NEW w \in Workers, NEW l \in Steps, Goto(w, l)
    PROVE  RunType'
BY DEF RunType, Goto

LEMMA ExitType ==
    ASSUME RunType, NEW w \in Workers, Exit(w)
    PROVE  RunType'
BY DEF RunType, Exit, Begin, Steps, Paths

LEMMA SameRunType == RunType /\ UNCHANGED runVars => RunType'
BY DEF RunType, runVars

\* A step of an execution that touches no row keeps the types of the rows.
LEMMA SameWorldType == WorldType /\ UNCHANGED worldVars => WorldType'
BY DEF WorldType, worldVars, postVars, targetVars, faultVars

\* Every action keeps every type.
LEMMA NextType == TypeOK /\ WorkersPlaced /\ [Next]_vars => TypeOK'
<1> SUFFICES ASSUME RunType, WorldType, WorkersPlaced, [Next]_vars
             PROVE  RunType' /\ WorldType'
    BY DEF TypeOK, RunType, WorldType
<1>w. \A w \in Workers : pc[w] # "idle" => target[w] \in Targets
    BY TargetsAssumption DEF RunType, WorkersPlaced, Placed
<1>1. ASSUME NEW p \in Posts, BecomeDue(p)
      PROVE  RunType' /\ WorldType'
  <2>1. RunType'
        BY <1>1, SameRunType DEF BecomeDue, runVars
  <2>2. WorldType'
        BY <1>1 DEF BecomeDue, WorldType, postVars, targetVars, faultVars, SetPost
  <2> QED BY <2>1, <2>2
<1>2. ASSUME NEW p \in Posts, AgePost(p)
      PROVE  RunType' /\ WorldType'
  <2>1. RunType'
        BY <1>2, SameRunType DEF AgePost, runVars
  <2>2. WorldType'
        BY <1>2 DEF AgePost, WorldType, postVars, targetVars, faultVars, SetPost,
           TargetsOf
  <2> QED BY <2>1, <2>2
<1>3. ASSUME NEW t \in Targets, ExpireClaim(t)
      PROVE  RunType' /\ WorldType'
  <2>1. RunType'
        BY <1>3, SameRunType DEF ExpireClaim, runVars
  <2>2. WorldType'
        BY <1>3 DEF ExpireClaim, WorldType, postVars, targetVars, faultVars, SetPost,
           ClaimAge
  <2> QED BY <2>1, <2>2
<1>4. ASSUME NEW t \in Targets, SettleJob(t)
      PROVE  RunType' /\ WorldType'
  <2>1. RunType'
        BY <1>4, SameRunType DEF SettleJob, runVars
  <2>2. WorldType'
        <3> PICK k \in DOMAIN subs[t], s \in {"live", "failed"} :
            subs' = [subs EXCEPT ![t][k] = s]
        BY <1>4 DEF SettleJob
    <3> subs[t] \in Seq(SubState) /\ s \in SubState
        BY DEF WorldType, SubState
    <3> [subs[t] EXCEPT ![k] = s] \in Seq(SubState)
        OBVIOUS
    <3> subs' \in [Targets -> Seq(SubState)]
        BY DEF WorldType
    <3> QED
        BY <1>4 DEF SettleJob, WorldType, postVars, targetVars, faultVars
  <2> QED BY <2>1, <2>2
<1>5. ASSUME Sweep
      PROVE  RunType' /\ WorldType'
  <2>1. RunType'
        BY <1>5, SameRunType DEF Sweep, runVars
  <2>2. WorldType'
        BY <1>5 DEF Sweep, WorldType, postVars, targetVars, faultVars, SetPost
  <2> QED BY <2>1, <2>2
<1>6. ASSUME DropHanded
      PROVE  RunType' /\ WorldType'
  <2>1. RunType'
        BY <1>6, SameRunType DEF DropHanded, runVars
  <2>2. WorldType'
        BY <1>6 DEF DropHanded, WorldType, postVars, targetVars, faultVars, SetPost
  <2> QED BY <2>1, <2>2
<1>7. ASSUME NEW w \in Workers, FindBare(w)
      PROVE  RunType' /\ WorldType'
  <2>1. RunType'
        BY <1>7 DEF FindBare, Begin, RunType, WorldType, Steps, Paths, Attaching
  <2>2. WorldType'
        BY <1>7, SameWorldType DEF FindBare
  <2> QED BY <2>1, <2>2
<1>8. ASSUME NEW w \in Workers, Attach(w)
      PROVE  RunType' /\ WorldType'
  <2>1. RunType'
        BY <1>8, GotoType, ExitType DEF Attach, Steps, Attaching
  <2>2. WorldType'
        BY <1>8 DEF Attach, WorldType, postVars, targetVars, faultVars, SetPost,
           TargetStatus, TargetsOf
  <2> QED BY <2>1, <2>2
<1>9. ASSUME NEW w \in Workers, FailBare(w)
      PROVE  RunType' /\ WorldType'
  <2>1. RunType'
        BY <1>9, GotoType, ExitType DEF FailBare, Steps
  <2>2. WorldType'
        BY <1>9 DEF FailBare, WorldType, postVars, targetVars, faultVars, SetPost,
           PostStatus
  <2> QED BY <2>1, <2>2
<1>10. ASSUME NEW w \in Workers, NEW t \in Targets, Read(w, t)
      PROVE  RunType' /\ WorldType'
  <2>1. RunType'
        <3> HasMedia(PostOf[t]) \in BOOLEAN
        BY DEF HasMedia
    <3> QED
        BY <1>10 DEF Read, Begin, RunType, Steps, Paths
  <2>2. WorldType'
        BY <1>10 DEF Read, WorldType, postVars, targetVars, faultVars, SetPost
  <2> QED BY <2>1, <2>2
<1>11. ASSUME NEW w \in Workers, Claim(w)
      PROVE  RunType' /\ WorldType'
  <2>1. RunType'
        BY <1>11, GotoType, ExitType DEF Claim, Steps, PreCommit
  <2>2. WorldType'
        <3> target[w] \in Targets
        BY <1>11, <1>w DEF Claim, At
    <3> attempts[target[w]] + 1 \in Nat
        BY DEF WorldType
    <3>1. status' \in [Targets -> TargetStatus] /\ claimedAt' \in [Targets -> ClaimAge]
        BY <1>11 DEF Claim, WorldType, TargetStatus, ClaimAge
    <3>2. attempts' \in [Targets -> Nat]
        BY <1>11 DEF Claim, WorldType
    <3> QED
        BY <1>11, <3>1, <3>2 DEF Claim, WorldType, postVars, faultVars
  <2> QED BY <2>1, <2>2
<1>12. ASSUME NEW w \in Workers, MarkPost(w)
      PROVE  RunType' /\ WorldType'
  <2>1. RunType'
        BY <1>12, GotoType, ExitType DEF MarkPost, Steps, PreCommit
  <2>2. WorldType'
        BY <1>12 DEF MarkPost, WorldType, postVars, targetVars, faultVars, SetPost,
           PostStatus
  <2> QED BY <2>1, <2>2
<1>13. ASSUME NEW w \in Workers, Preflight(w)
      PROVE  RunType' /\ WorldType'
  <2>1. RunType'
        BY <1>13, GotoType, ExitType DEF Preflight, Steps, PreCommit, Catching
  <2>2. WorldType'
        BY <1>13, SameWorldType DEF Preflight
  <2> QED BY <2>1, <2>2
<1>14. ASSUME NEW w \in Workers, RefreshAndRetry(w)
      PROVE  RunType' /\ WorldType'
  <2>1. RunType'
        BY <1>14, GotoType, ExitType DEF RefreshAndRetry, Steps, PreCommit
  <2>2. WorldType'
        BY <1>14, SameWorldType DEF RefreshAndRetry
  <2> QED BY <2>1, <2>2
<1>15. ASSUME NEW w \in Workers, CallPlatform(w)
      PROVE  RunType' /\ WorldType'
  <2>1. RunType'
        <3> target[w] \in Targets
        BY <1>15, <1>w DEF CallPlatform
    <3> Len(subs[target[w]]) + 1 \in Nat
        BY DEF WorldType
    <3>1. CASE Submit(w, "commit") \/ Submit(w, "catch")
        BY <3>1 DEF Submit, RunType, Steps, PreCommit, Catching
    <3>2. CASE Goto(w, "catch")
        BY <3>2, GotoType DEF Steps, Catching
    <3> QED BY <1>15, <3>1, <3>2 DEF CallPlatform
  <2>2. WorldType'
        <3> DEFINE t == target[w]
    <3> t \in Targets
        BY <1>15, <1>w DEF CallPlatform
    <3>1. ASSUME NEW s \in SubState PROVE Append(subs[t], s) \in Seq(SubState)
        BY DEF WorldType
    <3>2. (IF t \in TikTok THEN "processing" ELSE "live") \in SubState
        BY DEF SubState
    <3>3. subs' \in [Targets -> Seq(SubState)]
        BY <1>15, <3>1, <3>2 DEF CallPlatform, Submit, WorldType
    <3> QED
        BY <1>15, <3>3 DEF CallPlatform, WorldType, postVars, targetVars
  <2> QED BY <2>1, <2>2
<1>16. ASSUME NEW w \in Workers, Commit(w)
      PROVE  RunType' /\ WorldType'
  <2>1. RunType'
        BY <1>16, GotoType, ExitType DEF Commit, Steps, Finalizing
  <2>2. WorldType'
        <3> target[w] \in Targets /\ sub[w] \in Nat
        BY <1>16, <1>w DEF Commit, At, RunType
    <3>1. status' \in [Targets -> TargetStatus] /\ claimedAt' \in [Targets -> ClaimAge]
        BY <1>16 DEF Commit, WorldType, TargetStatus, ClaimAge
    <3>2. provider' \in [Targets -> Nat]
        BY <1>16 DEF Commit, WorldType
    <3>3. public' \in [Targets -> BOOLEAN]
        BY <1>16 DEF Commit, WorldType
    <3> QED
        BY <1>16, <3>1, <3>2, <3>3 DEF Commit, WorldType, postVars, faultVars
  <2> QED BY <2>1, <2>2
<1>17. ASSUME NEW w \in Workers, Notify(w)
      PROVE  RunType' /\ WorldType'
  <2>1. RunType'
        BY <1>17, GotoType, ExitType DEF Notify, Steps, Finalizing
  <2>2. WorldType'
        BY <1>17, SameWorldType DEF Notify
  <2> QED BY <2>1, <2>2
<1>18. ASSUME NEW w \in Workers, ReadAttempts(w)
      PROVE  RunType' /\ WorldType'
  <2>1. RunType'
        <3> attempts[target[w]] \in Nat
        BY <1>18, <1>w DEF ReadAttempts, At, WorldType
    <3> QED
        BY <1>18 DEF ReadAttempts, RunType, Steps, Catching
  <2>2. WorldType'
        BY <1>18, SameWorldType DEF ReadAttempts
  <2> QED BY <2>1, <2>2
<1>19. ASSUME NEW w \in Workers, Release(w)
      PROVE  RunType' /\ WorldType'
  <2>1. RunType'
        BY <1>19 DEF Release, ReleaseAs, RunType, WorldType, Steps, Paths, Released
  <2>2. WorldType'
        BY <1>19 DEF Release, ReleaseAs, WorldType, postVars, targetVars, faultVars,
           SetPost, TargetStatus, ClaimAge
  <2> QED BY <2>1, <2>2
<1>20. ASSUME NEW w \in Workers, GiveUp(w)
      PROVE  RunType' /\ WorldType'
  <2>1. RunType'
        BY <1>20, GotoType, ExitType DEF GiveUp, Steps, Finalizing
  <2>2. WorldType'
        BY <1>20, SameWorldType DEF GiveUp
  <2> QED BY <2>1, <2>2
<1>21. ASSUME NEW w \in Workers, CountPublished(w)
      PROVE  RunType' /\ WorldType'
  <2>1. RunType'
        BY <1>21, GotoType, ExitType DEF CountPublished, Steps, Released
  <2>2. WorldType'
        BY <1>21, SameWorldType DEF CountPublished
  <2> QED BY <2>1, <2>2
<1>22. ASSUME NEW w \in Workers, Revert(w)
      PROVE  RunType' /\ WorldType'
  <2>1. RunType'
        BY <1>22, GotoType, ExitType DEF Revert, Steps
  <2>2. WorldType'
        BY <1>22 DEF Revert, WorldType, postVars, targetVars, faultVars, SetPost,
           PostStatus
  <2> QED BY <2>1, <2>2
<1>23. ASSUME NEW w \in Workers, CountRemaining(w)
      PROVE  RunType' /\ WorldType'
  <2>1. RunType'
        BY <1>23, GotoType, ExitType DEF CountRemaining, Steps, Finalizing
  <2>2. WorldType'
        BY <1>23, SameWorldType DEF CountRemaining
  <2> QED BY <2>1, <2>2
<1>24. ASSUME NEW w \in Workers, Tally(w)
      PROVE  RunType' /\ WorldType'
  <2>1. RunType'
        BY <1>24, CountIsNat DEF Tally, RunType, WorldType, Steps, Paths, Finalizing
  <2>2. WorldType'
        BY <1>24, SameWorldType DEF Tally
  <2> QED BY <2>1, <2>2
<1>25. ASSUME NEW w \in Workers, Settle(w)
      PROVE  RunType' /\ WorldType'
  <2>1. RunType'
        BY <1>25, GotoType, ExitType DEF Settle, Steps, Finalizing
  <2>2. WorldType'
        BY <1>25 DEF Settle, WorldType, postVars, targetVars, faultVars, SetPost,
           PostStatus
  <2> QED BY <2>1, <2>2
<1>26. ASSUME NEW w \in Workers, CountFailed(w)
      PROVE  RunType' /\ WorldType'
  <2>1. RunType'
        BY <1>26, GotoType, ExitType DEF CountFailed, Steps, Finalizing
  <2>2. WorldType'
        BY <1>26, SameWorldType DEF CountFailed
  <2> QED BY <2>1, <2>2
<1>27. ASSUME NEW w \in Workers, Purge(w)
      PROVE  RunType' /\ WorldType'
  <2>1. RunType'
        BY <1>27, GotoType, ExitType DEF Purge, Steps
  <2>2. WorldType'
        BY <1>27 DEF Purge, WorldType, postVars, targetVars, faultVars, SetPost
  <2> QED BY <2>1, <2>2
<1>28. ASSUME NEW w \in Workers, NEW t \in Targets, Track(w, t)
      PROVE  RunType' /\ WorldType'
  <2>1. RunType'
        BY <1>28 DEF Track, Begin, RunType, WorldType, Steps, Paths, Reconciling
  <2>2. WorldType'
        BY <1>28, SameWorldType DEF Track
  <2> QED BY <2>1, <2>2
<1>29. ASSUME NEW w \in Workers, Poll(w)
      PROVE  RunType' /\ WorldType'
  <2>1. RunType'
        BY <1>29, GotoType, ExitType DEF Poll, Steps, Reconciling
  <2>2. WorldType'
        BY <1>29, SameWorldType DEF Poll
  <2> QED BY <2>1, <2>2
<1>30. ASSUME NEW w \in Workers, ConfirmRead(w)
      PROVE  RunType' /\ WorldType'
  <2>1. RunType'
        BY <1>30, GotoType, ExitType DEF ConfirmRead, Steps, Reconciling
  <2>2. WorldType'
        BY <1>30, SameWorldType DEF ConfirmRead
  <2> QED BY <2>1, <2>2
<1>31. ASSUME NEW w \in Workers, ConfirmWrite(w)
      PROVE  RunType' /\ WorldType'
  <2>1. RunType'
        BY <1>31, GotoType, ExitType DEF ConfirmWrite, Steps, Finalizing
  <2>2. WorldType'
        <3> target[w] \in Targets /\ sub[w] \in Nat
        BY <1>31, <1>w DEF ConfirmWrite, At, RunType
    <3>1. status' \in [Targets -> TargetStatus] /\ claimedAt' \in [Targets -> ClaimAge]
        BY <1>31 DEF ConfirmWrite, WorldType, TargetStatus, ClaimAge
    <3>2. provider' \in [Targets -> Nat]
        BY <1>31 DEF ConfirmWrite, WorldType
    <3>3. public' \in [Targets -> BOOLEAN]
        BY <1>31 DEF ConfirmWrite, WorldType
    <3> QED
        BY <1>31, <3>1, <3>2, <3>3 DEF ConfirmWrite, WorldType, postVars, faultVars
  <2> QED BY <2>1, <2>2
<1>32. ASSUME NEW w \in Workers, FailRead(w)
      PROVE  RunType' /\ WorldType'
  <2>1. RunType'
        BY <1>32, GotoType, ExitType DEF FailRead, Steps, Reconciling
  <2>2. WorldType'
        BY <1>32, SameWorldType DEF FailRead
  <2> QED BY <2>1, <2>2
<1>33. ASSUME NEW w \in Workers, FailWrite(w)
      PROVE  RunType' /\ WorldType'
  <2>1. RunType'
        BY <1>33, GotoType, ExitType DEF FailWrite, Steps, Finalizing
  <2>2. WorldType'
        BY <1>33 DEF FailWrite, WorldType, postVars, targetVars, faultVars, SetPost,
           TargetStatus, ClaimAge
  <2> QED BY <2>1, <2>2
<1>34. ASSUME NEW w \in Workers, Crash(w)
      PROVE  RunType' /\ WorldType'
  <2>1. RunType'
        BY <1>34, GotoType, ExitType DEF Crash, Steps
  <2>2. WorldType'
        BY <1>34 DEF Crash, WorldType, postVars, targetVars, faultVars, SetPost
  <2> QED BY <2>1, <2>2
<1>35. ASSUME NEW w \in Workers, DbFailure(w)
      PROVE  RunType' /\ WorldType'
  <2>1. RunType'
        BY <1>35, GotoType, ExitType DEF DbFailure, Steps, Catching
  <2>2. WorldType'
        BY <1>35 DEF DbFailure, WorldType, postVars, targetVars, faultVars, SetPost
  <2> QED BY <2>1, <2>2
<1>36. ASSUME UNCHANGED vars
      PROVE  RunType' /\ WorldType'
    BY <1>36 DEF vars, RunType, WorldType
<1>q. QED
    BY <1>1, <1>2, <1>3, <1>4, <1>5, <1>6, <1>7, <1>8, <1>9, <1>10, <1>11, <1>12,
       <1>13, <1>14, <1>15, <1>16, <1>17, <1>18, <1>19, <1>20, <1>21, <1>22, <1>23,
       <1>24, <1>25, <1>26, <1>27, <1>28, <1>29, <1>30, <1>31, <1>32, <1>33, <1>34,
       <1>35, <1>36 DEF Next, Step

\* Every action leaves its worker in the code its step belongs to.
LEMMA NextPlaced == RunType /\ WorkersPlaced /\ [Next]_vars => WorkersPlaced'
<1> SUFFICES ASSUME RunType, WorkersPlaced, [Next]_vars PROVE WorkersPlaced'
    OBVIOUS
<1> USE TargetsAssumption
<1>1. ASSUME NEW p \in Posts, BecomeDue(p) PROVE WorkersPlaced'
    BY <1>1 DEF BecomeDue, runVars, WorkersPlaced, Placed
<1>2. ASSUME NEW p \in Posts, AgePost(p) PROVE WorkersPlaced'
    BY <1>2 DEF AgePost, runVars, WorkersPlaced, Placed
<1>3. ASSUME NEW t \in Targets, ExpireClaim(t) PROVE WorkersPlaced'
    BY <1>3 DEF ExpireClaim, runVars, WorkersPlaced, Placed
<1>4. ASSUME NEW t \in Targets, SettleJob(t) PROVE WorkersPlaced'
    BY <1>4 DEF SettleJob, runVars, WorkersPlaced, Placed
<1>5. ASSUME Sweep PROVE WorkersPlaced'
    BY <1>5 DEF Sweep, runVars, WorkersPlaced, Placed
<1>6. ASSUME DropHanded PROVE WorkersPlaced'
    BY <1>6 DEF DropHanded, runVars, WorkersPlaced, Placed
<1>7. ASSUME NEW w \in Workers, FindBare(w) PROVE WorkersPlaced'
    BY <1>7 DEF FindBare, Begin, At, RunType, WorkersPlaced, Placed,
       PreCommit, Catching, Released, Finalizing, Reconciling, Attaching
<1>8. ASSUME NEW w \in Workers, Attach(w) PROVE WorkersPlaced'
    BY <1>8 DEF Attach, Goto, Exit, Begin, At, RunType, WorkersPlaced, Placed,
       PreCommit, Catching, Released, Finalizing, Reconciling, Attaching
<1>9. ASSUME NEW w \in Workers, FailBare(w) PROVE WorkersPlaced'
    BY <1>9 DEF FailBare, Goto, Exit, Begin, At, RunType, WorkersPlaced, Placed,
       PreCommit, Catching, Released, Finalizing, Reconciling, Attaching
<1>10. ASSUME NEW w \in Workers, NEW t \in Targets, Read(w, t) PROVE WorkersPlaced'
    BY <1>10 DEF Read, Begin, At, RunType, WorkersPlaced, Placed,
       PreCommit, Catching, Released, Finalizing, Reconciling, Attaching
<1>11. ASSUME NEW w \in Workers, Claim(w) PROVE WorkersPlaced'
    BY <1>11 DEF Claim, Goto, Exit, Begin, At, RunType, WorkersPlaced, Placed,
       PreCommit, Catching, Released, Finalizing, Reconciling, Attaching
<1>12. ASSUME NEW w \in Workers, MarkPost(w) PROVE WorkersPlaced'
    BY <1>12 DEF MarkPost, Goto, Exit, Begin, At, RunType, WorkersPlaced, Placed,
       PreCommit, Catching, Released, Finalizing, Reconciling, Attaching
<1>13. ASSUME NEW w \in Workers, Preflight(w) PROVE WorkersPlaced'
    BY <1>13 DEF Preflight, Goto, Exit, Begin, At, RunType, WorkersPlaced, Placed,
       PreCommit, Catching, Released, Finalizing, Reconciling, Attaching
<1>14. ASSUME NEW w \in Workers, RefreshAndRetry(w) PROVE WorkersPlaced'
    BY <1>14 DEF RefreshAndRetry, Goto, Exit, Begin, At, RunType, WorkersPlaced, Placed,
       PreCommit, Catching, Released, Finalizing, Reconciling, Attaching
<1>15. ASSUME NEW w \in Workers, CallPlatform(w) PROVE WorkersPlaced'
    BY <1>15 DEF CallPlatform, Submit, Goto, At, RunType, WorkersPlaced, Placed,
       PreCommit, Catching, Released, Finalizing, Reconciling, Attaching
<1>16. ASSUME NEW w \in Workers, Commit(w) PROVE WorkersPlaced'
    BY <1>16 DEF Commit, Goto, Exit, Begin, At, RunType, WorkersPlaced, Placed,
       PreCommit, Catching, Released, Finalizing, Reconciling, Attaching
<1>17. ASSUME NEW w \in Workers, Notify(w) PROVE WorkersPlaced'
    BY <1>17 DEF Notify, Goto, Exit, Begin, At, RunType, WorkersPlaced, Placed,
       PreCommit, Catching, Released, Finalizing, Reconciling, Attaching
<1>18. ASSUME NEW w \in Workers, ReadAttempts(w) PROVE WorkersPlaced'
    BY <1>18 DEF ReadAttempts, Goto, Exit, Begin, At, RunType, WorkersPlaced, Placed,
       PreCommit, Catching, Released, Finalizing, Reconciling, Attaching
<1>19. ASSUME NEW w \in Workers, Release(w) PROVE WorkersPlaced'
    BY <1>19 DEF Release, ReleaseAs, Goto, Exit, Begin, At, RunType, WorkersPlaced,
       Placed,
       PreCommit, Catching, Released, Finalizing, Reconciling, Attaching
<1>20. ASSUME NEW w \in Workers, GiveUp(w) PROVE WorkersPlaced'
    BY <1>20 DEF GiveUp, Goto, Exit, Begin, At, RunType, WorkersPlaced, Placed,
       PreCommit, Catching, Released, Finalizing, Reconciling, Attaching
<1>21. ASSUME NEW w \in Workers, CountPublished(w) PROVE WorkersPlaced'
    BY <1>21 DEF CountPublished, Goto, Exit, Begin, At, RunType, WorkersPlaced, Placed,
       PreCommit, Catching, Released, Finalizing, Reconciling, Attaching
<1>22. ASSUME NEW w \in Workers, Revert(w) PROVE WorkersPlaced'
    BY <1>22 DEF Revert, Goto, Exit, Begin, At, RunType, WorkersPlaced, Placed,
       PreCommit, Catching, Released, Finalizing, Reconciling, Attaching
<1>23. ASSUME NEW w \in Workers, CountRemaining(w) PROVE WorkersPlaced'
    BY <1>23 DEF CountRemaining, Goto, Exit, Begin, At, RunType, WorkersPlaced, Placed,
       PreCommit, Catching, Released, Finalizing, Reconciling, Attaching
<1>24. ASSUME NEW w \in Workers, Tally(w) PROVE WorkersPlaced'
    BY <1>24 DEF Tally, Goto, Exit, Begin, At, RunType, WorkersPlaced, Placed,
       PreCommit, Catching, Released, Finalizing, Reconciling, Attaching
<1>25. ASSUME NEW w \in Workers, Settle(w) PROVE WorkersPlaced'
    BY <1>25 DEF Settle, Goto, Exit, Begin, At, RunType, WorkersPlaced, Placed,
       PreCommit, Catching, Released, Finalizing, Reconciling, Attaching
<1>26. ASSUME NEW w \in Workers, CountFailed(w) PROVE WorkersPlaced'
    BY <1>26 DEF CountFailed, Goto, Exit, Begin, At, RunType, WorkersPlaced, Placed,
       PreCommit, Catching, Released, Finalizing, Reconciling, Attaching
<1>27. ASSUME NEW w \in Workers, Purge(w) PROVE WorkersPlaced'
    BY <1>27 DEF Purge, Goto, Exit, Begin, At, RunType, WorkersPlaced, Placed,
       PreCommit, Catching, Released, Finalizing, Reconciling, Attaching
<1>28. ASSUME NEW w \in Workers, NEW t \in Targets, Track(w, t) PROVE WorkersPlaced'
    BY <1>28 DEF Track, Begin, Trackable, At, RunType, WorkersPlaced, Placed,
       PreCommit, Catching, Released, Finalizing, Reconciling, Attaching
<1>29. ASSUME NEW w \in Workers, Poll(w) PROVE WorkersPlaced'
    BY <1>29 DEF Poll, Goto, Exit, Begin, At, RunType, WorkersPlaced, Placed,
       PreCommit, Catching, Released, Finalizing, Reconciling, Attaching
<1>30. ASSUME NEW w \in Workers, ConfirmRead(w) PROVE WorkersPlaced'
    BY <1>30 DEF ConfirmRead, Goto, Exit, Begin, At, RunType, WorkersPlaced, Placed,
       PreCommit, Catching, Released, Finalizing, Reconciling, Attaching
<1>31. ASSUME NEW w \in Workers, ConfirmWrite(w) PROVE WorkersPlaced'
    BY <1>31 DEF ConfirmWrite, Goto, Exit, Begin, At, RunType, WorkersPlaced, Placed,
       PreCommit, Catching, Released, Finalizing, Reconciling, Attaching
<1>32. ASSUME NEW w \in Workers, FailRead(w) PROVE WorkersPlaced'
    BY <1>32 DEF FailRead, Goto, Exit, Begin, At, RunType, WorkersPlaced, Placed,
       PreCommit, Catching, Released, Finalizing, Reconciling, Attaching
<1>33. ASSUME NEW w \in Workers, FailWrite(w) PROVE WorkersPlaced'
    BY <1>33 DEF FailWrite, Goto, Exit, Begin, At, RunType, WorkersPlaced, Placed,
       PreCommit, Catching, Released, Finalizing, Reconciling, Attaching
<1>34. ASSUME NEW w \in Workers, Crash(w) PROVE WorkersPlaced'
    BY <1>34 DEF Crash, Goto, Exit, Begin, At, RunType, WorkersPlaced, Placed,
       PreCommit, Catching, Released, Finalizing, Reconciling, Attaching
<1>35. ASSUME NEW w \in Workers, DbFailure(w) PROVE WorkersPlaced'
    BY <1>35 DEF DbFailure, Goto, Exit, Begin, At, RunType, WorkersPlaced, Placed,
       PreCommit, Catching, Released, Finalizing, Reconciling, Attaching
<1>36. ASSUME UNCHANGED vars PROVE WorkersPlaced'
    BY <1>36 DEF vars, WorkersPlaced, Placed
<1> QED
    BY <1>1, <1>2, <1>3, <1>4, <1>5, <1>6, <1>7, <1>8, <1>9, <1>10, <1>11, <1>12,
       <1>13, <1>14, <1>15, <1>16, <1>17, <1>18, <1>19, <1>20, <1>21, <1>22, <1>23,
       <1>24, <1>25, <1>26, <1>27, <1>28, <1>29, <1>30, <1>31, <1>32, <1>33, <1>34,
       <1>35, <1>36 DEF Next, Step

\* The moves that keep what a worker's step says of its claim.
Follows(k, l) ==
    /\ k \notin {"idle", "read"} /\ l \in Steps
    /\ k \in PreCommit  => l \in PreCommit \cup {"catch"}
    /\ k \in Catching   => l \in Catching
    /\ k \in Finalizing => l \in Finalizing \cup {"catch"}

\* A move that touches no claim keeps what the claims promise ...
LEMMA GotoClaim ==
    ASSUME RunType, WorkersPlaced, ClaimExclusion, OwnersClaim,
           NEW w \in Workers, NEW l, Follows(pc[w], l), Goto(w, l),
           UNCHANGED <<status, claimedAt>>
    PROVE  ClaimExclusion' /\ OwnersClaim'
<1>1. \A v \in Workers : Owns(v)' => Owns(v)
    BY DEF Owns, Goto, Follows, RunType, WorkersPlaced, Placed, Steps, PreCommit,
       Catching, Released, Finalizing, Reconciling, Attaching
<1>2. ClaimExclusion'
    BY <1>1 DEF ClaimExclusion, ExclusiveOn, Goto
<1>3. OwnersClaim'
    BY <1>1 DEF OwnersClaim, Claimed, Goto, Follows, RunType, Owns, PreCommit, Catching,
       Finalizing
<1> QED BY <1>2, <1>3

\* ... and so does the end of an execution, which owns nothing afterwards.
LEMMA ExitClaim ==
    ASSUME RunType, ClaimExclusion, OwnersClaim, NEW w \in Workers, Exit(w),
           UNCHANGED <<status, claimedAt>>
    PROVE  ClaimExclusion' /\ OwnersClaim'
<1>1. \A v \in Workers : Owns(v)' => Owns(v) /\ v # w
    BY DEF Owns, Exit, Begin, RunType
<1> QED
    BY <1>1 DEF ClaimExclusion, ExclusiveOn, OwnersClaim, Claimed, Exit, Begin, RunType

\* Every action keeps the claims exclusive and in force.  The case that matters
\* is Claim: the UPDATE succeeds only on a row that is PENDING or stale, and an
\* owner's row is neither.
LEMMA NextClaim ==
    TypeOK /\ WorkersPlaced /\ ClaimExclusion /\ OwnersClaim /\ [Next]_vars
        => ClaimExclusion' /\ OwnersClaim'
<1> SUFFICES ASSUME RunType, WorldType, WorkersPlaced, ClaimExclusion, OwnersClaim,
                    [Next]_vars
             PROVE  ClaimExclusion' /\ OwnersClaim'
    BY TypeHalves
<1> USE TargetsAssumption
<1>o. \A v \in Workers : Owns(v) => target[v] \in Targets
    BY DEF Owns, RunType, WorkersPlaced, Placed, PreCommit, Catching, Finalizing
<1>1. ASSUME NEW p \in Posts, BecomeDue(p) PROVE ClaimExclusion' /\ OwnersClaim'
    BY <1>1 DEF BecomeDue, runVars, targetVars, ClaimExclusion, ExclusiveOn,
       OwnersClaim, Claimed, Owns
<1>2. ASSUME NEW p \in Posts, AgePost(p) PROVE ClaimExclusion' /\ OwnersClaim'
    BY <1>2 DEF AgePost, runVars, targetVars, ClaimExclusion, ExclusiveOn,
       OwnersClaim, Claimed, Owns
<1>3. ASSUME NEW t \in Targets, ExpireClaim(t) PROVE ClaimExclusion' /\ OwnersClaim'
    BY <1>3 DEF ExpireClaim, runVars, targetVars, ClaimExclusion, ExclusiveOn,
       OwnersClaim, Claimed, Owns
<1>4. ASSUME NEW t \in Targets, SettleJob(t) PROVE ClaimExclusion' /\ OwnersClaim'
    BY <1>4 DEF SettleJob, runVars, targetVars, ClaimExclusion, ExclusiveOn,
       OwnersClaim, Claimed, Owns
<1>5. ASSUME Sweep PROVE ClaimExclusion' /\ OwnersClaim'
    BY <1>5 DEF Sweep, runVars, targetVars, ClaimExclusion, ExclusiveOn, OwnersClaim,
       Claimed,
       Owns
<1>6. ASSUME DropHanded PROVE ClaimExclusion' /\ OwnersClaim'
    BY <1>6 DEF DropHanded, runVars, targetVars, ClaimExclusion, ExclusiveOn,
       OwnersClaim, Claimed, Owns
<1>7. ASSUME NEW w \in Workers, FindBare(w) PROVE ClaimExclusion' /\ OwnersClaim'
    BY <1>7 DEF FindBare, Begin, At, worldVars, targetVars, Instagram, Rows, TargetsOf,
       RunType, WorldType, WorkersPlaced, Placed, ClaimExclusion, ExclusiveOn,
       OwnersClaim, Claimed, Owns,
       PreCommit, Catching, Finalizing, Released, Reconciling, Attaching
<1>8. ASSUME NEW w \in Workers, Attach(w) PROVE ClaimExclusion' /\ OwnersClaim'
  <2>1. \A v \in Workers : Owns(v)' => Owns(v) /\ target'[v] = target[v] /\ pc'[v] = pc[v]
      BY <1>8 DEF Attach, At, Goto, Exit, Begin, Owns, RunType, PreCommit, Catching,
         Finalizing
  <2>2. \A t \in Targets : status[t] # "ABSENT" => status'[t] = status[t]
      BY <1>8 DEF Attach, Rows, TargetsOf, At, WorldType
  <2>3. ClaimExclusion'
      BY <2>1 DEF ClaimExclusion, ExclusiveOn
  <2>4. UNCHANGED claimedAt
      BY <1>8 DEF Attach
  <2>5. OwnersClaim'
      BY <1>o, <2>1, <2>2, <2>4 DEF OwnersClaim, Claimed
  <2> QED BY <2>3, <2>5
<1>9. ASSUME NEW w \in Workers, FailBare(w) PROVE ClaimExclusion' /\ OwnersClaim'
    BY <1>9, GotoClaim, ExitClaim DEF FailBare, At, Follows, worldVars, targetVars,
       Steps,
       PreCommit, Catching, Finalizing, Released, Reconciling, Attaching
<1>10. ASSUME NEW w \in Workers, NEW t \in Targets, Read(w, t)
       PROVE ClaimExclusion' /\ OwnersClaim'
  <2>1. \A v \in Workers :
          Owns(v)' => Owns(v) /\ target'[v] = target[v] /\ pc'[v] = pc[v]
      BY <1>10 DEF Read, Begin, Owns, RunType, PreCommit, Catching, Finalizing
  <2>2. UNCHANGED <<status, claimedAt>>
      BY <1>10 DEF Read, targetVars
  <2>3. ClaimExclusion'
      BY <2>1 DEF ClaimExclusion, ExclusiveOn
  <2>4. OwnersClaim'
      BY <2>1, <2>2 DEF OwnersClaim, Claimed
  <2> QED BY <2>3, <2>4
<1>11. ASSUME NEW w \in Workers, Claim(w) PROVE ClaimExclusion' /\ OwnersClaim'
  <2> DEFINE t == target[w]
  <2>t. t \in Targets
      BY <1>11 DEF Claim, At, RunType, WorkersPlaced, Placed
  <2>1. CASE ~Claimable(t)
      BY <1>11, <2>1, ExitClaim DEF Claim
  <2>2. CASE Claimable(t)
    <3>1. \A v \in Workers : Owns(v) => target[v] # t
        BY <2>2 DEF OwnersClaim, Claimed, Claimable, StaleClaim, Owns
    <3>2. \A v \in Workers \ {w} : pc'[v] = pc[v] /\ (Owns(v)' <=> Owns(v))
        BY <1>11, <2>2 DEF Claim, Goto, Owns, RunType
    <3>3. /\ UNCHANGED target /\ pc'[w] = "claimed"
          /\ status'[t] = "PUBLISHING" /\ claimedAt'[t] = "fresh"
          /\ \A u \in Targets \ {t} : status'[u] = status[u] /\ claimedAt'[u] = claimedAt[u]
        BY <1>11, <2>2, <2>t DEF Claim, Goto, RunType, WorldType
    <3>4. ClaimExclusion'
        BY <3>1, <3>2, <3>3 DEF ClaimExclusion, ExclusiveOn
    <3>5. OwnersClaim'
        BY <1>o, <3>1, <3>2, <3>3 DEF OwnersClaim, Claimed, PreCommit, Catching, Finalizing,
           Instagram
    <3> QED BY <3>4, <3>5
  <2> QED BY <2>1, <2>2
<1>12. ASSUME NEW w \in Workers, MarkPost(w) PROVE ClaimExclusion' /\ OwnersClaim'
    BY <1>12, GotoClaim, ExitClaim DEF MarkPost, At, Follows, worldVars, targetVars,
       Steps,
       PreCommit, Catching, Finalizing, Released, Reconciling, Attaching
<1>13. ASSUME NEW w \in Workers, Preflight(w) PROVE ClaimExclusion' /\ OwnersClaim'
    BY <1>13, GotoClaim, ExitClaim DEF Preflight, At, Follows, worldVars, targetVars,
       Steps,
       PreCommit, Catching, Finalizing, Released, Reconciling, Attaching
<1>14. ASSUME NEW w \in Workers, RefreshAndRetry(w)
       PROVE ClaimExclusion' /\ OwnersClaim'
    BY <1>14, GotoClaim, ExitClaim DEF RefreshAndRetry, At, Follows, worldVars,
       targetVars, Steps,
       PreCommit, Catching, Finalizing, Released, Reconciling, Attaching
<1>15. ASSUME NEW w \in Workers, CallPlatform(w) PROVE ClaimExclusion' /\ OwnersClaim'
  <2>1. CASE Submit(w, "commit") \/ Submit(w, "catch")
    <3>1. \A v \in Workers : Owns(v)' => Owns(v)
        BY <1>15, <2>1 DEF CallPlatform, Submit, RunType, WorkersPlaced, Placed, Owns,
           PreCommit, Catching
    <3>2. UNCHANGED <<target, status, claimedAt>>
        BY <1>15, <2>1 DEF CallPlatform, Submit, targetVars
    <3>3. pc[w] \in PreCommit /\ pc'[w] \in PreCommit \cup Catching
          /\ \A v \in Workers \ {w} : pc'[v] = pc[v]
        BY <1>15, <2>1 DEF CallPlatform, Submit, RunType, PreCommit, Catching
    <3>4. ClaimExclusion'
        BY <3>1, <3>2 DEF ClaimExclusion, ExclusiveOn
    <3>5. OwnersClaim'
        BY <3>1, <3>2, <3>3 DEF OwnersClaim, Claimed, Owns, PreCommit, Catching, Finalizing
    <3> QED BY <3>4, <3>5
  <2>2. CASE Goto(w, "catch")
    <3>1. pc[w] \in {"call", "recall"} /\ UNCHANGED <<status, claimedAt>>
        BY <1>15, <2>2 DEF CallPlatform, targetVars
    <3>2. Follows(pc[w], "catch")
        BY <3>1 DEF Follows, Steps, PreCommit, Catching, Finalizing
    <3> QED BY <2>2, <3>1, <3>2, GotoClaim
  <2> QED BY <1>15, <2>1, <2>2 DEF CallPlatform
<1>16. ASSUME NEW w \in Workers, Commit(w) PROVE ClaimExclusion' /\ OwnersClaim'
  <2> DEFINE t == target[w]
  <2>1. t \in Targets /\ Owns(w)
      BY <1>16, <1>o DEF Commit, At, Owns, WorkersPlaced, Placed, PreCommit
  <2>2. /\ UNCHANGED <<target, path>> /\ pc' = [pc EXCEPT ![w] = "notify"]
        /\ status'[t] = IF t \in TikTok THEN "PUBLISHING" ELSE "PUBLISHED"
        /\ claimedAt'[t] = "none"
        /\ \A u \in Targets \ {t} : status'[u] = status[u] /\ claimedAt'[u] = claimedAt[u]
      BY <1>16, <2>1 DEF Commit, Goto, WorldType
  <2>3. \A v \in Workers : Owns(v)' => Owns(v)
      BY <1>16, <2>1, <2>2 DEF Commit, At, Owns, RunType
  <2>4. ClaimExclusion'
      BY <2>2, <2>3 DEF ClaimExclusion, ExclusiveOn
  <2>5. \A v \in Workers \ {w} : Owns(v) => target[v] # t
      BY <2>1 DEF ClaimExclusion, ExclusiveOn
  <2>6. ASSUME NEW v \in Workers, v # w, Owns(v)'
        PROVE  /\ Owns(v) /\ target[v] \in Targets /\ pc'[v] = pc[v]
               /\ status'[target[v]] = status[target[v]]
               /\ claimedAt'[target[v]] = claimedAt[target[v]]
      BY <1>o, <2>2, <2>3, <2>5, <2>6 DEF RunType
  <2>7. pc'[w] = "notify"
      BY <2>2 DEF RunType
  <2>8. ASSUME NEW v \in Workers, Owns(v)' PROVE Claimed(v)'
    <3>1. CASE v # w
        BY <2>2, <2>6, <2>8, <3>1 DEF OwnersClaim, Claimed
    <3>2. CASE v = w
      <4>1. target'[w] = t /\ pc'[w] \notin PreCommit \cup Catching
          BY <2>2, <2>7 DEF PreCommit, Catching
      <4> QED BY <2>1, <2>2, <3>2, <4>1 DEF Claimed, Instagram
    <3> QED BY <3>1, <3>2
  <2>9. OwnersClaim'
      BY <2>8 DEF OwnersClaim
  <2> QED BY <2>4, <2>9
<1>17. ASSUME NEW w \in Workers, Notify(w) PROVE ClaimExclusion' /\ OwnersClaim'
    BY <1>17, GotoClaim, ExitClaim DEF Notify, At, Follows, worldVars, targetVars,
       Steps,
       PreCommit, Catching, Finalizing, Released, Reconciling, Attaching
<1>18. ASSUME NEW w \in Workers, ReadAttempts(w) PROVE ClaimExclusion' /\ OwnersClaim'
  <2>1. /\ UNCHANGED <<target, path, status, claimedAt>>
        /\ pc[w] = "catch" /\ pc' = [pc EXCEPT ![w] = "release"]
      BY <1>18 DEF ReadAttempts, At, worldVars, targetVars
  <2>2. \A v \in Workers : Owns(v)' => Owns(v)
      BY <2>1 DEF Owns, RunType, Catching
  <2>3. ClaimExclusion'
      BY <2>1, <2>2 DEF ClaimExclusion, ExclusiveOn
  <2>4. OwnersClaim'
      BY <2>1, <2>2 DEF OwnersClaim, Claimed, RunType, PreCommit, Catching, Finalizing
  <2> QED BY <2>3, <2>4
<1>19. ASSUME NEW w \in Workers, Release(w) PROVE ClaimExclusion' /\ OwnersClaim'
    BY <1>19 DEF Release, ReleaseAs, Goto, Exit, Begin, At, targetVars, Instagram,
       Rows, TargetsOf,
       RunType, WorldType, WorkersPlaced, Placed, ClaimExclusion, ExclusiveOn,
       OwnersClaim, Claimed, Owns,
       PreCommit, Catching, Finalizing, Released, Reconciling, Attaching
<1>20. ASSUME NEW w \in Workers, GiveUp(w) PROVE ClaimExclusion' /\ OwnersClaim'
    BY <1>20, GotoClaim, ExitClaim DEF GiveUp, At, Follows, worldVars, targetVars,
       Steps,
       PreCommit, Catching, Finalizing, Released, Reconciling, Attaching
<1>21. ASSUME NEW w \in Workers, CountPublished(w) PROVE ClaimExclusion' /\ OwnersClaim'
    BY <1>21, GotoClaim, ExitClaim DEF CountPublished, At, Follows, worldVars,
       targetVars, Steps,
       PreCommit, Catching, Finalizing, Released, Reconciling, Attaching
<1>22. ASSUME NEW w \in Workers, Revert(w) PROVE ClaimExclusion' /\ OwnersClaim'
    BY <1>22, GotoClaim, ExitClaim DEF Revert, At, Follows, worldVars, targetVars,
       Steps,
       PreCommit, Catching, Finalizing, Released, Reconciling, Attaching
<1>23. ASSUME NEW w \in Workers, CountRemaining(w) PROVE ClaimExclusion' /\ OwnersClaim'
    BY <1>23, GotoClaim, ExitClaim DEF CountRemaining, At, Follows, worldVars,
       targetVars, Steps,
       PreCommit, Catching, Finalizing, Released, Reconciling, Attaching
<1>24. ASSUME NEW w \in Workers, Tally(w) PROVE ClaimExclusion' /\ OwnersClaim'
    BY <1>24 DEF Tally, Goto, Exit, Begin, At, worldVars, targetVars, Instagram, Rows,
       TargetsOf,
       RunType, WorldType, WorkersPlaced, Placed, ClaimExclusion, ExclusiveOn,
       OwnersClaim, Claimed, Owns,
       PreCommit, Catching, Finalizing, Released, Reconciling, Attaching
<1>25. ASSUME NEW w \in Workers, Settle(w) PROVE ClaimExclusion' /\ OwnersClaim'
    BY <1>25, GotoClaim, ExitClaim DEF Settle, At, Follows, worldVars, targetVars,
       Steps,
       PreCommit, Catching, Finalizing, Released, Reconciling, Attaching
<1>26. ASSUME NEW w \in Workers, CountFailed(w) PROVE ClaimExclusion' /\ OwnersClaim'
    BY <1>26, GotoClaim, ExitClaim DEF CountFailed, At, Follows, worldVars,
       targetVars, Steps,
       PreCommit, Catching, Finalizing, Released, Reconciling, Attaching
<1>27. ASSUME NEW w \in Workers, Purge(w) PROVE ClaimExclusion' /\ OwnersClaim'
    BY <1>27, GotoClaim, ExitClaim DEF Purge, At, Follows, worldVars, targetVars, Steps,
       PreCommit, Catching, Finalizing, Released, Reconciling, Attaching
<1>28. ASSUME NEW w \in Workers, NEW t \in Targets, Track(w, t)
       PROVE ClaimExclusion' /\ OwnersClaim'
    BY <1>28 DEF Track, Begin, At, worldVars, targetVars, Instagram, Rows, TargetsOf,
       RunType, WorldType, WorkersPlaced, Placed, ClaimExclusion, ExclusiveOn,
       OwnersClaim, Claimed, Owns,
       PreCommit, Catching, Finalizing, Released, Reconciling, Attaching
<1>29. ASSUME NEW w \in Workers, Poll(w) PROVE ClaimExclusion' /\ OwnersClaim'
    BY <1>29, GotoClaim, ExitClaim DEF Poll, At, Follows, worldVars, targetVars, Steps,
       PreCommit, Catching, Finalizing, Released, Reconciling, Attaching
<1>30. ASSUME NEW w \in Workers, ConfirmRead(w) PROVE ClaimExclusion' /\ OwnersClaim'
    BY <1>30, GotoClaim, ExitClaim DEF ConfirmRead, At, Follows, worldVars,
       targetVars, Steps,
       PreCommit, Catching, Finalizing, Released, Reconciling, Attaching
<1>31. ASSUME NEW w \in Workers, ConfirmWrite(w) PROVE ClaimExclusion' /\ OwnersClaim'
  <2> DEFINE t == target[w]
  <2>1. t \in TikTok /\ path[w] = "reconcile"
      BY <1>31 DEF ConfirmWrite, At, Owns, RunType, WorkersPlaced, Placed, PreCommit,
         Catching, Finalizing, Released, Reconciling, Attaching
  <2>2. \A v \in Workers :
          Owns(v)' => Owns(v) /\ target'[v] = target[v] /\ pc'[v] = pc[v]
      BY <1>31, <2>1 DEF ConfirmWrite, Goto, Exit, Begin, Owns, RunType, PreCommit, Catching,
         Finalizing
  <2>3. \A v \in Workers : Owns(v) /\ target[v] = t => t \notin Instagram
      BY <2>1, <1>o DEF Instagram
  <2>4. \A s \in Targets : \/ status'[s] = status[s] /\ claimedAt'[s] = claimedAt[s]
                          \/ /\ s = t /\ claimedAt'[s] = "none"
                             /\ status'[s] \notin {"ABSENT", "PENDING"}
      BY <1>31 DEF ConfirmWrite, WorldType
  <2>5. ClaimExclusion'
      BY <2>2 DEF ClaimExclusion, ExclusiveOn
  <2>6. OwnersClaim'
      BY <1>o, <2>2, <2>3, <2>4 DEF OwnersClaim, Claimed
  <2> QED BY <2>5, <2>6
<1>32. ASSUME NEW w \in Workers, FailRead(w) PROVE ClaimExclusion' /\ OwnersClaim'
    BY <1>32, GotoClaim, ExitClaim DEF FailRead, At, Follows, worldVars, targetVars,
       Steps,
       PreCommit, Catching, Finalizing, Released, Reconciling, Attaching
<1>33. ASSUME NEW w \in Workers, FailWrite(w) PROVE ClaimExclusion' /\ OwnersClaim'
  <2> DEFINE t == target[w]
  <2>1. t \in TikTok /\ path[w] = "reconcile"
      BY <1>33 DEF FailWrite, At, Owns, RunType, WorkersPlaced, Placed, PreCommit,
         Catching, Finalizing, Released, Reconciling, Attaching
  <2>2. \A v \in Workers :
          Owns(v)' => Owns(v) /\ target'[v] = target[v] /\ pc'[v] = pc[v]
      BY <1>33, <2>1 DEF FailWrite, Goto, Exit, Begin, Owns, RunType, PreCommit, Catching,
         Finalizing
  <2>3. \A v \in Workers : Owns(v) /\ target[v] = t => t \notin Instagram
      BY <2>1, <1>o DEF Instagram
  <2>4. \A s \in Targets : \/ status'[s] = status[s] /\ claimedAt'[s] = claimedAt[s]
                          \/ /\ s = t /\ claimedAt'[s] = "none"
                             /\ status'[s] \notin {"ABSENT", "PENDING"}
      BY <1>33 DEF FailWrite, WorldType
  <2>5. ClaimExclusion'
      BY <2>2 DEF ClaimExclusion, ExclusiveOn
  <2>6. OwnersClaim'
      BY <1>o, <2>2, <2>3, <2>4 DEF OwnersClaim, Claimed
  <2> QED BY <2>5, <2>6
<1>34. ASSUME NEW w \in Workers, Crash(w) PROVE ClaimExclusion' /\ OwnersClaim'
    BY <1>34, GotoClaim, ExitClaim DEF Crash, At, Follows, worldVars, targetVars, Steps,
       PreCommit, Catching, Finalizing, Released, Reconciling, Attaching
<1>35. ASSUME NEW w \in Workers, DbFailure(w) PROVE ClaimExclusion' /\ OwnersClaim'
    BY <1>35, GotoClaim, ExitClaim DEF DbFailure, At, Follows, worldVars, targetVars,
       Steps,
       PreCommit, Catching, Finalizing, Released, Reconciling, Attaching
<1>36. ASSUME UNCHANGED vars PROVE ClaimExclusion' /\ OwnersClaim'
    BY <1>36 DEF vars, ClaimExclusion, ExclusiveOn, OwnersClaim, Claimed, Owns
<1> QED
    BY <1>1, <1>2, <1>3, <1>4, <1>5, <1>6, <1>7, <1>8, <1>9, <1>10, <1>11, <1>12,
       <1>13, <1>14, <1>15, <1>16, <1>17, <1>18, <1>19, <1>20, <1>21, <1>22, <1>23,
       <1>24, <1>25, <1>26, <1>27, <1>28, <1>29, <1>30, <1>31, <1>32, <1>33, <1>34,
       <1>35, <1>36 DEF Next, Step

\* A worker that owns a target has it to itself, and no-one has published it yet
\* while it is still on the way to its commit.
LEMMA Alone ==
    ASSUME RunType, WorkersPlaced, ClaimExclusion, OwnersClaim, NEW w \in Workers,
           pc[w] \in PreCommit \cup Catching
    PROVE  /\ target[w] \in Targets
           /\ pc[w] \in PreCommit /\ target[w] \in Instagram =>
                 status[target[w]] # "PUBLISHED"
           /\ \A v \in Workers :
                 pc[v] \in PreCommit \cup Catching /\ target[v] = target[w] => v = w
BY DEF RunType, WorkersPlaced, Placed, ClaimExclusion, ExclusiveOn, OwnersClaim,
   Claimed, Owns,
   PreCommit, Catching

\* Appending makes a sequence one longer.
LEMMA LenAppend ==
    ASSUME NEW S, NEW q \in Seq(S), NEW x
    PROVE  Len(Append(q, x)) = Len(q) + 1
OBVIOUS

\* A move away from anything but a commit, or the end of an execution, changes
\* nothing about submissions.
LEMMA GotoSubmissions ==
    ASSUME RunType, SubmissionsInv, NEW w \in Workers, NEW l, Goto(w, l),
           pc[w] # "commit", l # "commit", l \in Catching => pc[w] \in Catching,
           UNCHANGED <<status, subs, faultVars>>
    PROVE  SubmissionsInv'
BY DEF RunType, SubmissionsInv, Goto, Faults, faultVars

LEMMA ExitSubmissions ==
    ASSUME RunType, SubmissionsInv, NEW w \in Workers, Exit(w), pc[w] # "commit",
           UNCHANGED <<status, subs, faultVars>>
    PROVE  SubmissionsInv'
BY DEF RunType, SubmissionsInv, Exit, Begin, Catching, Faults, faultVars

\* Every action keeps the bound on submissions.  CallPlatform adds one, and its
\* owner was on the way to it alone; the catch block is reached by a fault or
\* without a submission.
LEMMA NextSubmissions == ClaimInv /\ SubmissionsInv /\ [Next]_vars => SubmissionsInv'
<1> SUFFICES ASSUME RunType, WorldType, WorkersPlaced, ClaimExclusion, OwnersClaim,
                    SubmissionsInv, [Next]_vars
             PROVE  SubmissionsInv'
    BY TypeHalves DEF ClaimInv
<1>1. ASSUME NEW p \in Posts, BecomeDue(p) PROVE SubmissionsInv'
    BY <1>1 DEF BecomeDue, runVars, targetVars, faultVars, SubmissionsInv, Faults
<1>2. ASSUME NEW p \in Posts, AgePost(p) PROVE SubmissionsInv'
    BY <1>2 DEF AgePost, runVars, targetVars, faultVars, SubmissionsInv, Faults
<1>3. ASSUME NEW t \in Targets, ExpireClaim(t) PROVE SubmissionsInv'
    BY <1>3 DEF ExpireClaim, runVars, targetVars, faultVars, SubmissionsInv, Faults
<1>4. ASSUME NEW t \in Targets, SettleJob(t) PROVE SubmissionsInv'
    BY <1>4 DEF SettleJob, runVars, targetVars, faultVars, SubmissionsInv, Faults
<1>5. ASSUME Sweep PROVE SubmissionsInv'
    BY <1>5 DEF Sweep, runVars, targetVars, faultVars, SubmissionsInv, Faults
<1>6. ASSUME DropHanded PROVE SubmissionsInv'
    BY <1>6 DEF DropHanded, runVars, targetVars, faultVars, SubmissionsInv, Faults
<1>7. ASSUME NEW w \in Workers, FindBare(w) PROVE SubmissionsInv'
    BY <1>7 DEF FindBare, Begin, At, worldVars, targetVars, faultVars, RunType,
       WorldType,
       SubmissionsInv, Faults, Instagram, PreCommit, Catching, Finalizing, Released,
       Attaching
<1>8. ASSUME NEW w \in Workers, Attach(w) PROVE SubmissionsInv'
  <2>1. \A t \in Targets : status[t] = "PUBLISHED" => status'[t] = "PUBLISHED"
      BY <1>8 DEF Attach, Rows, TargetsOf, At, WorldType
  <2>2. \A v \in Workers : pc[v] = "commit" => pc'[v] = "commit" /\ target'[v] = target[v]
      BY <1>8 DEF Attach, At, Goto, Exit, Begin, RunType
  <2>3. \A v \in Workers : pc'[v] \in Catching => pc[v] \in Catching /\ target'[v] = target[v]
      BY <1>8 DEF Attach, At, Goto, Exit, Begin, RunType, Catching
  <2> QED
      BY <1>8, <2>1, <2>2, <2>3 DEF Attach, SubmissionsInv, Faults, faultVars, Instagram
<1>9. ASSUME NEW w \in Workers, FailBare(w) PROVE SubmissionsInv'
    BY <1>9, GotoSubmissions, ExitSubmissions DEF FailBare, At, worldVars, targetVars,
       faultVars, PreCommit, Catching,
       Finalizing, Released, Reconciling
<1>10. ASSUME NEW w \in Workers, NEW t \in Targets, Read(w, t) PROVE SubmissionsInv'
    BY <1>10 DEF Read, Begin, At, targetVars, faultVars, RunType, WorldType,
       SubmissionsInv, Faults, Instagram, PreCommit, Catching, Finalizing, Released,
       Attaching
<1>11. ASSUME NEW w \in Workers, Claim(w) PROVE SubmissionsInv'
  <2>1. CASE ~Claimable(target[w])
      BY <1>11, <2>1, ExitSubmissions DEF Claim, At
  <2>2. CASE Claimable(target[w])
    <3>1. /\ Goto(w, "claimed") /\ UNCHANGED <<subs, faultVars>>
          /\ \A t \in Targets : status[t] = "PUBLISHED" => status'[t] = "PUBLISHED"
        BY <1>11, <2>2 DEF Claim, Claimable, StaleClaim, WorldType
    <3> QED
        BY <1>11, <3>1 DEF Claim, At, Goto, SubmissionsInv, Faults, faultVars, RunType,
           Catching, Instagram
  <2> QED BY <2>1, <2>2
<1>12. ASSUME NEW w \in Workers, MarkPost(w) PROVE SubmissionsInv'
    BY <1>12, GotoSubmissions, ExitSubmissions DEF MarkPost, At, worldVars,
       targetVars, faultVars, PreCommit, Catching,
       Finalizing, Released, Reconciling
<1>13. ASSUME NEW w \in Workers, Preflight(w) PROVE SubmissionsInv'
  <2>1. CASE Goto(w, "call")
      BY <1>13, <2>1, GotoSubmissions DEF Preflight, At, worldVars, targetVars, Catching
  <2>2. CASE Goto(w, "catch")
    <3>1. target[w] \in Instagram => Len(subs[target[w]]) <= Faults
        BY <1>13, Alone DEF Preflight, At, PreCommit, SubmissionsInv
    <3> QED
        BY <1>13, <2>2, <3>1 DEF Preflight, At, Goto, worldVars, targetVars, faultVars,
           SubmissionsInv, Faults, RunType, Catching
  <2> QED BY <1>13, <2>1, <2>2 DEF Preflight
<1>14. ASSUME NEW w \in Workers, RefreshAndRetry(w) PROVE SubmissionsInv'
    BY <1>14, GotoSubmissions, ExitSubmissions DEF RefreshAndRetry, At, worldVars,
       targetVars, faultVars, PreCommit, Catching,
       Finalizing, Released, Reconciling
<1>15. ASSUME NEW w \in Workers, CallPlatform(w) PROVE SubmissionsInv'
  <2> DEFINE t == target[w]
  <2>1. t \in Instagram => Len(subs[t]) <= Faults
      BY <1>15, Alone DEF CallPlatform, PreCommit, SubmissionsInv
  <2>2. CASE Goto(w, "catch") /\ UNCHANGED <<subs, lostAcks>>
      BY <1>15, <2>1, <2>2 DEF CallPlatform, Goto, targetVars, SubmissionsInv, Faults,
         RunType, Catching
  <2>3. ASSUME NEW l, Submit(w, l), l = "commit" \/ (l = "catch" /\ lostAcks' = lostAcks + 1),
               lostAcks' \in Nat, lostAcks' >= lostAcks
        PROVE SubmissionsInv'
    <3>1. \A u \in Instagram : Len(subs'[u]) = IF u = t THEN Len(subs[u]) + 1
                                                       ELSE Len(subs[u])
        BY <2>3, LenAppend DEF Submit, WorldType, Instagram
    <3>2. /\ UNCHANGED <<target, status>> /\ pc' = [pc EXCEPT ![w] = l]
          /\ Faults' = Faults + (lostAcks' - lostAcks)
        BY <1>15, <2>3 DEF CallPlatform, Submit, targetVars, Faults, WorldType
    <3>3. \A v \in Workers : v # w /\ pc[v] \in Catching /\ t \in Instagram => target[v] # t
        BY <1>15, Alone DEF CallPlatform, PreCommit
    <3>4. Faults \in Nat /\ Faults' \in Nat /\ Faults' >= Faults /\ lostAcks \in Nat
          /\ \A u \in Instagram : Len(subs[u]) \in Nat
        BY <2>3, <3>2 DEF Faults, WorldType, Instagram
    <3>5. pc[w] \notin Catching \cup {"commit"}
        BY <1>15 DEF CallPlatform, Catching
    <3> SUFFICES ASSUME NEW u \in Instagram
                 PROVE  /\ Len(subs'[u]) <= 1 + Faults'
                        /\ \/ status'[u] = "PUBLISHED"
                           \/ \E v \in Workers : pc'[v] = "commit" /\ target'[v] = u
                           \/ Len(subs'[u]) <= Faults'
                        /\ \A v \in Workers : pc'[v] \in Catching /\ target'[v] = u =>
                               Len(subs'[u]) <= Faults'
        BY DEF SubmissionsInv
    <3>6. CASE u = t
      <4>1. Len(subs'[u]) = Len(subs[u]) + 1 /\ u \in Instagram
          BY <3>1, <3>6
      <4>2. Len(subs[u]) <= Faults
          BY <2>1, <3>6
      <4>3. CASE l = "commit"
          BY <3>2, <3>3, <3>4, <3>6, <4>1, <4>2, <4>3 DEF RunType, Catching
      <4>4. CASE l = "catch" /\ lostAcks' = lostAcks + 1
          BY <3>2, <3>4, <4>1, <4>2, <4>4
      <4> QED BY <2>3, <4>3, <4>4
    <3>7. CASE u # t
      <4>1. Len(subs'[u]) = Len(subs[u]) /\ Len(subs[u]) \in Nat
          BY <3>1, <3>4, <3>7
      <4>2. \A v \in Workers : target[v] = u => pc'[v] = pc[v]
          BY <3>2, <3>7 DEF RunType
      <4> QED
          BY <3>2, <3>4, <4>1, <4>2 DEF SubmissionsInv
    <3> QED BY <3>6, <3>7
  <2>4. CASE Submit(w, "commit") /\ lostAcks' = lostAcks
      BY <2>3, <2>4 DEF WorldType
  <2>5. CASE Submit(w, "catch") /\ lostAcks' = lostAcks + 1
      BY <2>3, <2>5 DEF WorldType
  <2> QED
      BY <1>15, <2>2, <2>4, <2>5 DEF CallPlatform
<1>16. ASSUME NEW w \in Workers, Commit(w) PROVE SubmissionsInv'
    BY <1>16 DEF Commit, Goto, At, faultVars, RunType, WorldType,
       SubmissionsInv, Faults, Instagram, PreCommit, Catching, Finalizing, Released,
       Attaching
<1>17. ASSUME NEW w \in Workers, Notify(w) PROVE SubmissionsInv'
    BY <1>17, GotoSubmissions, ExitSubmissions DEF Notify, At, worldVars, targetVars,
       faultVars, PreCommit, Catching,
       Finalizing, Released, Reconciling
<1>18. ASSUME NEW w \in Workers, ReadAttempts(w) PROVE SubmissionsInv'
    BY <1>18 DEF ReadAttempts, At, worldVars, targetVars, faultVars, RunType, WorldType,
       SubmissionsInv, Faults, Instagram, PreCommit, Catching, Finalizing, Released,
       Attaching
<1>19. ASSUME NEW w \in Workers, Release(w) PROVE SubmissionsInv'
    BY <1>19 DEF Release, ReleaseAs, At, faultVars, RunType, WorldType,
       SubmissionsInv, Faults, Instagram, PreCommit, Catching, Finalizing, Released,
       Attaching
<1>20. ASSUME NEW w \in Workers, GiveUp(w) PROVE SubmissionsInv'
    BY <1>20, GotoSubmissions, ExitSubmissions DEF GiveUp, At, worldVars, targetVars,
       faultVars, PreCommit, Catching,
       Finalizing, Released, Reconciling
<1>21. ASSUME NEW w \in Workers, CountPublished(w) PROVE SubmissionsInv'
    BY <1>21, GotoSubmissions, ExitSubmissions DEF CountPublished, At, worldVars,
       targetVars, faultVars, PreCommit, Catching,
       Finalizing, Released, Reconciling
<1>22. ASSUME NEW w \in Workers, Revert(w) PROVE SubmissionsInv'
    BY <1>22, GotoSubmissions, ExitSubmissions DEF Revert, At, worldVars, targetVars,
       faultVars, PreCommit, Catching,
       Finalizing, Released, Reconciling
<1>23. ASSUME NEW w \in Workers, CountRemaining(w) PROVE SubmissionsInv'
    BY <1>23, GotoSubmissions, ExitSubmissions DEF CountRemaining, At, worldVars,
       targetVars, faultVars, PreCommit, Catching,
       Finalizing, Released, Reconciling
<1>24. ASSUME NEW w \in Workers, Tally(w) PROVE SubmissionsInv'
    BY <1>24 DEF Tally, At, worldVars, targetVars, faultVars, RunType, WorldType,
       SubmissionsInv, Faults, Instagram, PreCommit, Catching, Finalizing, Released,
       Attaching
<1>25. ASSUME NEW w \in Workers, Settle(w) PROVE SubmissionsInv'
    BY <1>25, GotoSubmissions, ExitSubmissions DEF Settle, At, worldVars, targetVars,
       faultVars, PreCommit, Catching,
       Finalizing, Released, Reconciling
<1>26. ASSUME NEW w \in Workers, CountFailed(w) PROVE SubmissionsInv'
    BY <1>26, GotoSubmissions, ExitSubmissions DEF CountFailed, At, worldVars,
       targetVars, faultVars, PreCommit, Catching,
       Finalizing, Released, Reconciling
<1>27. ASSUME NEW w \in Workers, Purge(w) PROVE SubmissionsInv'
    BY <1>27, GotoSubmissions, ExitSubmissions DEF Purge, At, worldVars, targetVars,
       faultVars, PreCommit, Catching,
       Finalizing, Released, Reconciling
<1>28. ASSUME NEW w \in Workers, NEW t \in Targets, Track(w, t) PROVE SubmissionsInv'
    BY <1>28 DEF Track, Begin, At, worldVars, targetVars, faultVars, RunType, WorldType,
       SubmissionsInv, Faults, Instagram, PreCommit, Catching, Finalizing, Released,
       Attaching
<1>29. ASSUME NEW w \in Workers, Poll(w) PROVE SubmissionsInv'
    BY <1>29, GotoSubmissions, ExitSubmissions DEF Poll, At, worldVars, targetVars,
       faultVars, PreCommit, Catching,
       Finalizing, Released, Reconciling
<1>30. ASSUME NEW w \in Workers, ConfirmRead(w) PROVE SubmissionsInv'
    BY <1>30, GotoSubmissions, ExitSubmissions DEF ConfirmRead, At, worldVars,
       targetVars, faultVars, PreCommit, Catching,
       Finalizing, Released, Reconciling
<1>31. ASSUME NEW w \in Workers, ConfirmWrite(w) PROVE SubmissionsInv'
    BY <1>31 DEF ConfirmWrite, Goto, At, faultVars, RunType, WorldType,
       SubmissionsInv, Faults, Instagram, PreCommit, Catching, Finalizing, Released,
       Attaching
<1>32. ASSUME NEW w \in Workers, FailRead(w) PROVE SubmissionsInv'
    BY <1>32, GotoSubmissions, ExitSubmissions DEF FailRead, At, worldVars,
       targetVars, faultVars, PreCommit, Catching,
       Finalizing, Released, Reconciling
<1>33. ASSUME NEW w \in Workers, FailWrite(w) PROVE SubmissionsInv'
  <2>1. target[w] \in TikTok
      BY <1>33 DEF FailWrite, At, WorkersPlaced, Placed, Reconciling
  <2>2. \A t \in Instagram : status'[t] = status[t]
      BY <1>33, <2>1 DEF FailWrite, Instagram, WorldType
  <2> QED
      BY <1>33, <2>2 DEF FailWrite, Goto, At, faultVars, RunType, SubmissionsInv,
         Faults,
         Catching
<1>34. ASSUME NEW w \in Workers, Crash(w) PROVE SubmissionsInv'
    BY <1>34 DEF Crash, Exit, Begin, At, targetVars, faultVars, RunType, WorldType,
       SubmissionsInv, Faults, Instagram, PreCommit, Catching, Finalizing, Released,
       Attaching
<1>35. ASSUME NEW w \in Workers, DbFailure(w) PROVE SubmissionsInv'
    BY <1>35 DEF DbFailure, Goto, At, targetVars, faultVars, RunType, WorldType,
       SubmissionsInv, Faults, Instagram, PreCommit, Catching, Finalizing, Released,
       Attaching
<1>36. ASSUME UNCHANGED vars PROVE SubmissionsInv'
    BY <1>36 DEF vars, SubmissionsInv, Faults
<1> QED
    BY <1>1, <1>2, <1>3, <1>4, <1>5, <1>6, <1>7, <1>8, <1>9, <1>10, <1>11, <1>12,
       <1>13, <1>14, <1>15, <1>16, <1>17, <1>18, <1>19, <1>20, <1>21, <1>22, <1>23,
       <1>24, <1>25, <1>26, <1>27, <1>28, <1>29, <1>30, <1>31, <1>32, <1>33, <1>34,
       <1>35, <1>36 DEF Next, Step

\* A move inside the code of an owner, or the end of one that holds no claim,
\* keeps the bound on attempts.
LEMMA GotoAttempts ==
    ASSUME RunType, NEW e \in Nat, AttemptsInv(e), NEW w \in Workers,
           NEW l, Goto(w, l), Follows(pc[w], l), l # "release",
           UNCHANGED <<status, claimedAt, attempts, crashes>>
    PROVE  AttemptsInv(e)'
<1>1. \A v \in Workers, t \in Targets : Holds(v, t) => Holds(v, t)'
    BY DEF Holds, Owns, Goto, Follows, RunType, PreCommit, Catching, Finalizing
<1> QED
    BY <1>1 DEF AttemptsInv, Goto, RunType

LEMMA ExitAttempts ==
    ASSUME RunType, OwnersClaim, NEW e \in Nat, AttemptsInv(e), NEW w \in Workers,
           pc[w] \notin PreCommit \cup Catching, Exit(w),
           UNCHANGED <<status, claimedAt, attempts, crashes>>
    PROVE  AttemptsInv(e)'
<1>1. \A t \in Targets : claimedAt[t] # "none" =>
         \A v \in Workers : Holds(v, t) => Holds(v, t)'
    BY DEF Holds, Owns, Exit, Begin, OwnersClaim, Claimed, RunType, PreCommit, Catching,
       Finalizing
<1> QED
    BY <1>1 DEF AttemptsInv, Exit, Begin, RunType

\* Every action keeps the bound on attempts: Claim spends one, Release gives the
\* target back only while one is left, and Crash is what the bound allows for.
LEMMA NextAttempts ==
    \A e \in Nat : ClaimInv /\ AttemptsInv(e) /\ [Next]_vars => AttemptsInv(e)'
<1> SUFFICES ASSUME RunType, WorldType, WorkersPlaced, ClaimExclusion, OwnersClaim,
                    NEW e \in Nat, AttemptsInv(e), [Next]_vars
             PROVE  AttemptsInv(e)'
    BY TypeHalves DEF ClaimInv
<1> USE LimitsAssumption
<1>1. ASSUME NEW p \in Posts, BecomeDue(p) PROVE AttemptsInv(e)'
    BY <1>1 DEF BecomeDue, runVars, targetVars, faultVars, AttemptsInv, Holds, Owns,
       WorldType
<1>2. ASSUME NEW p \in Posts, AgePost(p) PROVE AttemptsInv(e)'
    BY <1>2 DEF AgePost, runVars, targetVars, faultVars, AttemptsInv, Holds, Owns,
       WorldType
<1>3. ASSUME NEW t \in Targets, ExpireClaim(t) PROVE AttemptsInv(e)'
    BY <1>3 DEF ExpireClaim, runVars, targetVars, faultVars, AttemptsInv, Holds, Owns,
       WorldType
<1>4. ASSUME NEW t \in Targets, SettleJob(t) PROVE AttemptsInv(e)'
    BY <1>4 DEF SettleJob, runVars, targetVars, faultVars, AttemptsInv, Holds, Owns,
       WorldType
<1>5. ASSUME Sweep PROVE AttemptsInv(e)'
    BY <1>5 DEF Sweep, runVars, targetVars, faultVars, AttemptsInv, Holds, Owns,
       WorldType
<1>6. ASSUME DropHanded PROVE AttemptsInv(e)'
    BY <1>6 DEF DropHanded, runVars, targetVars, faultVars, AttemptsInv, Holds, Owns,
       WorldType
<1>7. ASSUME NEW w \in Workers, FindBare(w) PROVE AttemptsInv(e)'
  <2>1. \A v \in Workers, t \in Targets : Holds(v, t) => Holds(v, t)'
      BY <1>7 DEF FindBare, Begin, At, Holds, Owns, RunType, WorkersPlaced, Placed,
         PreCommit, Catching, Finalizing, Attaching, Reconciling
  <2>2. \A v \in Workers : pc'[v] = "release" =>
           pc[v] = "release" /\ target'[v] = target[v] /\ count'[v] = count[v]
      BY <1>7 DEF FindBare, Begin, At, RunType
  <2> QED
      BY <1>7, <2>1, <2>2 DEF FindBare, worldVars, targetVars, faultVars, AttemptsInv
<1>8. ASSUME NEW w \in Workers, Attach(w) PROVE AttemptsInv(e)'
  <2>1. \A v \in Workers, t \in Targets : Holds(v, t) => Holds(v, t)'
      BY <1>8 DEF Attach, Goto, Exit, Begin, At, Holds, Owns, RunType, WorkersPlaced,
         Placed,
         PreCommit, Catching, Finalizing, Attaching, Reconciling
  <2>2. \A v \in Workers : pc'[v] = "release" =>
           pc[v] = "release" /\ target'[v] = target[v] /\ count'[v] = count[v]
      BY <1>8 DEF Attach, Goto, Exit, Begin, At, RunType
  <2>3. \A t \in Targets : status'[t] = status[t]
                            \/ (status[t] = "ABSENT" /\ status'[t] = "PENDING")
      BY <1>8 DEF Attach, Rows, TargetsOf, WorldType
  <2> QED
      BY <1>8, <2>1, <2>2, <2>3 DEF Attach, faultVars, AttemptsInv
<1>9. ASSUME NEW w \in Workers, FailBare(w) PROVE AttemptsInv(e)'
    BY <1>9, GotoAttempts, ExitAttempts DEF FailBare, At, Follows, worldVars,
       targetVars, faultVars, Steps,
       PreCommit, Catching, Finalizing, Released, Reconciling, Attaching
<1>10. ASSUME NEW w \in Workers, NEW t \in Targets, Read(w, t) PROVE AttemptsInv(e)'
    BY <1>10 DEF Read, Begin, At, worldVars, targetVars, faultVars, AttemptsInv,
       Holds, Owns, RunType,
       WorldType, Instagram, PreCommit, Catching, Finalizing, Released, Attaching,
       Reconciling
<1>11. ASSUME NEW w \in Workers, Claim(w) PROVE AttemptsInv(e)'
  <2> DEFINE t == target[w]
  <2>1. CASE ~Claimable(t)
      BY <1>11, <2>1, ExitAttempts DEF Claim, At, faultVars, PreCommit, Catching
  <2>2. CASE Claimable(t)
    <3>1. t \in Targets
        BY <1>11 DEF Claim, At, RunType, WorkersPlaced, Placed
    <3>2. \A v \in Workers : ~Holds(v, t)
        BY <2>2 DEF Holds, OwnersClaim, Claimed, Claimable, StaleClaim
    <3>3. attempts[t] < MaxAttempts + crashes + e
        BY <2>2, <3>1, <3>2 DEF AttemptsInv, Claimable, StaleClaim
    <3>4. /\ UNCHANGED <<target, path, count, crashes>> /\ pc' = [pc EXCEPT ![w] = "claimed"]
          /\ status'[t] = "PUBLISHING" /\ attempts'[t] = attempts[t] + 1
          /\ \A u \in Targets \ {t} : /\ status'[u] = status[u] /\ claimedAt'[u] = claimedAt[u]
                                      /\ attempts'[u] = attempts[u]
        BY <1>11, <2>2, <3>1 DEF Claim, Goto, faultVars, WorldType
    <3>5. Holds(w, t)'
        BY <1>11, <3>4 DEF Claim, At, Holds, Owns, RunType, WorkersPlaced, Placed,
           PreCommit
    <3>6. \A v \in Workers, u \in Targets : Holds(v, u) => Holds(v, u)'
        BY <1>11, <3>4 DEF Claim, At, Holds, Owns, RunType, PreCommit, Catching,
           Finalizing
    <3>7. attempts'[t] \in Nat /\ attempts'[t] <= MaxAttempts + crashes' + e
        BY <3>1, <3>3, <3>4 DEF WorldType
    <3>8. \A v \in Workers : pc'[v] = "release" => pc[v] = "release" /\ target[v] # t
        BY <3>2, <3>4 DEF RunType, Holds, Owns, WorkersPlaced, Placed, Catching
    <3> QED
        BY <3>1, <3>4, <3>5, <3>6, <3>7, <3>8 DEF AttemptsInv
  <2> QED BY <2>1, <2>2
<1>12. ASSUME NEW w \in Workers, MarkPost(w) PROVE AttemptsInv(e)'
    BY <1>12, GotoAttempts, ExitAttempts DEF MarkPost, At, Follows, worldVars,
       targetVars, faultVars, Steps,
       PreCommit, Catching, Finalizing, Released, Reconciling, Attaching
<1>13. ASSUME NEW w \in Workers, Preflight(w) PROVE AttemptsInv(e)'
    BY <1>13, GotoAttempts, ExitAttempts DEF Preflight, At, Follows, worldVars,
       targetVars, faultVars, Steps,
       PreCommit, Catching, Finalizing, Released, Reconciling, Attaching
<1>14. ASSUME NEW w \in Workers, RefreshAndRetry(w) PROVE AttemptsInv(e)'
    BY <1>14, GotoAttempts, ExitAttempts DEF RefreshAndRetry, At, Follows, worldVars,
       targetVars, faultVars, Steps,
       PreCommit, Catching, Finalizing, Released, Reconciling, Attaching
<1>15. ASSUME NEW w \in Workers, CallPlatform(w) PROVE AttemptsInv(e)'
  <2>1. \A v \in Workers, t \in Targets : Holds(v, t) => Holds(v, t)'
      BY <1>15 DEF CallPlatform, Submit, Goto, Holds, Owns, RunType, WorkersPlaced,
         Placed,
         PreCommit, Catching, Finalizing, Attaching, Reconciling
  <2>2. \A v \in Workers : pc'[v] = "release" =>
           pc[v] = "release" /\ target'[v] = target[v] /\ count'[v] = count[v]
      BY <1>15 DEF CallPlatform, Submit, Goto, RunType
  <2> QED
      BY <1>15, <2>1, <2>2 DEF CallPlatform, targetVars, AttemptsInv
<1>16. ASSUME NEW w \in Workers, Commit(w) PROVE AttemptsInv(e)'
    BY <1>16 DEF Commit, Goto, Exit, Begin, At, worldVars, targetVars, faultVars,
       AttemptsInv, Holds, Owns, RunType,
       WorldType, Instagram, PreCommit, Catching, Finalizing, Released, Attaching,
       Reconciling
<1>17. ASSUME NEW w \in Workers, Notify(w) PROVE AttemptsInv(e)'
    BY <1>17, GotoAttempts, ExitAttempts DEF Notify, At, Follows, worldVars,
       targetVars, faultVars, Steps,
       PreCommit, Catching, Finalizing, Released, Reconciling, Attaching
<1>18. ASSUME NEW w \in Workers, ReadAttempts(w) PROVE AttemptsInv(e)'
    BY <1>18 DEF ReadAttempts, Goto, Exit, Begin, At, worldVars, targetVars,
       faultVars, AttemptsInv, Holds, Owns, RunType,
       WorldType, Instagram, PreCommit, Catching, Finalizing, Released, Attaching,
       Reconciling
<1>19. ASSUME NEW w \in Workers, Release(w) PROVE AttemptsInv(e)'
    BY <1>19 DEF Release, ReleaseAs, Goto, Exit, Begin, At, worldVars, targetVars,
       faultVars, AttemptsInv, Holds, Owns, RunType,
       WorldType, Instagram, PreCommit, Catching, Finalizing, Released, Attaching,
       Reconciling
<1>20. ASSUME NEW w \in Workers, GiveUp(w) PROVE AttemptsInv(e)'
    BY <1>20, GotoAttempts, ExitAttempts DEF GiveUp, At, Follows, worldVars,
       targetVars, faultVars, Steps,
       PreCommit, Catching, Finalizing, Released, Reconciling, Attaching
<1>21. ASSUME NEW w \in Workers, CountPublished(w) PROVE AttemptsInv(e)'
    BY <1>21, GotoAttempts, ExitAttempts DEF CountPublished, At, Follows, worldVars,
       targetVars, faultVars, Steps,
       PreCommit, Catching, Finalizing, Released, Reconciling, Attaching
<1>22. ASSUME NEW w \in Workers, Revert(w) PROVE AttemptsInv(e)'
    BY <1>22, GotoAttempts, ExitAttempts DEF Revert, At, Follows, worldVars,
       targetVars, faultVars, Steps,
       PreCommit, Catching, Finalizing, Released, Reconciling, Attaching
<1>23. ASSUME NEW w \in Workers, CountRemaining(w) PROVE AttemptsInv(e)'
    BY <1>23, GotoAttempts, ExitAttempts DEF CountRemaining, At, Follows, worldVars,
       targetVars, faultVars, Steps,
       PreCommit, Catching, Finalizing, Released, Reconciling, Attaching
<1>24. ASSUME NEW w \in Workers, Tally(w) PROVE AttemptsInv(e)'
    BY <1>24 DEF Tally, At, worldVars, targetVars, faultVars, AttemptsInv, Holds,
       Owns, RunType,
       WorldType, Instagram, PreCommit, Catching, Finalizing, Released, Attaching,
       Reconciling
<1>25. ASSUME NEW w \in Workers, Settle(w) PROVE AttemptsInv(e)'
    BY <1>25, GotoAttempts, ExitAttempts DEF Settle, At, Follows, worldVars,
       targetVars, faultVars, Steps,
       PreCommit, Catching, Finalizing, Released, Reconciling, Attaching
<1>26. ASSUME NEW w \in Workers, CountFailed(w) PROVE AttemptsInv(e)'
    BY <1>26, GotoAttempts, ExitAttempts DEF CountFailed, At, Follows, worldVars,
       targetVars, faultVars, Steps,
       PreCommit, Catching, Finalizing, Released, Reconciling, Attaching
<1>27. ASSUME NEW w \in Workers, Purge(w) PROVE AttemptsInv(e)'
    BY <1>27, GotoAttempts, ExitAttempts DEF Purge, At, Follows, worldVars,
       targetVars, faultVars, Steps,
       PreCommit, Catching, Finalizing, Released, Reconciling, Attaching
<1>28. ASSUME NEW w \in Workers, NEW t \in Targets, Track(w, t) PROVE AttemptsInv(e)'
    BY <1>28 DEF Track, Begin, At, worldVars, targetVars, faultVars, AttemptsInv,
       Holds, Owns, RunType,
       WorldType, Instagram, PreCommit, Catching, Finalizing, Released, Attaching,
       Reconciling
<1>29. ASSUME NEW w \in Workers, Poll(w) PROVE AttemptsInv(e)'
    BY <1>29, GotoAttempts, ExitAttempts DEF Poll, At, Follows, worldVars, targetVars,
       faultVars, Steps,
       PreCommit, Catching, Finalizing, Released, Reconciling, Attaching
<1>30. ASSUME NEW w \in Workers, ConfirmRead(w) PROVE AttemptsInv(e)'
    BY <1>30, GotoAttempts, ExitAttempts DEF ConfirmRead, At, Follows, worldVars,
       targetVars, faultVars, Steps,
       PreCommit, Catching, Finalizing, Released, Reconciling, Attaching
<1>31. ASSUME NEW w \in Workers, ConfirmWrite(w) PROVE AttemptsInv(e)'
    BY <1>31 DEF ConfirmWrite, Goto, Exit, Begin, At, worldVars, targetVars,
       faultVars, AttemptsInv, Holds, Owns, RunType,
       WorldType, Instagram, PreCommit, Catching, Finalizing, Released, Attaching,
       Reconciling
<1>32. ASSUME NEW w \in Workers, FailRead(w) PROVE AttemptsInv(e)'
    BY <1>32, GotoAttempts, ExitAttempts DEF FailRead, At, Follows, worldVars,
       targetVars, faultVars, Steps,
       PreCommit, Catching, Finalizing, Released, Reconciling, Attaching
<1>33. ASSUME NEW w \in Workers, FailWrite(w) PROVE AttemptsInv(e)'
  <2>1. \A v \in Workers, t \in Targets : Holds(v, t) => Holds(v, t)'
      BY <1>33 DEF FailWrite, Goto, At, Holds, Owns, RunType, WorkersPlaced, Placed,
         PreCommit, Catching, Finalizing, Attaching, Reconciling
  <2>2. \A v \in Workers : pc'[v] = "release" =>
           pc[v] = "release" /\ target'[v] = target[v] /\ count'[v] = count[v]
      BY <1>33 DEF FailWrite, Goto, At, RunType
  <2>3. \A t \in Targets : \/ status'[t] = status[t] /\ claimedAt'[t] = claimedAt[t]
                           \/ (t \in TikTok /\ status'[t] = "FAILED")
    <3> target[w] \in TikTok
        BY <1>33 DEF FailWrite, At, WorkersPlaced, Placed, Reconciling
    <3> QED BY <1>33 DEF FailWrite, WorldType
  <2> QED
      BY <1>33, <2>1, <2>2, <2>3 DEF FailWrite, faultVars, AttemptsInv, Instagram
<1>34. ASSUME NEW w \in Workers, Crash(w) PROVE AttemptsInv(e)'
    BY <1>34 DEF Crash, Goto, Exit, Begin, At, worldVars, targetVars, faultVars,
       AttemptsInv, Holds, Owns, RunType,
       WorldType, Instagram, PreCommit, Catching, Finalizing, Released, Attaching,
       Reconciling
<1>35. ASSUME NEW w \in Workers, DbFailure(w) PROVE AttemptsInv(e)'
    BY <1>35, GotoAttempts, ExitAttempts DEF DbFailure, At, Follows, worldVars,
       targetVars, faultVars, Steps,
       PreCommit, Catching, Finalizing, Released, Reconciling, Attaching
<1>36. ASSUME UNCHANGED vars PROVE AttemptsInv(e)'
    BY <1>36 DEF vars, AttemptsInv, Holds, Owns
<1> QED
    BY <1>1, <1>2, <1>3, <1>4, <1>5, <1>6, <1>7, <1>8, <1>9, <1>10, <1>11, <1>12,
       <1>13, <1>14, <1>15, <1>16, <1>17, <1>18, <1>19, <1>20, <1>21, <1>22, <1>23,
       <1>24, <1>25, <1>26, <1>27, <1>28, <1>29, <1>30, <1>31, <1>32, <1>33, <1>34,
       <1>35, <1>36 DEF Next, Step

\* No submission is ever forgotten, and what is live stays live.
LEMMA SubsGrow ==
    ASSUME RunType, WorldType, WorkersPlaced, [Next]_vars, NEW t \in Targets
    PROVE  (Live(t) => Live(t)') /\ DOMAIN subs[t] \subseteq DOMAIN subs'[t]
<1>1. CASE UNCHANGED subs
    BY <1>1 DEF Live
<1>2. ASSUME NEW u \in Targets, SettleJob(u)
      PROVE  (Live(t) => Live(t)') /\ DOMAIN subs[t] \subseteq DOMAIN subs'[t]
    BY <1>2 DEF SettleJob, Live, WorldType
<1>3. ASSUME NEW w \in Workers, CallPlatform(w)
      PROVE  (Live(t) => Live(t)') /\ DOMAIN subs[t] \subseteq DOMAIN subs'[t]
  <2>1. CASE UNCHANGED subs
      BY <2>1 DEF Live
  <2>2. CASE \E s \in SubState : subs' = [subs EXCEPT ![target[w]] = Append(@, s)]
    <3> PICK s \in SubState : subs' = [subs EXCEPT ![target[w]] = Append(@, s)]
        BY <2>2
    <3> subs[t] \in Seq(SubState)
        BY DEF WorldType
    <3>1. \A k \in DOMAIN subs[t] : k \in DOMAIN Append(subs[t], s)
                                   /\ Append(subs[t], s)[k] = subs[t][k]
        OBVIOUS
    <3>2. subs'[t] = IF t = target[w] THEN Append(subs[t], s) ELSE subs[t]
        BY DEF WorldType
    <3> QED BY <3>1, <3>2 DEF Live
  <2> QED BY <1>3, <2>1, <2>2 DEF CallPlatform, Submit, SubState
<1>4. ASSUME NEW w \in Workers,
             \/ Attach(w) \/ FailBare(w) \/ Claim(w) \/ MarkPost(w) \/ Preflight(w)
             \/ RefreshAndRetry(w) \/ Commit(w) \/ Notify(w) \/ ReadAttempts(w)
             \/ Release(w) \/ GiveUp(w) \/ CountPublished(w) \/ Revert(w)
      PROVE  UNCHANGED subs
    BY <1>4 DEF Attach, FailBare, Claim, MarkPost, Preflight, RefreshAndRetry, Commit,
       Notify, ReadAttempts, Release, ReleaseAs, GiveUp, CountPublished, Revert, worldVars
<1>5. ASSUME NEW w \in Workers,
             \/ CountRemaining(w) \/ Tally(w) \/ Settle(w) \/ CountFailed(w) \/ Purge(w)
             \/ Poll(w) \/ ConfirmRead(w) \/ ConfirmWrite(w) \/ FailRead(w)
             \/ FailWrite(w)
      PROVE  UNCHANGED subs
    BY <1>5 DEF CountRemaining, Tally, Settle, CountFailed, Purge, Poll, ConfirmRead,
       ConfirmWrite, FailRead, FailWrite, worldVars
<1>6. ASSUME NEW w \in Workers,
             \/ FindBare(w) \/ Crash(w) \/ DbFailure(w)
             \/ \E u \in Targets : Read(w, u) \/ Track(w, u)
      PROVE  UNCHANGED subs
    BY <1>6 DEF FindBare, Crash, DbFailure, Read, Track, worldVars
<1>7. ASSUME \/ \E p \in Posts : BecomeDue(p) \/ AgePost(p)
             \/ \E u \in Targets : ExpireClaim(u)
             \/ Sweep \/ DropHanded
      PROVE  UNCHANGED subs
    BY <1>7 DEF BecomeDue, AgePost, ExpireClaim, Sweep, DropHanded, worldVars
<1>8. CASE UNCHANGED vars
    BY <1>1, <1>8 DEF vars
<1> QED
    BY <1>1, <1>2, <1>3, <1>4, <1>5, <1>6, <1>7, <1>8 DEF Next, Step

\* What a step must leave alone, or prove anew, for LiveInv to survive it.
LEMMA KeepLive ==
    ASSUME RunType, WorldType, WorkersPlaced, LiveInv, [Next]_vars,
           \A t \in Targets : status'[t] = "PUBLISHED" => status[t] = "PUBLISHED" \/ Live(t)',
           \A p \in Posts : post'[p] = "PUBLISHED" =>
               post[p] = "PUBLISHED" \/ \E t \in TargetsOf(p) : Live(t)',
           \A t \in Targets : provider'[t] = provider[t] \/ provider'[t] \in DOMAIN subs'[t],
           \A v \in Workers : \/ pc'[v] \notin Pointing \cup {"settle"}
                              \/ /\ pc'[v] = pc[v] /\ target'[v] = target[v]
                                 /\ sub'[v] = sub[v] /\ count'[v] = count[v]
                              \/ Shown(v)'
    PROVE  LiveInv'
<1>g. \A t \in Targets : (Live(t) => Live(t)') /\ DOMAIN subs[t] \subseteq DOMAIN subs'[t]
    BY SubsGrow
<1>1. \A v \in Workers : pc[v] \in Pointing \cup {"settle"} => target[v] \in Targets
    BY DEF RunType, WorkersPlaced, Placed, Pointing
<1>2. (\A t \in Targets : provider[t] \in {0} \cup DOMAIN subs[t])'
    BY <1>g DEF LiveInv
<1>3. PublishedIsLive' /\ PostPublishedIsLive'
    BY <1>g DEF LiveInv, PublishedIsLive, PostPublishedIsLive, TargetsOf
<1>4. ASSUME NEW v \in Workers PROVE Shown(v)'
  <2>1. CASE pc'[v] \notin Pointing \cup {"settle"}
      BY <2>1 DEF Shown, Pointing
  <2>2. CASE /\ pc'[v] = pc[v] /\ target'[v] = target[v]
             /\ sub'[v] = sub[v] /\ count'[v] = count[v]
    <3>1. pc[v] \in Pointing =>
             /\ sub[v] \in DOMAIN subs'[target[v]]
             /\ Live(target[v]) => Live(target[v])'
        BY <1>g, <1>1, <2>2 DEF LiveInv, Shown
    <3>2. pc[v] = "settle" /\ count[v] > 0 => (\E t \in TargetsOf(PostAt(v)) : Live(t))'
        BY <1>g, <2>2 DEF LiveInv, Shown, TargetsOf, PostAt
    <3> QED BY <2>2, <3>1, <3>2 DEF LiveInv, Shown, Pointing
  <2> QED BY <2>1, <2>2
<1> QED
    BY <1>2, <1>3, <1>4 DEF LiveInv

\* A count above zero counts something.
LEMMA CountPositive ==
    ASSUME NEW p, NEW S, CountIn(p, S) > 0
    PROVE  \E t \in TargetsOf(p) : status[t] \in S
<1>1. {t \in TargetsOf(p) : status[t] \in S} # {}
    BY FS_EmptySet DEF CountIn
<1> QED BY <1>1

\* Three kinds of step that show nothing new: those that leave the executions
\* alone, the moves between steps, and the end of an execution.
LEMMA StillLive ==
    ASSUME RunType, WorldType, WorkersPlaced, LiveInv, [Next]_vars,
           UNCHANGED <<post, status, provider, runVars>>
    PROVE  LiveInv'
BY KeepLive DEF runVars

LEMMA GotoLive ==
    ASSUME RunType, WorldType, WorkersPlaced, LiveInv, [Next]_vars,
           NEW w \in Workers, NEW l, l \notin Pointing \cup {"settle"}, Goto(w, l),
           UNCHANGED <<status, provider>>,
           \A p \in Posts : post'[p] = "PUBLISHED" => post[p] = "PUBLISHED"
    PROVE  LiveInv'
BY KeepLive DEF Goto, RunType

LEMMA ExitLive ==
    ASSUME RunType, WorldType, WorkersPlaced, LiveInv, [Next]_vars,
           NEW w \in Workers, Exit(w), UNCHANGED <<status, provider>>,
           \A p \in Posts : post'[p] = "PUBLISHED" => post[p] = "PUBLISHED"
    PROVE  LiveInv'
BY KeepLive DEF Exit, Begin, RunType, Pointing

\* Every action records as published only what is live.
LEMMA NextLive == ClaimInv /\ LiveInv /\ [Next]_vars => LiveInv'
<1> SUFFICES ASSUME RunType, WorldType, WorkersPlaced, LiveInv, [Next]_vars PROVE LiveInv'
    BY TypeHalves DEF ClaimInv
<1>1. ASSUME NEW p \in Posts, BecomeDue(p) PROVE LiveInv'
    BY <1>1, StillLive DEF BecomeDue, targetVars, postVars
<1>2. ASSUME NEW p \in Posts, AgePost(p) PROVE LiveInv'
    BY <1>2, StillLive DEF AgePost, targetVars, postVars
<1>3. ASSUME NEW t \in Targets, ExpireClaim(t) PROVE LiveInv'
    BY <1>3, StillLive DEF ExpireClaim, targetVars, postVars
<1>4. ASSUME NEW t \in Targets, SettleJob(t) PROVE LiveInv'
    BY <1>4, StillLive DEF SettleJob, targetVars, postVars
<1>5. ASSUME Sweep PROVE LiveInv'
    BY <1>5, StillLive DEF Sweep, targetVars, postVars
<1>6. ASSUME DropHanded PROVE LiveInv'
    BY <1>6, StillLive DEF DropHanded, targetVars, postVars
<1>7. ASSUME NEW w \in Workers, FindBare(w) PROVE LiveInv'
    BY <1>7, KeepLive DEF FindBare, Begin, worldVars, targetVars, postVars, RunType,
       WorldType, Pointing
<1>8. ASSUME NEW w \in Workers, Attach(w) PROVE LiveInv'
  <2>1. \A t \in Targets : status'[t] = "PUBLISHED" => status[t] = "PUBLISHED"
      BY <1>8 DEF Attach, WorldType
  <2>2. \A v \in Workers : \/ pc'[v] \notin Pointing \cup {"settle"}
                           \/ /\ pc'[v] = pc[v] /\ target'[v] = target[v]
                              /\ sub'[v] = sub[v] /\ count'[v] = count[v]
      BY <1>8 DEF Attach, Goto, Exit, Begin, RunType, Pointing
  <2> QED
      BY <1>8, <2>1, <2>2, KeepLive DEF Attach, postVars
<1>9. ASSUME NEW w \in Workers, FailBare(w) PROVE LiveInv'
    BY <1>9, GotoLive, ExitLive DEF FailBare, SetPost, worldVars, postVars,
       targetVars, WorldType, Pointing
<1>10. ASSUME NEW w \in Workers, NEW t \in Targets, Read(w, t) PROVE LiveInv'
    BY <1>10, KeepLive DEF Read, Begin, worldVars, targetVars, postVars, RunType,
       WorldType, Pointing
<1>11. ASSUME NEW w \in Workers, Claim(w) PROVE LiveInv'
  <2>1. \A t \in Targets : status'[t] = "PUBLISHED" => status[t] = "PUBLISHED"
      BY <1>11 DEF Claim, WorldType
  <2>2. \A v \in Workers : \/ pc'[v] \notin Pointing \cup {"settle"}
                           \/ /\ pc'[v] = pc[v] /\ target'[v] = target[v]
                              /\ sub'[v] = sub[v] /\ count'[v] = count[v]
      BY <1>11 DEF Claim, Goto, Exit, Begin, RunType, Pointing
  <2> QED
      BY <1>11, <2>1, <2>2, KeepLive DEF Claim, postVars
<1>12. ASSUME NEW w \in Workers, MarkPost(w) PROVE LiveInv'
    BY <1>12, GotoLive, ExitLive DEF MarkPost, SetPost, worldVars, postVars,
       targetVars, WorldType, Pointing
<1>13. ASSUME NEW w \in Workers, Preflight(w) PROVE LiveInv'
    BY <1>13, GotoLive, ExitLive DEF Preflight, SetPost, worldVars, postVars,
       targetVars, WorldType, Pointing
<1>14. ASSUME NEW w \in Workers, RefreshAndRetry(w) PROVE LiveInv'
    BY <1>14, GotoLive, ExitLive DEF RefreshAndRetry, SetPost, worldVars, postVars,
       targetVars, WorldType, Pointing
<1>15. ASSUME NEW w \in Workers, CallPlatform(w) PROVE LiveInv'
  <2> DEFINE t == target[w]
  <2>t. t \in Targets
      BY <1>15 DEF CallPlatform, At, RunType, WorkersPlaced, Placed
  <2>1. CASE Goto(w, "catch")
      BY <1>15, <2>1, GotoLive DEF CallPlatform, targetVars, postVars, Pointing
  <2>2. ASSUME NEW l \in {"commit", "catch"}, Submit(w, l) PROVE LiveInv'
    <3> DEFINE s == IF t \in TikTok THEN "processing" ELSE "live"
    <3>1. subs'[t] = Append(subs[t], s) /\ sub'[w] = Len(subs[t]) + 1
          /\ UNCHANGED <<target, count>> /\ pc' = [pc EXCEPT ![w] = l]
          /\ \A v \in Workers \ {w} : sub'[v] = sub[v]
        BY <2>2, <2>t DEF Submit, WorldType, RunType
    <3>2. subs[t] \in Seq(SubState)
        BY <2>t DEF WorldType
    <3>3. Len(subs[t]) + 1 \in DOMAIN Append(subs[t], s)
          /\ Append(subs[t], s)[Len(subs[t]) + 1] = s
        BY <3>2
    <3>4. t \in Instagram => Live(t)'
        BY <3>1, <3>3 DEF Live, Instagram
    <3>5. Shown(w)'
        BY <2>2, <3>1, <3>3, <3>4 DEF Shown, RunType, Pointing
    <3>6. \A v \in Workers \ {w} : /\ pc'[v] = pc[v] /\ target'[v] = target[v]
                                 /\ sub'[v] = sub[v] /\ count'[v] = count[v]
        BY <3>1 DEF RunType
    <3> QED
        BY <1>15, <3>5, <3>6, KeepLive DEF CallPlatform, targetVars, postVars
  <2> QED BY <1>15, <2>1, <2>2 DEF CallPlatform
<1>16. ASSUME NEW w \in Workers, Commit(w) PROVE LiveInv'
  <2> DEFINE t == target[w]
  <2>t. t \in Targets
      BY <1>16 DEF Commit, At, RunType, WorkersPlaced, Placed
  <2>1. sub[w] \in DOMAIN subs[t] /\ (t \in Instagram => Live(t))
      BY <1>16 DEF Commit, At, LiveInv, Shown, Pointing
  <2>2. \A u \in Targets : status'[u] = "PUBLISHED" => status[u] = "PUBLISHED" \/ Live(u)'
      BY <1>16, <2>t, <2>1 DEF Commit, WorldType, Instagram, Live
  <2>3. \A u \in Targets : provider'[u] = provider[u] \/ provider'[u] \in DOMAIN subs'[u]
      BY <1>16, <2>t, <2>1 DEF Commit, WorldType
  <2>4. \A v \in Workers : \/ pc'[v] \notin Pointing \cup {"settle"}
                           \/ /\ pc'[v] = pc[v] /\ target'[v] = target[v]
                              /\ sub'[v] = sub[v] /\ count'[v] = count[v]
      BY <1>16 DEF Commit, Goto, RunType, Pointing
  <2> QED
      BY <1>16, <2>2, <2>3, <2>4, KeepLive DEF Commit, postVars
<1>17. ASSUME NEW w \in Workers, Notify(w) PROVE LiveInv'
    BY <1>17, GotoLive, ExitLive DEF Notify, SetPost, worldVars, postVars, targetVars,
       WorldType, Pointing
<1>18. ASSUME NEW w \in Workers, ReadAttempts(w) PROVE LiveInv'
    BY <1>18, KeepLive DEF ReadAttempts, worldVars, targetVars, postVars, RunType,
       WorldType, Pointing
<1>19. ASSUME NEW w \in Workers, Release(w) PROVE LiveInv'
  <2>1. \A t \in Targets : status'[t] = "PUBLISHED" => status[t] = "PUBLISHED"
      BY <1>19 DEF Release, ReleaseAs, WorldType
  <2>2. \A v \in Workers : \/ pc'[v] \notin Pointing \cup {"settle"}
                           \/ /\ pc'[v] = pc[v] /\ target'[v] = target[v]
                              /\ sub'[v] = sub[v] /\ count'[v] = count[v]
      BY <1>19 DEF Release, ReleaseAs, RunType, Pointing
  <2> QED
      BY <1>19, <2>1, <2>2, KeepLive DEF Release, ReleaseAs, postVars
<1>20. ASSUME NEW w \in Workers, GiveUp(w) PROVE LiveInv'
    BY <1>20, GotoLive, ExitLive DEF GiveUp, SetPost, worldVars, postVars, targetVars,
       WorldType, Pointing
<1>21. ASSUME NEW w \in Workers, CountPublished(w) PROVE LiveInv'
    BY <1>21, GotoLive, ExitLive DEF CountPublished, SetPost, worldVars, postVars,
       targetVars, WorldType, Pointing
<1>22. ASSUME NEW w \in Workers, Revert(w) PROVE LiveInv'
    BY <1>22, GotoLive, ExitLive DEF Revert, SetPost, worldVars, postVars, targetVars,
       WorldType, Pointing
<1>23. ASSUME NEW w \in Workers, CountRemaining(w) PROVE LiveInv'
    BY <1>23, GotoLive, ExitLive DEF CountRemaining, SetPost, worldVars, postVars,
       targetVars, WorldType, Pointing
<1>24. ASSUME NEW w \in Workers, Tally(w) PROVE LiveInv'
  <2> DEFINE t == target[w]
  <2>t. t \in Targets
      BY <1>24 DEF Tally, At, RunType, WorkersPlaced, Placed
  <2>1. CountIn(PostAt(w), {"PUBLISHED"}) > 0 => \E u \in TargetsOf(PostAt(w)) : Live(u)
      BY CountPositive DEF LiveInv, PublishedIsLive, TargetsOf
  <2>2. Shown(w)'
      BY <1>24, <2>1 DEF Tally, Shown, Pointing, PostAt, RunType, worldVars,
         TargetsOf, Live
  <2>3. \A v \in Workers \ {w} : /\ pc'[v] = pc[v] /\ target'[v] = target[v]
                               /\ sub'[v] = sub[v] /\ count'[v] = count[v]
      BY <1>24 DEF Tally, RunType
  <2> QED
      BY <1>24, <2>2, <2>3, KeepLive DEF Tally, worldVars, targetVars, postVars
<1>25. ASSUME NEW w \in Workers, Settle(w) PROVE LiveInv'
  <2> DEFINE t == target[w]
  <2>t. t \in Targets
      BY <1>25 DEF Settle, At, RunType, WorkersPlaced, Placed
  <2>1. count[w] > 0 => \E u \in TargetsOf(PostAt(w)) : Live(u)'
      BY <1>25 DEF Settle, At, LiveInv, Shown, Live
  <2>2. \A p \in Posts : post'[p] = "PUBLISHED" =>
           post[p] = "PUBLISHED" \/ \E u \in TargetsOf(p) : Live(u)'
      BY <1>25, <2>1 DEF Settle, SetPost, WorldType
  <2>3. \A v \in Workers : \/ pc'[v] \notin Pointing \cup {"settle"}
                           \/ /\ pc'[v] = pc[v] /\ target'[v] = target[v]
                              /\ sub'[v] = sub[v] /\ count'[v] = count[v]
      BY <1>25 DEF Settle, Goto, Exit, Begin, RunType, Pointing
  <2> QED
      BY <1>25, <2>2, <2>3, KeepLive DEF Settle, targetVars
<1>26. ASSUME NEW w \in Workers, CountFailed(w) PROVE LiveInv'
    BY <1>26, GotoLive, ExitLive DEF CountFailed, SetPost, worldVars, postVars,
       targetVars, WorldType, Pointing
<1>27. ASSUME NEW w \in Workers, Purge(w) PROVE LiveInv'
    BY <1>27, GotoLive, ExitLive DEF Purge, SetPost, worldVars, postVars, targetVars,
       WorldType, Pointing
<1>28. ASSUME NEW w \in Workers, NEW t \in Targets, Track(w, t) PROVE LiveInv'
  <2>1. provider[t] \in DOMAIN subs[t]
      BY <1>28 DEF Track, Trackable, LiveInv
  <2>2. Shown(w)'
      BY <1>28, <2>1 DEF Track, Begin, Shown, Pointing, RunType, worldVars
  <2>3. \A v \in Workers \ {w} : /\ pc'[v] = pc[v] /\ target'[v] = target[v]
                               /\ sub'[v] = sub[v] /\ count'[v] = count[v]
      BY <1>28 DEF Track, Begin, RunType
  <2> QED
      BY <1>28, <2>2, <2>3, KeepLive DEF Track, worldVars, targetVars, postVars
<1>29. ASSUME NEW w \in Workers, Poll(w) PROVE LiveInv'
  <2>1. sub[w] \in DOMAIN subs[target[w]]
      BY <1>29 DEF Poll, At, LiveInv, Shown, Pointing
  <2>2. CASE Goto(w, "confirm") /\ subs[target[w]][sub[w]] = "live"
    <3>1. Shown(w)'
        BY <1>29, <2>1, <2>2 DEF Poll, Goto, Shown, Pointing, RunType, worldVars, Live
    <3>2. \A v \in Workers \ {w} : /\ pc'[v] = pc[v] /\ target'[v] = target[v]
                                 /\ sub'[v] = sub[v] /\ count'[v] = count[v]
        BY <2>2 DEF Goto, RunType
    <3> QED
        BY <1>29, <3>1, <3>2, KeepLive DEF Poll, worldVars, targetVars, postVars
  <2>3. CASE Goto(w, "fail") \/ Exit(w)
      BY <1>29, <2>3, GotoLive, ExitLive DEF Poll, worldVars, targetVars, postVars,
         Pointing
  <2> QED BY <1>29, <2>2, <2>3 DEF Poll
<1>30. ASSUME NEW w \in Workers, ConfirmRead(w) PROVE LiveInv'
  <2>1. sub[w] \in DOMAIN subs[target[w]] /\ Live(target[w])
      BY <1>30 DEF ConfirmRead, At, LiveInv, Shown, Pointing
  <2>2. CASE Goto(w, "confirmWrite")
    <3>1. Shown(w)'
        BY <1>30, <2>1, <2>2 DEF ConfirmRead, Goto, Shown, Pointing, RunType,
           worldVars, Live
    <3>2. \A v \in Workers \ {w} : /\ pc'[v] = pc[v] /\ target'[v] = target[v]
                                 /\ sub'[v] = sub[v] /\ count'[v] = count[v]
        BY <2>2 DEF Goto, RunType
    <3> QED
        BY <1>30, <3>1, <3>2, KeepLive DEF ConfirmRead, worldVars, targetVars, postVars
  <2>3. CASE Exit(w)
      BY <1>30, <2>3, ExitLive DEF ConfirmRead, worldVars, targetVars, postVars
  <2> QED BY <1>30, <2>2, <2>3 DEF ConfirmRead
<1>31. ASSUME NEW w \in Workers, ConfirmWrite(w) PROVE LiveInv'
  <2> DEFINE t == target[w]
  <2>t. t \in Targets
      BY <1>31 DEF ConfirmWrite, At, RunType, WorkersPlaced, Placed
  <2>1. sub[w] \in DOMAIN subs[t] /\ Live(t)
      BY <1>31 DEF ConfirmWrite, At, LiveInv, Shown, Pointing
  <2>2. \A u \in Targets : status'[u] = "PUBLISHED" => status[u] = "PUBLISHED" \/ Live(u)'
      BY <1>31, <2>t, <2>1 DEF ConfirmWrite, WorldType, Live
  <2>3. \A u \in Targets : provider'[u] = provider[u] \/ provider'[u] \in DOMAIN subs'[u]
      BY <1>31, <2>t, <2>1 DEF ConfirmWrite, WorldType
  <2>4. \A v \in Workers : \/ pc'[v] \notin Pointing \cup {"settle"}
                           \/ /\ pc'[v] = pc[v] /\ target'[v] = target[v]
                              /\ sub'[v] = sub[v] /\ count'[v] = count[v]
      BY <1>31 DEF ConfirmWrite, Goto, RunType, Pointing
  <2> QED
      BY <1>31, <2>2, <2>3, <2>4, KeepLive DEF ConfirmWrite, postVars
<1>32. ASSUME NEW w \in Workers, FailRead(w) PROVE LiveInv'
    BY <1>32, GotoLive, ExitLive DEF FailRead, SetPost, worldVars, postVars,
       targetVars, WorldType, Pointing
<1>33. ASSUME NEW w \in Workers, FailWrite(w) PROVE LiveInv'
  <2>1. \A t \in Targets : status'[t] = "PUBLISHED" => status[t] = "PUBLISHED"
      BY <1>33 DEF FailWrite, WorldType
  <2>2. \A v \in Workers : \/ pc'[v] \notin Pointing \cup {"settle"}
                           \/ /\ pc'[v] = pc[v] /\ target'[v] = target[v]
                              /\ sub'[v] = sub[v] /\ count'[v] = count[v]
      BY <1>33 DEF FailWrite, Goto, RunType, Pointing
  <2> QED
      BY <1>33, <2>1, <2>2, KeepLive DEF FailWrite, postVars
<1>34. ASSUME NEW w \in Workers, Crash(w) PROVE LiveInv'
    BY <1>34, GotoLive, ExitLive DEF Crash, SetPost, worldVars, postVars, targetVars,
       WorldType, Pointing
<1>35. ASSUME NEW w \in Workers, DbFailure(w) PROVE LiveInv'
    BY <1>35, GotoLive, ExitLive DEF DbFailure, SetPost, worldVars, postVars,
       targetVars, WorldType, Pointing
<1>36. ASSUME UNCHANGED vars PROVE LiveInv'
    BY <1>36 DEF vars, LiveInv, Shown, PublishedIsLive, PostPublishedIsLive, Live,
       PostAt
<1> QED
    BY <1>1, <1>2, <1>3, <1>4, <1>5, <1>6, <1>7, <1>8, <1>9, <1>10, <1>11, <1>12,
       <1>13, <1>14, <1>15, <1>16, <1>17, <1>18, <1>19, <1>20, <1>21, <1>22, <1>23,
       <1>24, <1>25, <1>26, <1>27, <1>28, <1>29, <1>30, <1>31, <1>32, <1>33, <1>34,
       <1>35, <1>36 DEF Next, Step

-----------------------------------------------------------------------------
(* The inductive invariant, and what follows from it.                      *)

\* What holds in every state, and is preserved by every step.
IInv == ClaimInv /\ SubmissionsInv /\ AttemptsInv(0) /\ LiveInv

\* It holds of the first rows, before any execution has started.
LEMMA InitInv == Init => IInv
<1> SUFFICES ASSUME Init PROVE IInv
    OBVIOUS
<1>1. TypeOK
    BY InitType
<1>2. /\ \A w \in Workers : /\ pc[w] = "idle" /\ path[w] = "none"
                            /\ target[w] = NoTarget
      /\ \A t \in Targets : /\ status[t] \in {"ABSENT", "PENDING"}
                            /\ subs[t] = <<>> /\ attempts[t] = 0 /\ provider[t] = 0
      /\ \A p \in Posts : post[p] = "SCHEDULED"
      /\ Faults = 0 /\ crashes = 0
    BY DEF Init, InitialPosts, Faults
<1>3. WorkersPlaced
    BY <1>2, TargetsAssumption DEF WorkersPlaced, Placed, PreCommit, Catching, Released,
       Finalizing, Reconciling, Attaching
<1>4. ClaimExclusion /\ OwnersClaim
    BY <1>2 DEF ClaimExclusion, ExclusiveOn, OwnersClaim, Claimed, Owns
<1>5. SubmissionsInv
    BY <1>2 DEF SubmissionsInv, Catching, Instagram
<1>6. AttemptsInv(0)
    BY <1>2, LimitsAssumption DEF AttemptsInv, Instagram
<1>7. LiveInv
    BY <1>2 DEF LiveInv, PublishedIsLive, PostPublishedIsLive, Shown, Pointing
<1> QED
    BY <1>1, <1>3, <1>4, <1>5, <1>6, <1>7 DEF IInv, ClaimInv

\* Every step of every execution, of the clock and of TikTok preserves it.
LEMMA NextInv == IInv /\ [Next]_vars => IInv'
<1> SUFFICES ASSUME IInv, [Next]_vars PROVE IInv'
    OBVIOUS
<1>1. ClaimInv /\ RunType
    BY TypeHalves DEF IInv, ClaimInv
<1>2. ClaimInv'
    BY <1>1, NextType, NextPlaced, NextClaim DEF ClaimInv
<1>3. SubmissionsInv' /\ LiveInv'
    BY NextSubmissions, NextLive DEF IInv
<1>4. AttemptsInv(0)'
    BY NextAttempts DEF IInv
<1> QED
    BY <1>2, <1>3, <1>4 DEF IInv

\* The inductive invariant holds in every behaviour of the publishing engine:
\* executions may be interleaved, killed and repeated at will.
THEOREM Inductive == Spec => []IInv
BY InitInv, NextInv, PTL DEF Spec

\* Every field of every row, and the progress of every execution, stays in its
\* type: publishOne, finalizeIfComplete and the reconciliation never write a
\* status of one enum into a column of the other.
THEOREM TypeCorrect == Spec => []TypeOK
<1>1. IInv => TypeOK
    BY DEF IInv, ClaimInv
<1> QED BY <1>1, Inductive, PTL

\* The compare-and-swap of publishOne keeps two executions from working on the
\* same target, for any number of passes, targets and crashes.
THEOREM Exclusion == Spec => []ClaimExclusion
<1>1. IInv => ClaimExclusion
    BY DEF IInv, ClaimInv
<1> QED BY <1>1, Inductive, PTL

\* Instagram accepts a target once, and once more at most for every function
\* killed, statement that threw after its answer, and answer that was lost.
THEOREM NoDuplicateWithoutFault == Spec => []DuplicatesNeedFaults
<1>1. IInv => DuplicatesNeedFaults
    BY DEF IInv, SubmissionsInv, DuplicatesNeedFaults
<1> QED BY <1>1, Inductive, PTL

\* The catch block of publishOne stops a target at MAX_PUBLISH_ATTEMPTS; only a
\* killed execution, which never reaches it, adds an attempt.
THEOREM BoundedAttempts == Spec => []AttemptsBounded
<1>1. IInv => AttemptsBounded
  <2> SUFFICES ASSUME IInv, NEW t \in Targets
               PROVE  attempts[t] <= MaxAttempts + crashes
      BY DEF AttemptsBounded
  <2>1. MaxAttempts + crashes \in Nat
      BY LimitsAssumption DEF IInv, ClaimInv, TypeOK
  <2> QED BY <2>1 DEF IInv, AttemptsInv
<1> QED BY <1>1, Inductive, PTL

\* The catch block never fails an Instagram target before its last attempt.
THEOREM NoEarlyFailure == Spec => []FailedIsExhausted
<1>1. IInv => FailedIsExhausted
    BY DEF IInv, AttemptsInv, FailedIsExhausted, Instagram
<1> QED BY <1>1, Inductive, PTL

\* What publishOne and the reconciliation record as published is live on its
\* platform, although each writes what an answer or a poll said statements ago.
THEOREM RecordedIsLive == Spec => []PublishedIsLive
<1>1. IInv => PublishedIsLive
    BY DEF IInv, LiveInv
<1> QED BY <1>1, Inductive, PTL

\* A post that finalizeIfComplete settles as published is live somewhere: the
\* count it read statements earlier has not become false by the time it writes.
THEOREM SettledIsLive == Spec => []PostPublishedIsLive
<1>1. IInv => PostPublishedIsLive
    BY DEF IInv, LiveInv
<1> QED BY <1>1, Inductive, PTL
=============================================================================
