--------------------------- MODULE SettlementProofs ---------------------------
(***************************************************************************)
(* What becomes final in module Publishing: a post that finalizeIfComplete *)
(* has settled, an outcome of a target, and the media that a published     *)
(* post gives up; for any number of posts, targets and executions.         *)
(*                                                                         *)
(* finalizeIfComplete reads five times and trusts, at each statement, what *)
(* the ones before it have seen.  The invariants here say what it may      *)
(* trust: targets that were resolved when it counted them stay resolved.   *)
(* That needs the columns of a row to agree about who works on it          *)
(* (JobsInv), and a TikTok job may be confirmed while nothing owns it; an  *)
(* error after the platform's answer takes it away, and those statements   *)
(* are about runs without one.                                             *)
(***************************************************************************)
EXTENDS PublishingProofs

\* The targets of the posts that had connected accounts when they were
\* scheduled: their rows exist from the start, and no pass attaches others.
Planned == {t \in Targets : PostOf[t] \notin BarePosts}

PlannedInv ==
    /\ \A t \in Planned : status[t] # "ABSENT"
    /\ \A w \in Workers : pc[w] \in Attaching => PostAt(w) \in BarePosts

\* A worker at one of the steps S works on the post of target t.
Closes(w, t, S) == pc[w] \in S /\ target[w] \in TargetsOf(PostOf[t])
Closing == {"tally", "settle", "clean", "purge"}

\* An Instagram target that was counted as resolved is live or has failed for
\* good, and is live when its post gives up its media.
CountedInv ==
    \A t \in Planned \cap Instagram, w \in Workers :
        /\ Closes(w, t, {"tally", "settle", "clean"}) => Live(t) \/ status[t] = "FAILED"
        /\ Closes(w, t, {"purge"}) => Live(t)

\* An asset is freed only with a post of it that has no TikTok target, when all of
\* its targets are live.
LiveThroughout(p) == \A t \in Planned \cap TargetsOf(p) : t \in Instagram /\ Live(t)
FreedInv ==
    \A a \in Assets : ~blob[a] =>
        \E p \in Posts : a \in MediaOf[p] /\ LiveThroughout(p)

MediaInv == CountedInv /\ FreedInv

\* Until a statement fails after the platform's answer: whoever may still send
\* a target owns a row that names no submission, ...
Unsent(w) ==
    Owns(w) /\ pc[w] \in PreCommit \cup Catching =>
        /\ status[target[w]] = "PUBLISHING" /\ claimedAt[target[w]] = "fresh"
        /\ provider[target[w]] = 0

\* ... and a row that names one is resolved, or a job that TikTok has.
JobsInv ==
    /\ \A w \in Workers : Unsent(w)
    /\ \A w \in Workers : pc[w] \in Reconciling => provider[target[w]] # 0
    /\ \A t \in Targets : provider[t] # 0 =>
          status[t] \in {"PUBLISHED", "FAILED"} \/ Awaiting(t)

\* A post that is settled, or about to be, has resolved targets only.
Resolved(t) == status[t] \in {"PUBLISHED", "FAILED"}
SettledInv ==
    \A t \in Planned :
        /\ post[PostOf[t]] \in {"PUBLISHED", "FAILED"} => Resolved(t)
        /\ \A w \in Workers : Closes(w, t, Closing) => Resolved(t)

\* A post that has failed, or is about to, has failed everywhere on Instagram.
FailedInv ==
    \A t \in Planned \cap Instagram :
        /\ post[PostOf[t]] = "FAILED" => status[t] = "FAILED"
        /\ \A w \in Workers :
              Closes(w, t, {"settle"}) /\ count[w] = 0 => status[t] = "FAILED"

SInv ==
    /\ IInv /\ PlannedInv /\ MediaInv
    /\ dbFailures = 0 => JobsInv /\ SettledInv /\ FailedInv

-----------------------------------------------------------------------------
(* Who writes what.                                                        *)

\* The steps of execution w.
Acts(w) ==
    \/ FindBare(w) \/ \E t \in Targets : Read(w, t) \/ Track(w, t)
    \/ Step(w) \/ Crash(w) \/ DbFailure(w)

\* Every other step leaves the executions alone.
LEMMA Moves ==
    ASSUME [Next]_vars
    PROVE  UNCHANGED runVars \/ \E w \in Workers : Acts(w)
<1>1. CASE \/ \E p \in Posts : BecomeDue(p) \/ AgePost(p)
           \/ \E t \in Targets : ExpireClaim(t) \/ SettleJob(t)
           \/ Sweep \/ DropHanded
    BY <1>1 DEF BecomeDue, AgePost, ExpireClaim, SettleJob, Sweep, DropHanded
<1>2. CASE \E w \in Workers : Acts(w)
    BY <1>2
<1>3. CASE UNCHANGED vars
    BY <1>3 DEF vars, runVars
<1> QED BY <1>1, <1>2, <1>3 DEF Next, Acts

\* What an execution knows of itself.
Same(v) == /\ pc'[v] = pc[v] /\ target'[v] = target[v] /\ path'[v] = path[v]
           /\ sub'[v] = sub[v] /\ count'[v] = count[v]

LEMMA OthersSame ==
    ASSUME RunType, NEW w \in Workers, Acts(w), NEW v \in Workers \ {w}
    PROVE  Same(v)
<1>1. ASSUME NEW l, Goto(w, l) PROVE Same(v)
    BY <1>1 DEF Goto, Same, RunType
<1>2. ASSUME Exit(w) PROVE Same(v)
    BY <1>2 DEF Exit, Begin, Same, RunType
<1>3. ASSUME NEW l, Submit(w, l) PROVE Same(v)
    BY <1>3 DEF Submit, Same, RunType
<1>4. CASE FindBare(w) \/ \E t \in Targets : Read(w, t) \/ Track(w, t)
    BY <1>4 DEF FindBare, Read, Track, Begin, Same, RunType
<1>5. CASE ReadAttempts(w) \/ Release(w) \/ Tally(w)
    BY <1>5 DEF ReadAttempts, Release, ReleaseAs, Tally, Same, RunType
<1>6. CASE Attach(w) \/ FailBare(w) \/ Claim(w) \/ MarkPost(w) \/ Preflight(w)
           \/ RefreshAndRetry(w)
    BY <1>1, <1>2, <1>6 DEF Attach, FailBare, Claim, MarkPost, Preflight, RefreshAndRetry
<1>7. CASE CallPlatform(w)
    BY <1>1, <1>3, <1>7 DEF CallPlatform
<1>8. CASE \/ Commit(w) \/ Notify(w) \/ GiveUp(w) \/ CountPublished(w) \/ Revert(w)
           \/ CountRemaining(w) \/ Settle(w) \/ CountFailed(w) \/ Purge(w)
    BY <1>1, <1>2, <1>8 DEF Commit, Notify, GiveUp, CountPublished, Revert,
       CountRemaining, Settle, CountFailed, Purge
<1>9. CASE Poll(w) \/ ConfirmRead(w) \/ ConfirmWrite(w) \/ FailRead(w) \/ FailWrite(w)
    BY <1>1, <1>2, <1>9 DEF Poll, ConfirmRead, ConfirmWrite, FailRead, FailWrite
<1>10. CASE Crash(w) \/ DbFailure(w)
    BY <1>1, <1>2, <1>10 DEF Crash, DbFailure
<1> QED BY <1>4, <1>5, <1>6, <1>7, <1>8, <1>9, <1>10 DEF Acts, Step

\* The statements that write a row of the PostTarget table.
Writes(w) == Claim(w) \/ Commit(w) \/ Release(w) \/ ConfirmWrite(w) \/ FailWrite(w)
SameRow(t) == /\ status'[t] = status[t] /\ claimedAt'[t] = claimedAt[t]
              /\ provider'[t] = provider[t]
Attached(w, t) == /\ Attach(w) /\ t \in TargetsOf(PostAt(w))
                  /\ status[t] = "ABSENT" /\ status'[t] = "PENDING"
                  /\ claimedAt'[t] = claimedAt[t] /\ provider'[t] = provider[t]

LEMMA RowStep ==
    ASSUME WorldType, [Next]_vars, NEW t \in Targets
    PROVE  \/ SameRow(t)
           \/ \E w \in Workers : Writes(w) /\ target[w] = t
           \/ \E w \in Workers : Attached(w, t)
           \/ ExpireClaim(t)
<1>1. CASE UNCHANGED <<status, claimedAt, provider>>
    BY <1>1 DEF SameRow
<1>2. ASSUME NEW w \in Workers, Writes(w), target[w] # t
      PROVE  SameRow(t)
  <2>1. CASE Claim(w)
      BY <1>2, <2>1 DEF Claim, SameRow, WorldType
  <2>2. CASE Commit(w)
      BY <1>2, <2>2 DEF Commit, SameRow, WorldType
  <2>3. CASE Release(w)
      BY <1>2, <2>3 DEF Release, ReleaseAs, SameRow, WorldType
  <2>4. CASE ConfirmWrite(w)
      BY <1>2, <2>4 DEF ConfirmWrite, SameRow, WorldType
  <2>5. CASE FailWrite(w)
      BY <1>2, <2>5 DEF FailWrite, SameRow, WorldType
  <2> QED BY <1>2, <2>1, <2>2, <2>3, <2>4, <2>5 DEF Writes
<1>3. ASSUME NEW w \in Workers, Attach(w)
      PROVE  SameRow(t) \/ Attached(w, t)
  <2>1. UNCHANGED <<claimedAt, provider>>
      BY <1>3 DEF Attach
  <2>2. PICK connected \in SUBSET TargetsOf(PostAt(w)) :
           \/ UNCHANGED status
           \/ /\ connected \cap Rows(PostAt(w)) = {}
              /\ status' = [u \in Targets |-> IF u \in connected THEN "PENDING"
                                                                 ELSE status[u]]
           \/ status' = [u \in Targets |-> IF u \in connected \ Rows(PostAt(w))
                                           THEN "PENDING" ELSE status[u]]
      BY <1>3 DEF Attach
  <2>3. CASE status'[t] = status[t]
      BY <2>1, <2>3 DEF SameRow
  <2>4. CASE status'[t] # status[t]
    <3>1. t \in connected \ Rows(PostAt(w)) /\ status'[t] = "PENDING"
        BY <2>2, <2>4
    <3>2. t \in TargetsOf(PostAt(w)) /\ status[t] = "ABSENT"
        BY <3>1 DEF Rows
    <3> QED BY <1>3, <2>1, <3>1, <3>2 DEF Attached
  <2> QED BY <2>3, <2>4
<1>4. ASSUME NEW u \in Targets, ExpireClaim(u), u # t PROVE SameRow(t)
    BY <1>4 DEF ExpireClaim, SameRow, WorldType
<1>5. ASSUME NEW w \in Workers,
             \/ FailBare(w) \/ MarkPost(w) \/ Preflight(w) \/ CallPlatform(w)
             \/ RefreshAndRetry(w) \/ Notify(w) \/ ReadAttempts(w) \/ GiveUp(w)
      PROVE  UNCHANGED <<status, claimedAt, provider>>
    BY <1>5 DEF FailBare, MarkPost, Preflight, CallPlatform, RefreshAndRetry, Notify,
       ReadAttempts, GiveUp, worldVars, targetVars
<1>6. ASSUME NEW w \in Workers,
             \/ CountPublished(w) \/ Revert(w) \/ CountRemaining(w) \/ Tally(w)
             \/ Settle(w) \/ CountFailed(w) \/ Purge(w)
             \/ Poll(w) \/ ConfirmRead(w) \/ FailRead(w)
      PROVE  UNCHANGED <<status, claimedAt, provider>>
    BY <1>6 DEF CountPublished, Revert, CountRemaining, Tally, Settle, CountFailed, Purge,
       Poll, ConfirmRead, FailRead, worldVars, targetVars
<1>7. ASSUME NEW w \in Workers,
             \/ FindBare(w) \/ Crash(w) \/ DbFailure(w)
             \/ \E u \in Targets : Read(w, u) \/ Track(w, u)
      PROVE  UNCHANGED <<status, claimedAt, provider>>
    BY <1>7 DEF FindBare, Crash, DbFailure, Read, Track, worldVars, targetVars
<1>8. CASE \/ \E p \in Posts : BecomeDue(p) \/ AgePost(p)
           \/ \E u \in Targets : SettleJob(u)
           \/ Sweep \/ DropHanded \/ UNCHANGED vars
    BY <1>1, <1>8 DEF BecomeDue, AgePost, SettleJob, Sweep, DropHanded, targetVars, vars
<1> QED
    BY <1>1, <1>2, <1>3, <1>4, <1>5, <1>6, <1>7, <1>8 DEF Next, Step, Writes

\* The statements that write a row of the Post table.
SamePost(p) == post'[p] = post[p]
Settles(w)  == MarkPost(w) \/ Revert(w) \/ FailBare(w) \/ Settle(w)

LEMMA PostStep ==
    ASSUME WorldType, [Next]_vars, NEW p \in Posts
    PROVE  SamePost(p) \/ \E w \in Workers : Settles(w) /\ PostAt(w) = p
<1>1. CASE UNCHANGED post
    BY <1>1 DEF SamePost
<1>2. ASSUME NEW w \in Workers, Settles(w), PostAt(w) # p
      PROVE  SamePost(p)
  <2>1. CASE MarkPost(w) \/ Revert(w)
      BY <1>2, <2>1 DEF MarkPost, Revert, SetPost, SamePost, WorldType
  <2>2. CASE FailBare(w) \/ Settle(w)
      BY <1>2, <2>2 DEF FailBare, Settle, SetPost, SamePost, WorldType
  <2> QED BY <1>2, <2>1, <2>2 DEF Settles
<1>3. ASSUME NEW w \in Workers,
             \/ Attach(w) \/ Claim(w) \/ Preflight(w) \/ CallPlatform(w) \/ Commit(w)
             \/ RefreshAndRetry(w) \/ Notify(w) \/ ReadAttempts(w) \/ Release(w)
      PROVE  UNCHANGED post
    BY <1>3 DEF Attach, Claim, Preflight, CallPlatform, Commit, RefreshAndRetry, Notify,
       ReadAttempts, Release, ReleaseAs, worldVars, postVars
<1>4. ASSUME NEW w \in Workers,
             \/ GiveUp(w) \/ CountPublished(w) \/ CountRemaining(w) \/ Tally(w)
             \/ CountFailed(w) \/ Purge(w) \/ Poll(w) \/ ConfirmRead(w) \/ ConfirmWrite(w)
             \/ FailRead(w) \/ FailWrite(w)
      PROVE  UNCHANGED post
    BY <1>4 DEF GiveUp, CountPublished, CountRemaining, Tally, CountFailed, Purge,
       Poll, ConfirmRead, ConfirmWrite, FailRead, FailWrite, worldVars, postVars
<1>5. ASSUME NEW w \in Workers,
             \/ FindBare(w) \/ Crash(w) \/ DbFailure(w)
             \/ \E u \in Targets : Read(w, u) \/ Track(w, u)
      PROVE  UNCHANGED post
    BY <1>5 DEF FindBare, Crash, DbFailure, Read, Track, worldVars, postVars
<1>6. CASE \/ \E q \in Posts : BecomeDue(q) \/ AgePost(q)
           \/ \E u \in Targets : ExpireClaim(u) \/ SettleJob(u)
           \/ Sweep \/ DropHanded \/ UNCHANGED vars
    BY <1>1, <1>6 DEF BecomeDue, AgePost, ExpireClaim, SettleJob, Sweep, DropHanded,
       postVars, vars
<1> QED
    BY <1>1, <1>2, <1>3, <1>4, <1>5, <1>6 DEF Next, Step, Settles

\* Only the last statement of finalizeIfComplete writes the MediaAsset table.
LEMMA BlobStep ==
    ASSUME [Next]_vars
    PROVE  UNCHANGED blob \/ \E w \in Workers : Purge(w)
<1>1. ASSUME NEW w \in Workers,
             \/ Attach(w) \/ FailBare(w) \/ Claim(w) \/ MarkPost(w) \/ Preflight(w)
             \/ CallPlatform(w) \/ RefreshAndRetry(w) \/ Commit(w) \/ Notify(w)
             \/ ReadAttempts(w) \/ Release(w)
      PROVE  UNCHANGED blob
    BY <1>1 DEF Attach, FailBare, Claim, MarkPost, Preflight, CallPlatform,
       RefreshAndRetry, Commit, Notify, ReadAttempts, Release, ReleaseAs, worldVars,
       postVars
<1>2. ASSUME NEW w \in Workers,
             \/ GiveUp(w) \/ CountPublished(w) \/ Revert(w) \/ CountRemaining(w)
             \/ Tally(w) \/ Settle(w) \/ CountFailed(w) \/ Poll(w) \/ ConfirmRead(w)
             \/ ConfirmWrite(w) \/ FailRead(w) \/ FailWrite(w)
      PROVE  UNCHANGED blob
    BY <1>2 DEF GiveUp, CountPublished, Revert, CountRemaining, Tally, Settle,
       CountFailed, Poll, ConfirmRead, ConfirmWrite, FailRead, FailWrite, worldVars,
       postVars
<1>3. ASSUME NEW w \in Workers,
             \/ FindBare(w) \/ Crash(w) \/ DbFailure(w)
             \/ \E u \in Targets : Read(w, u) \/ Track(w, u)
      PROVE  UNCHANGED blob
    BY <1>3 DEF FindBare, Crash, DbFailure, Read, Track, worldVars, postVars
<1>4. CASE \/ \E q \in Posts : BecomeDue(q) \/ AgePost(q)
           \/ \E u \in Targets : ExpireClaim(u) \/ SettleJob(u)
           \/ Sweep \/ DropHanded \/ UNCHANGED vars
    BY <1>4 DEF BecomeDue, AgePost, ExpireClaim, SettleJob, Sweep, DropHanded, postVars,
       vars
<1> QED BY <1>1, <1>2, <1>3, <1>4 DEF Next, Step

\* Where an execution that is at a step of S, one of two kinds, comes from: it
\* was there, or has just taken the step before.
LEMMA ClosingStep ==
    ASSUME RunType, WorkersPlaced, [Next]_vars, NEW w \in Workers, pc'[w] \in Closing
    PROVE  /\ target'[w] = target[w]
           /\ \/ pc'[w] = pc[w] /\ count'[w] = count[w]
              \/ pc'[w] = "tally" /\ CountRemaining(w)
              \/ pc'[w] = "settle" /\ Tally(w)
              \/ pc'[w] = "clean" /\ Settle(w)
              \/ pc'[w] = "purge" /\ CountFailed(w)
<1>1. CASE Same(w)
    BY <1>1 DEF Same
<1>2. CASE Acts(w)
  <2>1. ASSUME NEW l, Goto(w, l) PROVE pc'[w] = l /\ target'[w] = target[w]
      BY <2>1 DEF Goto, RunType
  <2>2. ASSUME Exit(w) PROVE pc'[w] = "idle"
      BY <2>2 DEF Exit, Begin, RunType
  <2>3. ASSUME NEW l, Submit(w, l) PROVE pc'[w] = l
      BY <2>3 DEF Submit, RunType
  <2>4. CASE FindBare(w) \/ \E t \in Targets : Read(w, t) \/ Track(w, t)
      BY <2>4 DEF FindBare, Read, Track, Begin, RunType, Closing
  <2>5. CASE ReadAttempts(w) \/ Release(w) \/ Tally(w)
      BY <2>5 DEF ReadAttempts, Release, ReleaseAs, Tally, RunType, Closing
  <2>6. CASE Attach(w) \/ FailBare(w) \/ Claim(w) \/ MarkPost(w) \/ Preflight(w)
             \/ RefreshAndRetry(w)
      BY <2>1, <2>2, <2>6 DEF Attach, FailBare, Claim, MarkPost, Preflight,
         RefreshAndRetry, Closing
  <2>7. CASE CallPlatform(w)
      BY <2>1, <2>3, <2>7 DEF CallPlatform, Closing
  <2>8. CASE Commit(w) \/ Notify(w) \/ GiveUp(w) \/ CountPublished(w) \/ Revert(w)
      BY <2>1, <2>2, <2>8 DEF Commit, Notify, GiveUp, CountPublished, Revert, Closing
  <2>9. CASE CountRemaining(w) \/ Settle(w) \/ CountFailed(w) \/ Purge(w)
      BY <2>1, <2>2, <2>9 DEF CountRemaining, Settle, CountFailed, Purge, Closing
  <2>10. CASE Poll(w) \/ ConfirmRead(w) \/ ConfirmWrite(w) \/ FailRead(w) \/ FailWrite(w)
      BY <2>1, <2>2, <2>10 DEF Poll, ConfirmRead, ConfirmWrite, FailRead, FailWrite,
         Closing
  <2>11. CASE Crash(w) \/ DbFailure(w)
      BY <2>1, <2>2, <2>11 DEF Crash, DbFailure, Closing
  <2> QED BY <1>2, <2>4, <2>5, <2>6, <2>7, <2>8, <2>9, <2>10, <2>11 DEF Acts, Step
<1>3. CASE UNCHANGED runVars
    BY <1>1, <1>3 DEF runVars, Same
<1> QED BY <1>1, <1>2, <1>3, Moves, OthersSame

\* Likewise for an execution that reconciles a job, or attaches targets.
LEMMA AsideStep ==
    ASSUME RunType, WorkersPlaced, [Next]_vars, NEW w \in Workers,
           pc'[w] \in Reconciling \cup Attaching
    PROVE  \/ /\ target'[w] = target[w]
              /\ pc'[w] \in Reconciling <=> pc[w] \in Reconciling
              /\ pc'[w] \in Attaching <=> pc[w] \in Attaching
           \/ \E t \in Targets : Track(w, t)
           \/ FindBare(w)
<1>1. CASE Same(w)
    BY <1>1 DEF Same
<1>2. CASE Acts(w)
  <2>1. ASSUME NEW l, Goto(w, l) PROVE pc'[w] = l /\ target'[w] = target[w]
      BY <2>1 DEF Goto, RunType
  <2>2. ASSUME Exit(w) PROVE pc'[w] = "idle"
      BY <2>2 DEF Exit, Begin, RunType
  <2>3. ASSUME NEW l, Submit(w, l) PROVE pc'[w] = l
      BY <2>3 DEF Submit, RunType
  <2>4. CASE \E t \in Targets : Read(w, t)
      BY <2>4 DEF Read, Begin, RunType, Reconciling, Attaching
  <2>5. CASE ReadAttempts(w) \/ Release(w) \/ Tally(w)
      BY <2>5 DEF ReadAttempts, Release, ReleaseAs, Tally, RunType, Reconciling, Attaching
  <2>6. CASE FailBare(w) \/ Claim(w) \/ MarkPost(w) \/ Preflight(w) \/ RefreshAndRetry(w)
      BY <2>1, <2>2, <2>6 DEF FailBare, Claim, MarkPost, Preflight, RefreshAndRetry,
         Reconciling, Attaching
  <2>7. CASE CallPlatform(w)
      BY <2>1, <2>3, <2>7 DEF CallPlatform, Reconciling, Attaching
  <2>8. CASE Commit(w) \/ Notify(w) \/ GiveUp(w) \/ CountPublished(w) \/ Revert(w)
      BY <2>1, <2>2, <2>8 DEF Commit, Notify, GiveUp, CountPublished, Revert, Reconciling,
         Attaching
  <2>9. CASE CountRemaining(w) \/ Settle(w) \/ CountFailed(w) \/ Purge(w)
      BY <2>1, <2>2, <2>9 DEF CountRemaining, Settle, CountFailed, Purge, Reconciling,
         Attaching
  <2>10. CASE Attach(w)
      BY <2>1, <2>2, <2>10 DEF Attach, At, Reconciling, Attaching
  <2>11. CASE Poll(w) \/ ConfirmRead(w) \/ FailRead(w)
      BY <2>1, <2>2, <2>11 DEF Poll, ConfirmRead, FailRead, At, Reconciling, Attaching
  <2>12. CASE ConfirmWrite(w) \/ FailWrite(w)
      BY <2>1, <2>12 DEF ConfirmWrite, FailWrite, Reconciling, Attaching
  <2>13. CASE Crash(w) \/ DbFailure(w)
      BY <2>1, <2>2, <2>13 DEF Crash, DbFailure, Reconciling, Attaching
  <2> QED BY <1>2, <2>4, <2>5, <2>6, <2>7, <2>8, <2>9, <2>10, <2>11, <2>12, <2>13
          DEF Acts, Step
<1>3. CASE UNCHANGED runVars
    BY <1>1, <1>3 DEF runVars, Same
<1> QED BY <1>1, <1>2, <1>3, Moves, OthersSame

\* An execution that may still send its target claimed it just now, or could
\* already and has written no target row since; or a statement has failed.
LEMMA SenderStep ==
    ASSUME RunType, WorkersPlaced, [Next]_vars, NEW w \in Workers,
           Owns(w)', pc'[w] \in PreCommit \cup Catching
    PROVE  /\ target'[w] = target[w]
           /\ \/ Claim(w) /\ Claimable(target[w])
              \/ DbFailure(w)
              \/ /\ Owns(w) /\ pc[w] \in PreCommit \cup Catching
                 /\ ~Commit(w) /\ ~Release(w)
<1>1. CASE Same(w)
  <2>1. ~Commit(w) /\ ~Release(w)
      BY <1>1 DEF Commit, Release, ReleaseAs, Goto, At, Same, RunType
  <2> QED BY <1>1, <2>1 DEF Same, Owns
<1>2. CASE Acts(w)
  <2> USE DEF PreCommit, Catching
  <2>1. ASSUME NEW l, Goto(w, l)
        PROVE  pc'[w] = l /\ target'[w] = target[w] /\ path'[w] = path[w]
      BY <2>1 DEF Goto, RunType
  <2>2. ASSUME Exit(w) PROVE pc'[w] = "idle"
      BY <2>2 DEF Exit, Begin, RunType
  <2>3. ASSUME NEW l, Submit(w, l)
        PROVE  pc'[w] = l /\ target'[w] = target[w] /\ path'[w] = path[w]
      BY <2>3 DEF Submit, RunType
  <2>4. CASE FindBare(w) \/ \E t \in Targets : Read(w, t) \/ Track(w, t)
      BY <2>4 DEF FindBare, Read, Track, Begin, RunType
  <2>5. CASE Release(w) \/ Tally(w)
      BY <2>5 DEF Release, ReleaseAs, Tally, RunType
  <2>6. CASE Attach(w) \/ FailBare(w)
      BY <2>1, <2>2, <2>6 DEF Attach, FailBare
  <2>7. CASE Claim(w)
      BY <2>1, <2>2, <2>7 DEF Claim
  <2>8. CASE MarkPost(w) \/ Preflight(w) \/ RefreshAndRetry(w)
    <3>1. pc[w] \in {"claimed", "marked", "call"} /\ target'[w] = target[w]
          /\ path'[w] = path[w]
        BY <2>1, <2>8 DEF MarkPost, Preflight, RefreshAndRetry, At
    <3> QED BY <3>1 DEF Owns, Commit, Release, ReleaseAs, At
  <2>9. CASE CallPlatform(w)
    <3>1. pc[w] \in {"call", "recall"} /\ target'[w] = target[w] /\ path'[w] = path[w]
        BY <2>1, <2>3, <2>9 DEF CallPlatform
    <3> QED BY <3>1 DEF Owns, Commit, Release, ReleaseAs, At
  <2>10. CASE ReadAttempts(w)
    <3>1. pc[w] = "catch" /\ target'[w] = target[w] /\ path'[w] = path[w]
        BY <2>10 DEF ReadAttempts, At
    <3> QED BY <3>1 DEF Owns, Commit, Release, ReleaseAs, At
  <2>11. CASE Commit(w) \/ Notify(w) \/ GiveUp(w) \/ CountPublished(w) \/ Revert(w)
      BY <2>1, <2>2, <2>11 DEF Commit, Notify, GiveUp, CountPublished, Revert
  <2>12. CASE CountRemaining(w) \/ Settle(w) \/ CountFailed(w) \/ Purge(w)
      BY <2>1, <2>2, <2>12 DEF CountRemaining, Settle, CountFailed, Purge
  <2>13. CASE Poll(w) \/ ConfirmRead(w) \/ ConfirmWrite(w) \/ FailRead(w) \/ FailWrite(w)
      BY <2>1, <2>2, <2>13 DEF Poll, ConfirmRead, ConfirmWrite, FailRead, FailWrite
  <2>14. CASE Crash(w) \/ DbFailure(w)
      BY <2>1, <2>2, <2>14 DEF Crash, DbFailure
  <2> QED BY <1>2, <2>4, <2>5, <2>6, <2>7, <2>8, <2>9, <2>10, <2>11, <2>12, <2>13, <2>14
          DEF Acts, Step
<1>3. CASE UNCHANGED runVars
    BY <1>1, <1>3 DEF runVars, Same
<1> QED BY <1>1, <1>2, <1>3, Moves, OthersSame

-----------------------------------------------------------------------------
(* What the statements of finalizeIfComplete may trust.                    *)

\* Faults are counted and never forgotten.
LEMMA NoFailureYet ==
    ASSUME WorldType, [Next]_vars, dbFailures' = 0
    PROVE  dbFailures = 0 /\ \A w \in Workers : ~DbFailure(w)
<1>1. ASSUME NEW w \in Workers, DbFailure(w) PROVE FALSE
    BY <1>1 DEF DbFailure, WorldType
<1>2. CASE UNCHANGED dbFailures
    BY <1>1, <1>2
<1>3. CASE \/ \E p \in Posts : BecomeDue(p) \/ AgePost(p)
           \/ \E t \in Targets : ExpireClaim(t) \/ SettleJob(t)
           \/ Sweep \/ DropHanded \/ UNCHANGED vars
    BY <1>2, <1>3 DEF BecomeDue, AgePost, ExpireClaim, SettleJob, Sweep, DropHanded,
       faultVars, vars
<1>4. CASE \E w \in Workers : \/ FindBare(w) \/ Crash(w)
                              \/ \E t \in Targets : Read(w, t) \/ Track(w, t)
    BY <1>2, <1>4 DEF FindBare, Crash, Read, Track, worldVars, faultVars
<1>5. CASE \E w \in Workers :
              \/ Attach(w) \/ FailBare(w) \/ Claim(w) \/ MarkPost(w) \/ Preflight(w)
              \/ CallPlatform(w) \/ RefreshAndRetry(w) \/ Commit(w) \/ Notify(w)
              \/ ReadAttempts(w) \/ Release(w) \/ GiveUp(w)
    BY <1>2, <1>5 DEF Attach, FailBare, Claim, MarkPost, Preflight, CallPlatform,
       RefreshAndRetry, Commit, Notify, ReadAttempts, Release, ReleaseAs, GiveUp,
       worldVars, faultVars
<1>6. CASE \E w \in Workers :
              \/ CountPublished(w) \/ Revert(w) \/ CountRemaining(w) \/ Tally(w)
              \/ Settle(w) \/ CountFailed(w) \/ Purge(w) \/ Poll(w) \/ ConfirmRead(w)
              \/ ConfirmWrite(w) \/ FailRead(w) \/ FailWrite(w)
    BY <1>2, <1>6 DEF CountPublished, Revert, CountRemaining, Tally, Settle, CountFailed,
       Purge, Poll, ConfirmRead, ConfirmWrite, FailRead, FailWrite, worldVars, faultVars
<1> QED BY <1>1, <1>3, <1>4, <1>5, <1>6 DEF Next, Step

\* A count of zero says of every target what it is not.
LEMMA CountZero ==
    ASSUME NEW p, NEW S, CountIn(p, S) = 0, NEW t \in TargetsOf(p)
    PROVE  status[t] \notin S
<1> DEFINE found == {u \in TargetsOf(p) : status[u] \in S}
<1>1. IsFiniteSet(found)
    BY TargetsAssumption, FS_Subset DEF TargetsOf
<1>2. found = {}
    BY <1>1, FS_EmptySet DEF CountIn
<1> QED BY <1>2

\* An Instagram target that has failed is never attempted again: no claim takes
\* it, and no owner or reconciliation is left to write it.
LEMMA FailedStays ==
    ASSUME RunType, WorldType, WorkersPlaced, OwnersClaim, [Next]_vars,
           NEW t \in Instagram, status[t] = "FAILED"
    PROVE  status'[t] = "FAILED"
<1>t. t \in Targets /\ t \notin TikTok
    BY DEF Instagram
<1>1. ASSUME NEW w \in Workers, Writes(w), target[w] = t PROVE SameRow(t)
  <2>1. CASE Claim(w)
      BY <1>1, <2>1 DEF Claim, Claimable, StaleClaim, SameRow
  <2>2. CASE Commit(w) \/ Release(w)
      BY <1>1, <2>2 DEF Commit, Release, ReleaseAs, At, OwnersClaim, Claimed, Owns,
         WorkersPlaced, Placed, PreCommit, Catching
  <2>3. CASE ConfirmWrite(w) \/ FailWrite(w)
      BY <1>t, <1>1, <2>3 DEF ConfirmWrite, FailWrite, At, WorkersPlaced, Placed,
         Reconciling
  <2> QED BY <1>1, <2>1, <2>2, <2>3 DEF Writes
<1>2. CASE SameRow(t)
    BY <1>2 DEF SameRow
<1>3. CASE \E w \in Workers : Attached(w, t)
    BY <1>3 DEF Attached
<1>4. CASE ExpireClaim(t)
    BY <1>4 DEF ExpireClaim
<1> QED BY <1>t, <1>1, <1>2, <1>3, <1>4, RowStep

\* Without a failed statement the same is true of every outcome, confirmations
\* and refusals of TikTok jobs included.
LEMMA ResolvedStays ==
    ASSUME RunType, WorldType, WorkersPlaced, JobsInv, [Next]_vars,
           NEW t \in Targets, Resolved(t)
    PROVE  Resolved(t)'
<1>1. ASSUME NEW w \in Workers, Writes(w), target[w] = t PROVE Resolved(t)'
  <2>1. CASE Claim(w)
      BY <1>1, <2>1 DEF Claim, Claimable, StaleClaim, Resolved
  <2>2. CASE Commit(w) \/ Release(w)
    <3>1. Owns(w) /\ pc[w] \in PreCommit \cup Catching
        BY <2>2 DEF Commit, Release, ReleaseAs, At, Owns, WorkersPlaced, Placed,
           PreCommit, Catching
    <3> QED BY <1>1, <3>1 DEF JobsInv, Unsent, Resolved
  <2>3. CASE ConfirmWrite(w) \/ FailWrite(w)
      BY <1>1, <2>3 DEF ConfirmWrite, FailWrite, WorldType, Resolved
  <2> QED BY <1>1, <2>1, <2>2, <2>3 DEF Writes
<1>2. CASE SameRow(t)
    BY <1>2 DEF SameRow, Resolved
<1>3. CASE \E w \in Workers : Attached(w, t)
    BY <1>3 DEF Attached, Resolved
<1>4. CASE ExpireClaim(t)
    BY <1>4 DEF ExpireClaim, Resolved
<1> QED BY <1>1, <1>2, <1>3, <1>4, RowStep

\* The rows of a planned post are there to stay, and no pass attaches others.
LEMMA NextPlanned ==
    ASSUME RunType, WorldType, WorkersPlaced, PlannedInv, [Next]_vars
    PROVE  PlannedInv'
<1>1. ASSUME NEW t \in Planned PROVE status'[t] # "ABSENT"
  <2>t. t \in Targets /\ status[t] # "ABSENT"
      BY DEF Planned, PlannedInv
  <2>1. ASSUME NEW w \in Workers, Writes(w), target[w] = t PROVE status'[t] # "ABSENT"
    <3>1. CASE Claim(w)
        BY <2>t, <2>1, <3>1 DEF Claim, WorldType
    <3>2. CASE Commit(w) \/ Release(w)
        BY <2>t, <2>1, <3>2 DEF Commit, Release, ReleaseAs, WorldType
    <3>3. CASE ConfirmWrite(w) \/ FailWrite(w)
        BY <2>t, <2>1, <3>3 DEF ConfirmWrite, FailWrite, WorldType
    <3> QED BY <2>1, <3>1, <3>2, <3>3 DEF Writes
  <2>2. CASE SameRow(t) \/ (\E w \in Workers : Attached(w, t)) \/ ExpireClaim(t)
      BY <2>t, <2>2 DEF SameRow, Attached, ExpireClaim
  <2> QED BY <2>t, <2>1, <2>2, RowStep
<1>2. ASSUME NEW w \in Workers, pc'[w] \in Attaching PROVE PostAt(w)' \in BarePosts
  <2>1. CASE target'[w] = target[w] /\ pc[w] \in Attaching
      BY <2>1 DEF PlannedInv, PostAt
  <2>2. CASE \E t \in Targets : Track(w, t)
      BY <1>2, <2>2 DEF Track, Begin, RunType, Attaching
  <2>3. CASE FindBare(w)
    <3>1. PICK t \in Targets : Rows(PostOf[t]) = {} /\ Begin(w, "attach", t, "attach")
        BY <2>3 DEF FindBare
    <3>2. target'[w] = t
        BY <3>1 DEF Begin, RunType
    <3>3. status[t] = "ABSENT"
        BY <3>1 DEF Rows, TargetsOf
    <3> QED BY <3>2, <3>3 DEF PlannedInv, Planned, PostAt
  <2> QED BY <1>2, <2>1, <2>2, <2>3, AsideStep
<1> QED BY <1>1, <1>2 DEF PlannedInv, Planned, PostAt

\* What finalizeIfComplete has counted: a target that it has seen live, or failed
\* for good.
LEMMA NextCounted ==
    ASSUME IInv, PlannedInv, CountedInv, [Next]_vars
    PROVE  CountedInv'
<1>i. /\ RunType /\ WorldType /\ WorkersPlaced /\ OwnersClaim
      /\ LiveInv
    BY TypeHalves DEF IInv, ClaimInv
<1>2. ASSUME NEW t \in Planned \cap Instagram, NEW w \in Workers,
             target'[w] \in TargetsOf(PostOf[t]), pc'[w] \in Closing
      PROVE  /\ pc'[w] # "purge" => Live(t)' \/ status'[t] = "FAILED"
             /\ pc'[w] = "purge" => Live(t)'
  <2>t. t \in Targets /\ t \in TargetsOf(PostOf[t])
      BY DEF Planned, TargetsOf
  <2>g. (Live(t) => Live(t)') /\ (status[t] = "FAILED" => status'[t] = "FAILED")
      BY <1>i, <1>2, <2>t, SubsGrow, FailedStays
  <2>w. target'[w] = target[w]
      BY <1>i, <1>2, ClosingStep
  <2>p. PostAt(w) = PostOf[t]
      BY <1>2, <2>w DEF PostAt, TargetsOf
  <2>1. CASE pc'[w] = pc[w]
      BY <1>2, <2>g, <2>w, <2>1 DEF CountedInv, Closes, Closing
  <2>2. CASE pc'[w] = "tally" /\ CountRemaining(w)
    <3>1. CountIn(PostOf[t], {"PENDING", "PUBLISHING"}) = 0
        BY <1>i, <2>2, <2>p, CountIsNat DEF CountRemaining, Exit, Begin, RunType
    <3>2. status[t] \notin {"PENDING", "PUBLISHING"}
        BY <2>t, <3>1, CountZero
    <3>3. status[t] \in {"PUBLISHED", "FAILED"}
        BY <1>i, <2>t, <3>2 DEF WorldType, TargetStatus, PlannedInv
    <3> QED BY <1>i, <2>t, <2>g, <2>2, <3>3 DEF LiveInv, PublishedIsLive
  <2>3. CASE \/ pc'[w] = "settle" /\ Tally(w)
             \/ pc'[w] = "clean" /\ Settle(w)
      BY <1>2, <2>g, <2>w, <2>3 DEF CountedInv, Closes, Tally, Settle, At
  <2>4. CASE pc'[w] = "purge" /\ CountFailed(w)
    <3>1. pc[w] = "clean" /\ CountIn(PostOf[t], {"FAILED"}) = 0
        BY <1>i, <2>4, <2>p DEF CountFailed, At, Exit, Begin, RunType
    <3>2. status[t] # "FAILED"
        BY <2>t, <3>1, CountZero
    <3> QED BY <1>2, <2>g, <2>w, <2>4, <3>1, <3>2 DEF CountedInv, Closes
  <2> QED BY <1>i, <1>2, <2>1, <2>2, <2>3, <2>4, ClosingStep
<1> QED BY <1>2 DEF CountedInv, Closes, Closing

\* What is freed has been published: with the purge of its post, and whatever
\* other posts have it.
LEMMA NextFreed ==
    ASSUME IInv, PlannedInv, CountedInv, FreedInv, [Next]_vars
    PROVE  FreedInv'
<1>i. RunType /\ WorldType /\ WorkersPlaced
    BY TypeHalves DEF IInv, ClaimInv
<1> SUFFICES ASSUME NEW a \in Assets, ~blob'[a]
             PROVE  \E p \in Posts : a \in MediaOf[p] /\ LiveThroughout(p)
    <2>1. ASSUME NEW p \in Posts, LiveThroughout(p) PROVE LiveThroughout(p)'
        BY <1>i, <2>1, SubsGrow DEF LiveThroughout, Planned
    <2> QED BY <2>1 DEF FreedInv
<1>1. CASE ~blob[a]
    BY <1>1 DEF FreedInv
<1>2. ASSUME NEW w \in Workers, Purge(w), blob[a]
      PROVE  a \in MediaOf[PostAt(w)] /\ LiveThroughout(PostAt(w))
  <2>1. a \in Freed(PostAt(w))
      BY <1>2 DEF Purge
  <2>2. a \in MediaOf[PostAt(w)] /\ Rows(PostAt(w)) \cap TikTok = {}
      BY <2>1 DEF Freed
  <2>3. ASSUME NEW t \in Planned, t \in TargetsOf(PostAt(w))
        PROVE  t \in Instagram /\ Live(t)
    <3>1. t \in Instagram
        BY <2>2, <2>3 DEF Rows, TargetsOf, PlannedInv, Instagram
    <3>2. target[w] \in TargetsOf(PostOf[t]) /\ pc[w] = "purge"
        BY <1>i, <1>2, <2>3 DEF Purge, At, WorkersPlaced, Placed, RunType, PostAt,
           TargetsOf
    <3> QED BY <2>3, <3>1, <3>2 DEF CountedInv, Closes
  <2> QED BY <2>2, <2>3 DEF LiveThroughout
<1>3. \A w \in Workers : Purge(w) => PostAt(w) \in Posts
    BY <1>i, TargetsAssumption DEF Purge, At, WorkersPlaced, Placed, RunType, PostAt
<1> QED BY <1>1, <1>2, <1>3, BlobStep

\* Without a failed statement, whoever may still send a target owns a row that
\* names no submission, and the rows that name one are resolved or jobs.
LEMMA NextJobs ==
    ASSUME IInv, JobsInv, [Next]_vars, dbFailures' = 0
    PROVE  JobsInv'
<1>i. /\ RunType /\ WorldType /\ WorkersPlaced /\ OwnersClaim /\ ClaimExclusion
      /\ LiveInv
    BY TypeHalves DEF IInv, ClaimInv
<1>n. \A w \in Workers : ~DbFailure(w)
    BY <1>i, NoFailureYet
<1>s. ASSUME NEW w \in Workers, pc[w] \in Pointing PROVE sub[w] # 0
  <2>1. target[w] \in Targets
      BY <1>i, <1>s DEF RunType, WorkersPlaced, Placed, Pointing
  <2>2. subs[target[w]] \in Seq(SubState) /\ sub[w] \in DOMAIN subs[target[w]]
      BY <1>i, <1>s, <2>1 DEF WorldType, LiveInv, Shown
  <2> QED BY <2>2
<1>o. ASSUME NEW w \in Workers, Commit(w) \/ Release(w)
      PROVE  Owns(w) /\ pc[w] \in PreCommit \cup Catching
    BY <1>i, <1>o DEF Commit, Release, ReleaseAs, At, Owns, WorkersPlaced, Placed,
       PreCommit, Catching
\* A row that names a submission keeps naming one, and is resolved or a job.
<1>1. ASSUME NEW t \in Targets, provider[t] # 0 PROVE provider'[t] # 0
  <2>1. ASSUME NEW w \in Workers, Writes(w), target[w] = t PROVE provider'[t] # 0
    <3>1. CASE Claim(w) \/ Release(w) \/ FailWrite(w)
        BY <1>1, <3>1 DEF Claim, Release, ReleaseAs, FailWrite
    <3>2. CASE Commit(w) \/ ConfirmWrite(w)
        BY <1>i, <1>1, <1>s, <2>1, <3>2
           DEF Commit, ConfirmWrite, At, WorldType, Pointing
    <3> QED BY <2>1, <3>1, <3>2 DEF Writes
  <2>2. CASE SameRow(t) \/ (\E w \in Workers : Attached(w, t)) \/ ExpireClaim(t)
      BY <1>1, <2>2 DEF SameRow, Attached, ExpireClaim
  <2> QED BY <1>i, <2>1, <2>2, RowStep
<1>2. ASSUME NEW t \in Targets, provider'[t] # 0
      PROVE  status'[t] \in {"PUBLISHED", "FAILED"} \/ Awaiting(t)'
  <2>j. provider[t] # 0 => status[t] \in {"PUBLISHED", "FAILED"} \/ Awaiting(t)
      BY DEF JobsInv
  <2>1. ASSUME NEW w \in Workers, Writes(w), target[w] = t
        PROVE  status'[t] \in {"PUBLISHED", "FAILED"} \/ Awaiting(t)'
    <3>1. CASE Claim(w)
      <4>1. provider[t] # 0
          BY <1>2, <3>1 DEF Claim
      <4>2. ~Claimable(t)
          BY <2>j, <4>1 DEF Claimable, StaleClaim, Awaiting
      <4> QED BY <2>j, <2>1, <3>1, <4>1, <4>2 DEF Claim, Awaiting
    <3>2. CASE Commit(w)
        BY <1>i, <2>1, <3>2 DEF Commit, WorldType, Awaiting
    <3>3. CASE Release(w)
        BY <1>2, <1>o, <2>1, <3>3 DEF JobsInv, Unsent, Release, ReleaseAs
    <3>4. CASE ConfirmWrite(w) \/ FailWrite(w)
        BY <1>i, <2>1, <3>4 DEF ConfirmWrite, FailWrite, WorldType
    <3> QED BY <2>1, <3>1, <3>2, <3>3, <3>4 DEF Writes
  <2>2. CASE SameRow(t)
      BY <1>2, <2>j, <2>2 DEF SameRow, Awaiting
  <2>3. CASE \E w \in Workers : Attached(w, t)
      BY <1>2, <2>j, <2>3 DEF Attached, Awaiting
  <2>4. CASE ExpireClaim(t)
      BY <1>2, <2>j, <2>4 DEF ExpireClaim, Awaiting
  <2> QED BY <1>i, <2>1, <2>2, <2>3, <2>4, RowStep
<1>3. ASSUME NEW w \in Workers, pc'[w] \in Reconciling PROVE provider'[target'[w]] # 0
  <2>1. CASE target'[w] = target[w] /\ pc[w] \in Reconciling
    <3>1. target[w] \in Targets /\ provider[target[w]] # 0
        BY <1>i, <2>1 DEF RunType, WorkersPlaced, Placed, Reconciling, JobsInv
    <3> QED BY <1>1, <2>1, <3>1
  <2>2. ASSUME NEW t \in Targets, Track(w, t) PROVE provider'[target'[w]] # 0
    <3>1. target'[w] = t /\ provider[t] # 0
        BY <1>i, <2>2 DEF Track, Trackable, Begin, RunType
    <3> QED BY <1>1, <3>1
  <2>3. CASE FindBare(w)
      BY <1>i, <1>3, <2>3 DEF FindBare, Begin, RunType, Reconciling
  <2> QED BY <1>i, <1>3, <2>1, <2>2, <2>3, AsideStep DEF Reconciling, Attaching
<1>4. ASSUME NEW w \in Workers, Owns(w)', pc'[w] \in PreCommit \cup Catching
      PROVE  /\ status'[target'[w]] = "PUBLISHING" /\ claimedAt'[target'[w]] = "fresh"
             /\ provider'[target'[w]] = 0
  <2> DEFINE t == target[w]
  <2>w. target'[w] = t
      BY <1>i, <1>4, SenderStep
  <2>1. CASE Claim(w) /\ Claimable(t)
    <3>1. t \in Targets
        BY <1>i, <2>1 DEF Claim, At, RunType, WorkersPlaced, Placed
    <3>2. provider[t] = 0
        BY <2>1, <3>1 DEF JobsInv, Claimable, StaleClaim, Awaiting
    <3> QED BY <1>i, <2>w, <2>1, <3>1, <3>2 DEF Claim, WorldType
  <2>2. CASE Owns(w) /\ pc[w] \in PreCommit \cup Catching /\ ~Commit(w) /\ ~Release(w)
    <3>t. t \in Targets
        BY <1>i, <2>2 DEF RunType, WorkersPlaced, Placed, PreCommit, Catching
    <3>u. status[t] = "PUBLISHING" /\ claimedAt[t] = "fresh" /\ provider[t] = 0
        BY <2>2 DEF JobsInv, Unsent
    <3>1. ASSUME NEW v \in Workers, Writes(v), target[v] = t PROVE SameRow(t)
      <4>1. CASE Claim(v)
          BY <3>u, <3>1, <4>1 DEF Claim, Claimable, StaleClaim, SameRow
      <4>2. CASE Commit(v) \/ Release(v)
          BY <1>i, <1>o, <2>2, <3>t, <3>1, <4>2 DEF ClaimExclusion, ExclusiveOn
      <4>3. CASE ConfirmWrite(v) \/ FailWrite(v)
          BY <3>u, <3>1, <4>3 DEF ConfirmWrite, FailWrite, At, JobsInv, Reconciling
      <4> QED BY <3>1, <4>1, <4>2, <4>3 DEF Writes
    <3>2. SameRow(t)
        BY <1>i, <2>2, <3>t, <3>u, <3>1, RowStep DEF Attached, ExpireClaim
    <3> QED BY <2>w, <3>u, <3>2 DEF SameRow
  <2> QED BY <1>i, <1>n, <1>4, <2>1, <2>2, SenderStep
<1> QED BY <1>2, <1>3, <1>4 DEF JobsInv, Unsent, Owns

\* A settled post stays resolved: the count that finalizeIfComplete read before
\* its later statements still holds when they run.
LEMMA NextSettled ==
    ASSUME IInv, PlannedInv, JobsInv, SettledInv, [Next]_vars
    PROVE  SettledInv'
<1>i. RunType /\ WorldType /\ WorkersPlaced
    BY TypeHalves DEF IInv, ClaimInv
<1>1. ASSUME NEW t \in Planned, post'[PostOf[t]] \in {"PUBLISHED", "FAILED"}
      PROVE  Resolved(t)'
  <2>t. t \in Targets /\ PostOf[t] \in Posts
      BY TargetsAssumption DEF Planned
  <2>1. ASSUME NEW w \in Workers, Settles(w), PostAt(w) = PostOf[t]
        PROVE  Resolved(t)
    <3>1. CASE MarkPost(w) \/ Revert(w)
        BY <1>i, <1>1, <2>t, <2>1, <3>1
           DEF MarkPost, Revert, SetPost, WorldType, SettledInv
    <3>2. CASE FailBare(w)
        BY <2>1, <3>2 DEF FailBare, At, PlannedInv, Attaching, Planned
    <3>3. CASE Settle(w)
      <4>1. pc[w] = "settle" /\ target[w] \in TargetsOf(PostOf[t])
          BY <1>i, <2>1, <3>3, TargetsAssumption
             DEF Settle, At, WorkersPlaced, Placed, RunType, PostAt, TargetsOf
      <4> QED BY <4>1 DEF SettledInv, Closes, Closing
    <3> QED BY <2>1, <3>1, <3>2, <3>3 DEF Settles
  <2>2. Resolved(t) => Resolved(t)'
      BY <1>i, <2>t, ResolvedStays
  <2>3. SamePost(PostOf[t]) => Resolved(t)'
      BY <1>1, <2>2 DEF SamePost, SettledInv
  <2> QED BY <1>i, <2>t, <2>1, <2>2, <2>3, PostStep
<1>2. ASSUME NEW t \in Planned, NEW w \in Workers,
             target'[w] \in TargetsOf(PostOf[t]), pc'[w] \in Closing
      PROVE  Resolved(t)'
  <2>t. t \in Targets /\ t \in TargetsOf(PostOf[t])
      BY DEF Planned, TargetsOf
  <2>g. Resolved(t) => Resolved(t)'
      BY <1>i, <2>t, ResolvedStays
  <2>w. target'[w] = target[w]
      BY <1>i, <1>2, ClosingStep
  <2>1. CASE pc[w] \in Closing
      BY <1>2, <2>g, <2>w, <2>1 DEF SettledInv, Closes
  <2>2. CASE pc'[w] = "tally" /\ CountRemaining(w)
    <3>1. PostAt(w) = PostOf[t]
        BY <1>2, <2>w DEF PostAt, TargetsOf
    <3>2. CountIn(PostOf[t], {"PENDING", "PUBLISHING"}) = 0
        BY <1>i, <2>2, <3>1, CountIsNat DEF CountRemaining, Exit, Begin, RunType
    <3>3. status[t] \notin {"PENDING", "PUBLISHING"}
        BY <2>t, <3>2, CountZero
    <3>4. Resolved(t)
        BY <1>i, <2>t, <3>3 DEF WorldType, TargetStatus, PlannedInv, Resolved
    <3> QED BY <2>g, <3>4
  <2>3. CASE Tally(w) \/ Settle(w) \/ CountFailed(w)
      BY <2>1, <2>3 DEF Tally, Settle, CountFailed, At, Closing
  <2> QED BY <1>i, <1>2, <2>1, <2>2, <2>3, ClosingStep
<1> QED BY <1>1, <1>2 DEF SettledInv, Closes

\* A count of no published target, read from resolved ones, is a count of failed
\* ones, and stays so.
LEMMA NextFailed ==
    ASSUME IInv, PlannedInv, SettledInv, FailedInv, [Next]_vars
    PROVE  FailedInv'
<1>i. RunType /\ WorldType /\ WorkersPlaced /\ OwnersClaim
    BY TypeHalves DEF IInv, ClaimInv
<1> SUFFICES ASSUME NEW t \in Planned \cap Instagram
             PROVE  /\ post'[PostOf[t]] = "FAILED" => status'[t] = "FAILED"
                    /\ \A w \in Workers :
                          pc'[w] = "settle" /\ target'[w] \in TargetsOf(PostOf[t])
                          /\ count'[w] = 0 => status'[t] = "FAILED"
    BY DEF FailedInv, Closes
<1>t. t \in Targets /\ PostOf[t] \in Posts /\ t \in TargetsOf(PostOf[t])
    BY TargetsAssumption DEF Planned, TargetsOf
<1>g. status[t] = "FAILED" => status'[t] = "FAILED"
    BY <1>i, FailedStays
<1>1. ASSUME post'[PostOf[t]] = "FAILED" PROVE status[t] = "FAILED"
  <2>1. CASE SamePost(PostOf[t])
      BY <1>1, <2>1 DEF SamePost, FailedInv
  <2>2. ASSUME NEW w \in Workers, Settles(w), PostAt(w) = PostOf[t]
        PROVE  status[t] = "FAILED"
    <3>1. CASE MarkPost(w) \/ Revert(w)
        BY <1>i, <1>t, <1>1, <2>2, <3>1
           DEF MarkPost, Revert, SetPost, WorldType, FailedInv
    <3>2. CASE FailBare(w)
        BY <2>2, <3>2 DEF FailBare, At, PlannedInv, Attaching, Planned
    <3>3. CASE Settle(w)
      <4>1. pc[w] = "settle" /\ target[w] \in TargetsOf(PostOf[t])
          BY <1>i, <2>2, <3>3, TargetsAssumption
             DEF Settle, At, WorkersPlaced, Placed, RunType, PostAt, TargetsOf
      <4>2. count[w] = 0
          BY <1>i, <1>t, <1>1, <2>2, <3>3 DEF Settle, SetPost, WorldType
      <4> QED BY <4>1, <4>2 DEF FailedInv, Closes
    <3> QED BY <2>2, <3>1, <3>2, <3>3 DEF Settles
  <2> QED BY <1>i, <1>t, <2>1, <2>2, PostStep
<1>2. ASSUME NEW w \in Workers, pc'[w] = "settle",
             target'[w] \in TargetsOf(PostOf[t]), count'[w] = 0
      PROVE  status[t] = "FAILED"
  <2>w. target'[w] = target[w]
      BY <1>i, <1>2, ClosingStep DEF Closing
  <2>1. CASE pc'[w] = pc[w] /\ count'[w] = count[w]
      BY <1>2, <2>w, <2>1 DEF FailedInv, Closes
  <2>2. CASE Tally(w)
    <3>1. Resolved(t)
        BY <1>2, <2>w, <2>2 DEF Tally, At, SettledInv, Closes, Closing
    <3>2. PostAt(w) = PostOf[t]
        BY <1>2, <2>w DEF PostAt, TargetsOf
    <3>3. CountIn(PostOf[t], {"PUBLISHED"}) = 0
        BY <1>i, <1>2, <2>2, <3>2 DEF Tally, RunType
    <3>4. status[t] # "PUBLISHED"
        BY <1>t, <3>3, CountZero
    <3> QED BY <3>1, <3>4 DEF Resolved
  <2> QED BY <1>i, <1>2, <2>1, <2>2, ClosingStep DEF Closing
<1> QED BY <1>g, <1>1, <1>2

-----------------------------------------------------------------------------
(* The inductive invariant, and what follows from it.                      *)

\* It holds of the first rows, before any execution has started.
LEMMA InitSettlement == Init => SInv
<1> SUFFICES ASSUME Init PROVE SInv
    OBVIOUS
<1>1. /\ \A w \in Workers : pc[w] = "idle" /\ path[w] = "none"
      /\ \A t \in Planned : status[t] = "PENDING"
      /\ \A t \in Targets : provider[t] = 0
      /\ \A p \in Posts : post[p] = "SCHEDULED"
      /\ \A a \in Assets : blob[a]
    BY DEF Init, InitialPosts, Planned
<1>2. PlannedInv
    BY <1>1 DEF PlannedInv, Attaching
<1>3. MediaInv
    BY <1>1 DEF MediaInv, CountedInv, FreedInv, Closes
<1>4. JobsInv
    BY <1>1 DEF JobsInv, Unsent, Owns, Reconciling
<1>5. SettledInv /\ FailedInv
    BY <1>1, TargetsAssumption DEF SettledInv, FailedInv, Planned, Closes, Closing
<1> QED BY <1>2, <1>3, <1>4, <1>5, InitInv DEF SInv

\* Every step preserves it; what it says of runs without a failed statement
\* needs no more than that none has failed so far.
LEMMA NextSettlement == SInv /\ [Next]_vars => SInv'
<1> SUFFICES ASSUME SInv, [Next]_vars PROVE SInv'
    OBVIOUS
<1>1. RunType /\ WorldType /\ WorkersPlaced /\ IInv
    BY TypeHalves DEF SInv, IInv, ClaimInv
<1>2. IInv'
    BY <1>1, NextInv
<1>3. PlannedInv'
    BY <1>1, NextPlanned DEF SInv
<1>4. MediaInv'
    BY <1>1, NextCounted, NextFreed DEF SInv, MediaInv
<1>5. ASSUME dbFailures' = 0 PROVE JobsInv' /\ SettledInv' /\ FailedInv'
  <2>1. dbFailures = 0
      BY <1>1, <1>5, NoFailureYet
  <2>2. JobsInv /\ SettledInv /\ FailedInv
      BY <2>1 DEF SInv
  <2> QED BY <1>1, <1>5, <2>2, NextJobs, NextSettled, NextFailed DEF SInv
<1> QED BY <1>2, <1>3, <1>4, <1>5 DEF SInv

\* The invariant holds in every behaviour, with every kind of fault.
THEOREM SettlementInductive == Spec => []SInv
BY InitSettlement, NextSettlement, PTL DEF Spec

\* Of posts that had their accounts when they were scheduled: an original is freed
\* only with a post of it that is live everywhere.  Neither a late failure nor a
\* retry of a target finds the media gone on account of its own post, whatever
\* crashes or fails.  (On account of another post it may: OriginalsRetained.)
THEOREM MediaKept == Spec => [](BarePosts = {} => MediaRetained)
<1>1. SInv => (BarePosts = {} => MediaRetained)
    BY DEF SInv, MediaInv, FreedInv, LiveThroughout, MediaRetained, Planned, Rows,
       TargetsOf
<1> QED BY <1>1, SettlementInductive, PTL

\* While no statement has failed after the platform's answer, a post is settled
\* for good: no target of it is pending, being published or awaiting TikTok.
THEOREM SettledForGood ==
    Spec => [](BarePosts = {} /\ dbFailures = 0 => ResolvedPostsAreSettled)
<1>1. SInv => (BarePosts = {} /\ dbFailures = 0 => ResolvedPostsAreSettled)
    BY DEF SInv, SettledInv, Resolved, ResolvedPostsAreSettled, Planned, TargetsOf
<1> QED BY <1>1, SettlementInductive, PTL

\* "Only mark FAILED when nothing published anywhere": a failed post with a
\* target that is live on Instagram takes a fault.
THEOREM FailedIsNotLive == Spec => [](BarePosts = {} => FailedPostIsNotLive)
<1>1. SInv => (BarePosts = {} => FailedPostIsNotLive)
  <2> SUFFICES ASSUME SInv, BarePosts = {}, NEW p \in Posts, post[p] = "FAILED",
                      NEW t \in TargetsOf(p) \cap Instagram, Live(t)
               PROVE  Faults > 0
      BY DEF FailedPostIsNotLive
  <2>1. /\ RunType /\ WorldType /\ WorkersPlaced /\ OwnersClaim
        /\ SubmissionsInv
      BY TypeHalves DEF SInv, IInv, ClaimInv
  <2>2. t \in Targets /\ t \in Planned \cap Instagram /\ PostOf[t] = p
      BY DEF TargetsOf, Planned
  <2>3. CASE Faults = 0
    <3>1. dbFailures = 0
        BY <2>1, <2>3 DEF Faults, WorldType
    <3>2. status[t] = "FAILED"
        BY <2>2, <3>1 DEF SInv, FailedInv
    <3>3. ~ \E w \in Workers : pc[w] = "commit" /\ target[w] = t
        BY <2>1, <2>2, <3>2 DEF OwnersClaim, Claimed, Owns, WorkersPlaced, Placed,
           PreCommit
    <3>4. Len(subs[t]) <= 0 /\ subs[t] \in Seq(SubState)
        BY <2>1, <2>2, <2>3, <3>2, <3>3 DEF SubmissionsInv, WorldType
    <3>5. DOMAIN subs[t] = {}
        BY <3>4
    <3> QED BY <3>5 DEF Live
  <2>4. Faults \in Nat
      BY <2>1 DEF Faults, WorldType
  <2> QED BY <2>3, <2>4
<1> QED BY <1>1, SettlementInductive, PTL

\* While no statement fails after the platform's answer, no late catch block,
\* stale claim or reconciliation takes back the success of an Instagram target.
THEOREM SuccessIsFinal == Spec /\ [](dbFailures = 0) => PublishedIsFinal
<1>1. ASSUME SInv, dbFailures = 0, [Next]_vars, NEW t \in Instagram,
             status[t] = "PUBLISHED"
      PROVE  status'[t] = "PUBLISHED"
  <2>i. /\ RunType /\ WorldType /\ WorkersPlaced /\ JobsInv
        /\ t \in Targets /\ t \notin TikTok
      BY <1>1, TypeHalves DEF SInv, IInv, ClaimInv, Instagram
  <2>1. ASSUME NEW w \in Workers, Writes(w), target[w] = t PROVE SameRow(t)
    <3>1. CASE Claim(w)
        BY <1>1, <2>1, <3>1 DEF Claim, Claimable, StaleClaim, SameRow
    <3>2. CASE Commit(w) \/ Release(w)
      <4>1. Owns(w) /\ pc[w] \in PreCommit \cup Catching
          BY <2>i, <3>2 DEF Commit, Release, ReleaseAs, At, Owns, WorkersPlaced,
             Placed, PreCommit, Catching
      <4> QED BY <1>1, <2>i, <2>1, <4>1 DEF JobsInv, Unsent
    <3>3. CASE ConfirmWrite(w) \/ FailWrite(w)
        BY <2>i, <2>1, <3>3 DEF ConfirmWrite, FailWrite, At, WorkersPlaced, Placed,
           Reconciling
    <3> QED BY <2>1, <3>1, <3>2, <3>3 DEF Writes
  <2> QED BY <1>1, <2>i, <2>1, RowStep DEF SameRow, Attached, ExpireClaim
<1>2. SInv /\ dbFailures = 0 /\ [Next]_vars
         => [\A t \in Instagram : status[t] = "PUBLISHED" => status'[t] = "PUBLISHED"]_vars
    BY <1>1
<1> QED BY <1>2, SettlementInductive, PTL DEF Spec, PublishedIsFinal

\* Whatever fails, an Instagram target that the catch block has given up is not
\* attempted again: no listed id, claim or execution still in flight reopens it.
THEOREM FailureIsFinal ==
    Spec => [][\A t \in Instagram : status[t] = "FAILED" => status'[t] = "FAILED"]_vars
<1>1. IInv /\ [Next]_vars
         => [\A t \in Instagram : status[t] = "FAILED" => status'[t] = "FAILED"]_vars
    BY FailedStays, TypeHalves DEF IInv, ClaimInv
<1> QED BY <1>1, Inductive, PTL DEF Spec
=============================================================================
