---------------------------- MODULE ApprovalProofs ----------------------------
(***************************************************************************)
(* Theorems about module Approval: with any number of requests that        *)
(* approve, reject, retry and edit beside the executions, rows and         *)
(* executions keep their types, nothing of the queue is submitted without  *)
(* approval, every attempt beyond the limit is paid for by a retry or a    *)
(* crash, and on Instagram claims stay exclusive and every duplicate of a  *)
(* row, and of the rows that an account has had on a post, is paid for,    *)
(* although rows are deleted under their executions.                       *)
(***************************************************************************)
EXTENDS Approval, PublishingProofs

\* No execution is about to attach rows: every post has one, and keeps one.
NoAttaching   == \A w \in Workers : pc[w] \notin Attaching
PostsHaveRows == \A p \in Posts : \E t \in TargetsOf(p) : status[t] # "ABSENT"

\* A request in progress has read a post.
RequestsPlaced == \A u \in Requests : req[u].pc # "idle" => req[u].post \in Posts

BasicInv == /\ ApprovalTypeOK /\ WorkersPlaced
            /\ NoAttaching /\ PostsHaveRows /\ RequestsPlaced

\* What a step of an execution leaves alone: rows that nobody works on, posts
\* of which nobody works on a row, deleted rows.  What it starts on was listed
\* by a pass or submitted before.
Moves ==
    /\ NoAttaching'
    /\ handed' \subseteq handed \cup {t \in Targets : Claimable(t) /\ Sweepable(PostOf[t])}
    /\ \A w \in Workers :
          target'[w] \in {target[w], NoTarget} \cup handed \cup {t \in Targets : Trackable(t)}
    /\ \A t \in Targets :
          /\ t \in erased => status'[t] = status[t]
          /\ status[t] # "ABSENT" => status'[t] # "ABSENT"
          /\ (\A w \in Workers : target[w] # t) =>
                status'[t] = status[t] /\ (subs[t] = <<>> => subs'[t] = <<>>)
    /\ \A p \in Posts :
          (\A w \in Workers : target[w] \notin TargetsOf(p)) => post'[p] = post[p]

\* The executions' part of it, for a step of w that stays on its target or ends.
Stays(w) ==
    /\ pc' \in [Workers -> Steps] /\ target' \in [Workers -> Targets \cup {NoTarget}]
    /\ \A v \in Workers \ {w} : pc'[v] = pc[v] /\ target'[v] = target[v]
    /\ pc'[w] \notin Attaching
    /\ target'[w] \in {target[w], NoTarget}

LEMMA GotoStays ==
    ASSUME RunType, NEW w \in Workers, NEW l \in Steps \ Attaching, Goto(w, l)
    PROVE  Stays(w)
BY DEF RunType, Goto, Stays

LEMMA ExitStays ==
    ASSUME RunType, NEW w \in Workers, Exit(w)
    PROVE  Stays(w)
BY DEF RunType, Exit, Begin, Stays, Steps, Attaching

\* Executions that stay and rows that do not change.
LEMMA StaysMoves ==
    ASSUME NoAttaching, WorldType, NEW w \in Workers, Stays(w), UNCHANGED <<post, status, subs, handed>>
    PROVE  Moves
BY DEF Stays, Moves, NoAttaching

\* ... or of which only the post of w changes.
LEMMA PostMoves ==
    ASSUME NoAttaching, WorldType, NEW w \in Workers, target[w] \in Targets, Stays(w),
           NEW s, SetPost(PostAt(w), s), UNCHANGED <<status, subs, handed>>
    PROVE  Moves
<1>1. \A p \in Posts : (\A v \in Workers : target[v] \notin TargetsOf(p)) => post'[p] = post[p]
  BY DEF SetPost, PostAt, TargetsOf, WorldType
<1> QED BY <1>1 DEF Stays, Moves, NoAttaching

\* ... or only the row of w, which has not been deleted.
LEMMA RowMoves ==
    ASSUME NoAttaching, WorldType, NEW w \in Workers, Stays(w),
           target[w] \notin erased, NEW s, s # "ABSENT",
           status' = [status EXCEPT ![target[w]] = s], UNCHANGED <<post, subs, handed>>
    PROVE  Moves
<1>1. \A t \in Targets : t # target[w] => status'[t] = status[t]
  BY DEF WorldType
<1>2. \A t \in Targets : status[t] # "ABSENT" => status'[t] # "ABSENT"
  BY DEF WorldType
<1>3. \A t \in Targets : (\A v \in Workers : target[v] # t) => t # target[w]
  OBVIOUS
<1> QED BY <1>1, <1>2, <1>3 DEF Stays, Moves, NoAttaching

LEMMA UndisturbedMoves ==
    ASSUME BasicInv, Undisturbed
    PROVE  Moves
<1>t. /\ RunType /\ WorldType /\ WorkersPlaced /\ NoAttaching /\ PostsHaveRows
      /\ \A t \in erased : t \in Targets /\ status[t] = "ABSENT"
  BY TypeHalves DEF BasicInv, ApprovalTypeOK
<1>w. \A w \in Workers : pc[w] # "idle" => target[w] \in Targets
  BY <1>t, TargetsAssumption DEF RunType, WorkersPlaced, Placed
<1>u. \A w \in Workers : Bereft(w) => pc'[w] \in {pc[w], "idle"}
  BY DEF Undisturbed
<1> USE <1>t
<1>1. ASSUME NEW p \in Posts, BecomeDue(p) \/ AgePost(p) PROVE Moves
  BY <1>1 DEF BecomeDue, AgePost, Moves, NoAttaching, runVars, targetVars
<1>2. ASSUME NEW t \in Targets, ExpireClaim(t) PROVE Moves
  BY <1>2 DEF ExpireClaim, Moves, NoAttaching, runVars, postVars
<1>3. ASSUME NEW t \in Targets, SettleJob(t) PROVE Moves
  <2>1. \A x \in Targets : subs[x] = <<>> => subs'[x] = <<>>
    BY <1>3 DEF SettleJob, WorldType
  <2> QED BY <1>3, <2>1 DEF SettleJob, Moves, NoAttaching, runVars, postVars, targetVars
<1>4. ASSUME Sweep PROVE Moves
  <2>1. PICK b \in Batches :
           handed' = handed \cup {t \in Targets : PostOf[t] \in b /\ Claimable(t)}
    BY <1>4 DEF Sweep
  <2>2. \A p \in b : Sweepable(p)
    BY <2>1 DEF Batches
  <2> QED BY <1>4, <2>1, <2>2 DEF Sweep, Moves, NoAttaching, runVars, postVars, targetVars
<1>5. ASSUME DropHanded PROVE Moves
  BY <1>5 DEF DropHanded, Moves, NoAttaching, runVars, postVars, targetVars
<1>6. ASSUME NEW w \in Workers, FindBare(w) PROVE FALSE
  BY <1>6, TargetsAssumption DEF FindBare, PostsHaveRows, Rows
<1>7. ASSUME NEW w \in Workers, NEW t \in Targets, Read(w, t) PROVE Moves
  <2>1. /\ pc' = [pc EXCEPT ![w] = "read"] /\ target' = [target EXCEPT ![w] = t]
        /\ t \in handed /\ handed' = handed \ {t}
        /\ UNCHANGED <<post, status, subs>>
    BY <1>7 DEF Read, Begin, postVars, targetVars
  <2> QED BY <2>1 DEF Moves, NoAttaching, Attaching, RunType
<1>8. ASSUME NEW w \in Workers, NEW t \in Targets, Track(w, t) PROVE Moves
  <2>1. /\ pc' = [pc EXCEPT ![w] = "poll"] /\ target' = [target EXCEPT ![w] = t]
        /\ Trackable(t)
        /\ UNCHANGED <<post, status, subs, handed>>
    BY <1>8 DEF Track, Begin, worldVars, postVars, targetVars
  <2> QED BY <2>1 DEF Moves, NoAttaching, Attaching, RunType
<1>9. ASSUME NEW w \in Workers, Crash(w) \/ DbFailure(w) PROVE Moves
  BY <1>9, GotoStays, ExitStays, StaysMoves
     DEF Crash, DbFailure, postVars, targetVars, Steps, Catching, Attaching
<1>10. ASSUME NEW w \in Workers, Attach(w) \/ FailBare(w) PROVE FALSE
  BY <1>10 DEF Attach, FailBare, At, NoAttaching, Attaching
<1>11. ASSUME NEW w \in Workers, Step(w) PROVE Moves
  <2> DEFINE t == target[w]
  <2>t. t \in Targets
    BY <1>11, <1>w DEF Step, Attach, FailBare, Claim, MarkPost, Preflight, CallPlatform,
       RefreshAndRetry, Commit, Notify, ReadAttempts, Release, ReleaseAs, GiveUp,
       CountPublished, Revert, CountRemaining, Tally, Settle, CountFailed, Purge, Poll,
       ConfirmRead, ConfirmWrite, FailRead, FailWrite, At
  <2>1. CASE \/ Preflight(w) \/ RefreshAndRetry(w) \/ Notify(w) \/ GiveUp(w)
             \/ CountPublished(w) \/ CountRemaining(w) \/ CountFailed(w)
             \/ Poll(w) \/ ConfirmRead(w) \/ FailRead(w)
    <3>1. Stays(w)
      BY <2>1, GotoStays, ExitStays
         DEF Preflight, RefreshAndRetry, Notify, GiveUp, CountPublished, CountRemaining,
         CountFailed, Poll, ConfirmRead, FailRead, Steps, Attaching, PreCommit, Catching,
         Released, Finalizing, Reconciling
    <3> QED BY <2>1, <3>1, StaysMoves
         DEF Preflight, RefreshAndRetry, Notify, GiveUp, CountPublished, CountRemaining,
         CountFailed, Poll, ConfirmRead, FailRead, worldVars, postVars, targetVars
  <2>2. CASE ReadAttempts(w) \/ Tally(w) \/ Purge(w)
    <3>1. Stays(w)
      BY <2>2, ExitStays DEF ReadAttempts, Tally, Purge, Stays, RunType, Steps, Attaching,
         Catching, Finalizing
    <3> QED BY <2>2, <3>1, StaysMoves
         DEF ReadAttempts, Tally, Purge, worldVars, postVars, targetVars
  <2>3. CASE MarkPost(w) \/ Revert(w) \/ Settle(w)
    <3>1. Stays(w)
      BY <2>3, GotoStays, ExitStays DEF MarkPost, Revert, Settle, Steps, Attaching,
         PreCommit, Finalizing
    <3>2. UNCHANGED <<status, subs, handed>> /\ (post' = post \/ \E s : SetPost(PostAt(w), s))
      BY <2>3 DEF MarkPost, Revert, Settle, targetVars
    <3> QED BY <2>t, <3>1, <3>2, PostMoves, StaysMoves
  <2>4. CASE Claim(w)
    <3>1. Stays(w)
      BY <2>4, GotoStays, ExitStays DEF Claim, Steps, Attaching, PreCommit
    <3>2. UNCHANGED <<post, subs, handed>>
      BY <2>4 DEF Claim, postVars
    <3>3. CASE status' = status
      BY <3>1, <3>2, <3>3, StaysMoves
    <3>4. CASE status' # status
      <4>1. Claimable(t) /\ status' = [status EXCEPT ![t] = "PUBLISHING"]
        BY <2>4, <3>4 DEF Claim
      <4>2. t \notin erased
        BY <4>1 DEF Claimable, StaleClaim
      <4> QED BY <3>1, <3>2, <4>1, <4>2, RowMoves
    <3> QED BY <3>3, <3>4
  <2>5. CASE CallPlatform(w)
    <3>1. Stays(w)
      BY <2>5, GotoStays DEF CallPlatform, Submit, Stays, RunType, Steps, Attaching,
         PreCommit, Catching
    <3>2. /\ UNCHANGED <<post, status, handed>>
          /\ \A x \in Targets : x # t => subs'[x] = subs[x]
      BY <2>5 DEF CallPlatform, Submit, Goto, postVars, targetVars, WorldType
    <3>3. \A x \in Targets : (\A v \in Workers : target[v] # x) => x # t
      OBVIOUS
    <3> QED BY <3>1, <3>2, <3>3 DEF Stays, Moves, NoAttaching
  <2>6. CASE Commit(w) \/ Release(w) \/ ConfirmWrite(w) \/ FailWrite(w)
    <3>1. Stays(w)
      BY <2>6, GotoStays DEF Commit, Release, ReleaseAs, ConfirmWrite, FailWrite, Stays,
         RunType, Steps, Attaching, Finalizing, Released
    <3>2. pc[w] \in OnItsRow /\ pc'[w] \notin {pc[w], "idle"}
      BY <2>6 DEF Commit, Release, ReleaseAs, ConfirmWrite, FailWrite, At, OnItsRow, Goto,
         RunType
    <3>3. t \notin erased
      BY <1>u, <3>2 DEF Bereft
    <3>4. /\ UNCHANGED <<post, subs, handed>>
          /\ \E s : s # "ABSENT" /\ status' = [status EXCEPT ![t] = s]
      BY <2>6 DEF Commit, Release, ReleaseAs, ConfirmWrite, FailWrite, postVars
    <3> QED BY <3>1, <3>3, <3>4, RowMoves
  <2> QED BY <1>10, <1>11, <2>1, <2>2, <2>3, <2>4, <2>5, <2>6 DEF Step
<1> QED BY <1>1, <1>2, <1>3, <1>4, <1>5, <1>6, <1>7, <1>8, <1>9, <1>11 DEF Undisturbed, Next

-----------------------------------------------------------------------------
(* Types.                                                                  *)

\* The requests' own variables.
UserType ==
    /\ req \in [Requests -> Request]
    /\ approvedAt \in [Posts -> BOOLEAN]
    /\ used \in Nat /\ retries \in Nat /\ ops \in Nat
    /\ autopilot \subseteq Posts /\ torn \subseteq erased
    /\ \A t \in erased : t \in Targets /\ status[t] = "ABSENT"

LEMMA UserHalf == ApprovalTypeOK <=> RunType /\ WorldType /\ UserType
BY TypeHalves DEF ApprovalTypeOK, UserType

\* A post read by a request, and the end of the request.
LEMMA RequestMoves ==
    ASSUME UserType, RequestsPlaced, NEW u \in Requests, NEW l \in RequestSteps,
           \/ Reply(u)
           \/ Continue(u, l) /\ req[u].pc # "idle"
           \/ \E p \in Posts, now \in BOOLEAN :
                 req' = [req EXCEPT ![u] = [pc |-> l, post |-> p, now |-> now]]
    PROVE  req' \in [Requests -> Request] /\ RequestsPlaced'
<1>1. NoRequest \in Request /\ NoRequest.pc = "idle"
  BY DEF NoRequest, Request, RequestSteps
<1>2. CASE Reply(u)
  BY <1>1, <1>2 DEF Reply, UserType, RequestsPlaced
<1>3. CASE Continue(u, l) /\ req[u].pc # "idle"
  BY <1>3 DEF Continue, UserType, RequestsPlaced, Request
<1>4. ASSUME NEW p \in Posts, NEW now \in BOOLEAN,
             req' = [req EXCEPT ![u] = [pc |-> l, post |-> p, now |-> now]]
      PROVE  req' \in [Requests -> Request] /\ RequestsPlaced'
  BY <1>4 DEF UserType, RequestsPlaced, Request
<1> QED BY <1>2, <1>3, <1>4

\* replaceTargets leaves a row of each account that is kept, and revives none
\* of those it deleted.
LEMMA ReplaceKeeps ==
    ASSUME BasicInv, NEW u \in Requests, req[u].pc # "idle", NEW l \in RequestSteps,
           ReplaceTargets(u, l)
    PROVE  /\ status' \in [Targets -> TargetStatus]
           /\ autopilot' = autopilot /\ torn' \subseteq erased'
           /\ \A t \in erased' : t \in Targets /\ status'[t] = "ABSENT"
           /\ PostsHaveRows'
<1> DEFINE p == req[u].post
<1>t. /\ WorldType /\ UserType /\ p \in Posts /\ PostsHaveRows
  BY UserHalf DEF BasicInv, RequestsPlaced
<1>1. PICK keep \in (SUBSET Accounts) \ {{}} :
        LET D == {t \in Rows(p) : AccountOf[t] \notin keep}
            A == keep \ {AccountOf[t] : t \in Rows(p)}
        IN \E N \in NewRows(p, A) :
             /\ SwapRows(D, N)
             /\ torn' = torn \cup {t \in D : Worked(t)}
             /\ Continue(u, l)
  BY DEF ReplaceTargets
<1> DEFINE D == {t \in Rows(p) : AccountOf[t] \notin keep}
           A == keep \ {AccountOf[t] : t \in Rows(p)}
<1>2. PICK N \in NewRows(p, A) : SwapRows(D, N) /\ torn' = torn \cup {t \in D : Worked(t)}
  BY <1>1
<1>3. /\ N \subseteq TargetsOf(p) \ erased /\ \A t \in N : status[t] = "ABSENT"
      /\ {AccountOf[t] : t \in N} = A
  BY DEF NewRows
<1>4. D \subseteq Targets /\ \A t \in D : status[t] # "ABSENT"
  BY DEF Rows, TargetsOf
<1>5. /\ status' = [t \in Targets |-> IF t \in D THEN "ABSENT"
                                      ELSE IF t \in N THEN "PENDING" ELSE status[t]]
      /\ erased' = erased \cup D /\ autopilot' = autopilot
  BY <1>2 DEF SwapRows
<1>6. status' \in [Targets -> TargetStatus]
  BY <1>t, <1>5 DEF WorldType, TargetStatus
<1>7. torn' \subseteq erased'
  BY <1>t, <1>2, <1>5 DEF UserType
<1>8. \A t \in erased' : t \in Targets /\ status'[t] = "ABSENT"
  BY <1>t, <1>3, <1>4, <1>5 DEF UserType
<1>9. ASSUME NEW q \in Posts PROVE \E t \in TargetsOf(q) : status'[t] # "ABSENT"
  <2>1. CASE q # p
    <3>1. PICK t \in TargetsOf(q) : status[t] # "ABSENT"
      BY <1>t DEF PostsHaveRows
    <3>2. t \notin D /\ t \notin N /\ t \in Targets
      BY <2>1, <3>1, <1>3 DEF Rows, TargetsOf
    <3> QED BY <1>5, <3>1, <3>2
  <2>2. CASE q = p
    <3>0. keep # {}
      BY <1>1
    <3>1. PICK a \in keep : TRUE
      BY <3>0
    <3>2. CASE \E t \in Rows(p) : AccountOf[t] = a
      <4>1. PICK t \in Rows(p) : AccountOf[t] = a
        BY <3>2
      <4>2. t \in TargetsOf(p) /\ t \in Targets /\ t \notin D /\ status[t] # "ABSENT"
        BY <3>1, <4>1 DEF Rows, TargetsOf
      <4>3. status'[t] # "ABSENT"
        BY <1>5, <4>2
      <4> QED BY <2>2, <4>2, <4>3
    <3>3. CASE ~ \E t \in Rows(p) : AccountOf[t] = a
      <4>1. a \in A
        BY <3>1, <3>3
      <4>2. PICK t \in N : AccountOf[t] = a
        BY <1>3, <4>1
      <4>3. t \in TargetsOf(p) /\ t \in Targets /\ t \notin D
        BY <1>3, <1>4, <4>2 DEF TargetsOf
      <4>4. status'[t] # "ABSENT"
        BY <1>5, <4>2, <4>3
      <4> QED BY <2>2, <4>3, <4>4
    <3> QED BY <3>2, <3>3
  <2> QED BY <2>1, <2>2
<1> QED BY <1>5, <1>6, <1>7, <1>8, <1>9 DEF PostsHaveRows

\* A step of an execution, on a row that is there or that is gone.
Engine == \/ Undisturbed /\ UNCHANGED userVars
          \/ \E w \in Workers : MissRow(w) /\ UNCHANGED userVars

LEMMA MissRowStep ==
    ASSUME BasicInv, NEW w \in Workers, MissRow(w)
    PROVE  Moves /\ TypeOK' /\ WorkersPlaced'
<1>t. RunType /\ WorldType /\ WorkersPlaced /\ NoAttaching
  BY UserHalf DEF BasicInv
<1>1. pc[w] \in OnItsRow /\ ((Goto(w, "catch") /\ At(w, "commit")) \/ Exit(w))
  BY DEF MissRow, Bereft
<1>2. Stays(w)
  BY <1>t, <1>1, GotoStays, ExitStays DEF Steps, Catching, Attaching
<1>3. UNCHANGED worldVars
  BY DEF MissRow
<1>4. Moves
  BY <1>t, <1>2, <1>3, StaysMoves DEF worldVars, postVars, targetVars
<1>5. RunType' /\ WorldType'
  BY <1>t, <1>1, <1>3, GotoType, ExitType, SameWorldType DEF Steps, Catching
<1>6. WorkersPlaced'
  BY <1>t, <1>1, TargetsAssumption
     DEF Goto, Exit, Begin, At, RunType, WorkersPlaced, Placed, PreCommit, Catching, Released,
         Finalizing, Reconciling, Attaching
<1> QED BY <1>4, <1>5, <1>6 DEF TypeOK, RunType, WorldType

LEMMA EngineStep ==
    ASSUME BasicInv, Engine
    PROVE  Moves /\ TypeOK' /\ WorkersPlaced'
<1>1. CASE Undisturbed
  <2>1. TypeOK /\ RunType /\ WorkersPlaced /\ [Next]_vars
    BY <1>1, UserHalf DEF BasicInv, ApprovalTypeOK, Undisturbed
  <2> QED BY <1>1, <2>1, UndisturbedMoves, NextType, NextPlaced
<1>2. CASE \E w \in Workers : MissRow(w)
  BY <1>2, MissRowStep
<1> QED BY <1>1, <1>2 DEF Engine

LEMMA EngineBasic ==
    ASSUME BasicInv, Engine
    PROVE  BasicInv'
<1>1. Moves /\ TypeOK' /\ WorkersPlaced'
  BY EngineStep
<1>2. UNCHANGED userVars
  BY DEF Engine
<1>3. UserType'
  BY <1>1, <1>2, UserHalf DEF BasicInv, UserType, userVars, Moves
<1>4. PostsHaveRows'
  BY <1>1 DEF BasicInv, PostsHaveRows, Moves, TargetsOf
<1>5. RequestsPlaced'
  BY <1>2 DEF BasicInv, RequestsPlaced, userVars
<1>6. NoAttaching'
  BY <1>1 DEF Moves
<1> QED BY <1>1, <1>3, <1>4, <1>5, <1>6 DEF BasicInv, ApprovalTypeOK, UserType

LEMMA RequestBasic ==
    ASSUME BasicInv, RequestNext
    PROVE  BasicInv' /\ UNCHANGED <<runVars, subs, autopilot>>
<1>t. /\ RunType /\ WorldType /\ UserType /\ WorkersPlaced /\ NoAttaching
      /\ PostsHaveRows /\ RequestsPlaced
  BY UserHalf DEF BasicInv
<1> PICK u \in Requests :
      \/ \E p \in Posts :
            ApproveRead(u, p) \/ RejectRead(u, p) \/ RetryRead(u, p) \/ EditRead(u, p)
      \/ SelectTargets(u) \/ Reserve(u) \/ ApproveWrite(u) \/ Hand(u)
      \/ RejectWrite(u) \/ RetryTargets(u) \/ RetryPost(u)
      \/ ReselectTargets(u) \/ EditWrite(u)
  BY DEF RequestNext
<1> DEFINE P == /\ req' \in [Requests -> Request] /\ RequestsPlaced'
                /\ WorldType' /\ UserType' /\ PostsHaveRows'
                /\ UNCHANGED <<runVars, subs, autopilot>>
<1>p. req[u].pc # "idle" => req[u].post \in Posts
  BY <1>t DEF RequestsPlaced
<1>1. ASSUME NEW p \in Posts, NEW l \in RequestSteps, NEW now \in BOOLEAN, NEW S,
             Open(u, p, S, l, now)
      PROVE  P
  <2>1. req' \in [Requests -> Request] /\ RequestsPlaced'
    BY <1>1, <1>t, RequestMoves DEF Open
  <2>2. WorldType' /\ PostsHaveRows' /\ UNCHANGED <<runVars, subs, autopilot>>
    BY <1>1, <1>t DEF Open, vars, WorldType, PostsHaveRows, runVars, rowHistory
  <2>3. UserType'
    BY <1>1, <1>t, <2>1 DEF Open, vars, rowHistory, UserType
  <2> QED BY <2>1, <2>2, <2>3
<1>2. ASSUME NEW p \in Posts,
             ApproveRead(u, p) \/ RejectRead(u, p) \/ RetryRead(u, p) \/ EditRead(u, p)
      PROVE  P
  BY <1>1, <1>2 DEF ApproveRead, RejectRead, RetryRead, EditRead, RequestSteps
<1>3. ASSUME NEW l \in RequestSteps, NEW m \in RequestSteps \ {"idle"}, Select(u, m, l)
      PROVE  P
  <2>1. CASE ReplaceTargets(u, l)
    <3>1. req[u].pc # "idle" /\ Continue(u, l)
      BY <1>3, <2>1 DEF Select, ReplaceTargets
    <3>2. req' \in [Requests -> Request] /\ RequestsPlaced'
      BY <1>t, <3>1, RequestMoves
    <3>3. /\ status' \in [Targets -> TargetStatus]
          /\ autopilot' = autopilot /\ torn' \subseteq erased'
          /\ \A t \in erased' : t \in Targets /\ status'[t] = "ABSENT"
          /\ PostsHaveRows'
      BY <2>1, <3>1, ReplaceKeeps
    <3> QED BY <1>3, <1>t, <3>2, <3>3
         DEF Select, WorldType, UserType, postVars, faultVars
  <2>2. CASE Reply(u) /\ UNCHANGED <<status, rowHistory>>
    <3>1. req' \in [Requests -> Request] /\ RequestsPlaced'
      BY <1>t, <2>2, RequestMoves DEF RequestSteps
    <3> QED BY <1>3, <1>t, <2>2, <3>1
         DEF Select, WorldType, UserType, PostsHaveRows, rowHistory, postVars, faultVars
  <2> QED BY <1>3, <2>1, <2>2 DEF Select
<1>4. ASSUME SelectTargets(u) \/ ReselectTargets(u) PROVE P
  BY <1>3, <1>4 DEF SelectTargets, ReselectTargets, RequestSteps
<1>5. ASSUME Reserve(u) PROVE P
  <2>1. req' \in [Requests -> Request] /\ RequestsPlaced'
    BY <1>5, <1>t, RequestMoves DEF Reserve, RequestSteps
  <2> QED BY <1>5, <1>t, <2>1
       DEF Reserve, vars, WorldType, UserType, PostsHaveRows, runVars, rowHistory
<1>6. ASSUME ApproveWrite(u) PROVE P
  <2>1. req' \in [Requests -> Request] /\ RequestsPlaced'
    BY <1>6, <1>t, RequestMoves DEF ApproveWrite, RequestSteps
  <2>2. req[u].now \in BOOLEAN /\ req[u].post \in Posts
    BY <1>6, <1>t, <1>p DEF ApproveWrite, UserType, Request
  <2>3. /\ post' \in [Posts -> PostStatus] /\ old' \in [Posts -> BOOLEAN]
        /\ approvedAt' \in [Posts -> BOOLEAN]
    BY <1>6, <1>t, <2>2 DEF ApproveWrite, SetPost, WorldType, UserType, PostStatus
  <2>4. due' \in [Posts -> BOOLEAN]
    <3>1. due' = due \/ \E d \in BOOLEAN : due' = [due EXCEPT ![req[u].post] = d]
      BY <1>6, <2>2 DEF ApproveWrite
    <3> QED BY <1>t, <3>1 DEF WorldType
  <2> QED BY <1>6, <1>t, <2>1, <2>3, <2>4
       DEF ApproveWrite, WorldType, UserType, PostsHaveRows, targetVars, faultVars, rowHistory
<1>7. ASSUME Hand(u) PROVE P
  <2>1. req' \in [Requests -> Request] /\ RequestsPlaced'
    BY <1>7, <1>t, RequestMoves DEF Hand, RequestSteps
  <2>2. handed' \in SUBSET Targets
    BY <1>7, <1>t DEF Hand, PendingOf, TargetsOf, WorldType
  <2> QED BY <1>7, <1>t, <2>1, <2>2
       DEF Hand, WorldType, UserType, PostsHaveRows, postVars, targetVars, faultVars, rowHistory
<1>8. ASSUME RejectWrite(u) PROVE P
  <2>1. req' \in [Requests -> Request] /\ RequestsPlaced'
    BY <1>8, <1>t, RequestMoves DEF RejectWrite, RequestSteps
  <2>2. post' \in [Posts -> PostStatus] /\ old' \in [Posts -> BOOLEAN]
    BY <1>8, <1>t DEF RejectWrite, SetPost, WorldType, PostStatus
  <2> QED BY <1>8, <1>t, <2>1, <2>2
       DEF RejectWrite, WorldType, UserType, PostsHaveRows, targetVars, faultVars, rowHistory
<1>9. ASSUME RetryTargets(u) PROVE P
  <2>1. req' \in [Requests -> Request] /\ RequestsPlaced'
    BY <1>9, <1>t, RequestMoves DEF RetryTargets, RequestSteps
  <2>2. /\ status' \in [Targets -> TargetStatus] /\ retries' \in Nat
        /\ \A t \in Targets : status'[t] = "ABSENT" <=> status[t] = "ABSENT"
    BY <1>9, <1>t DEF RetryTargets, WorldType, UserType, TargetStatus
  <2>3. PostsHaveRows'
    BY <1>t, <2>2 DEF PostsHaveRows, TargetsOf
  <2> QED BY <1>9, <1>t, <2>1, <2>2, <2>3
       DEF RetryTargets, WorldType, UserType, postVars, faultVars, rowHistory
<1>10. ASSUME RetryPost(u) PROVE P
  <2>1. req' \in [Requests -> Request] /\ RequestsPlaced'
    BY <1>10, <1>t, RequestMoves DEF RetryPost, RequestSteps
  <2>2. /\ post' \in [Posts -> PostStatus] /\ old' \in [Posts -> BOOLEAN]
        /\ due' \in [Posts -> BOOLEAN]
    BY <1>10, <1>t DEF RetryPost, SetPost, WorldType, PostStatus
  <2> QED BY <1>10, <1>t, <2>1, <2>2
       DEF RetryPost, WorldType, UserType, PostsHaveRows, targetVars, faultVars, rowHistory
<1>11. ASSUME EditWrite(u) PROVE P
  <2>1. req' \in [Requests -> Request] /\ RequestsPlaced'
    BY <1>11, <1>t, RequestMoves DEF EditWrite, RequestSteps
  <2>2. /\ post' \in [Posts -> PostStatus] /\ old' \in [Posts -> BOOLEAN]
        /\ due' \in [Posts -> BOOLEAN]
    BY <1>11, <1>t, <1>p DEF EditWrite, SetPost, WorldType
  <2> QED BY <1>11, <1>t, <2>1, <2>2
       DEF EditWrite, WorldType, UserType, PostsHaveRows, targetVars, faultVars, rowHistory
<1>12. P
  BY <1>2, <1>4, <1>5, <1>6, <1>7, <1>8, <1>9, <1>10, <1>11
<1>13. RunType' /\ WorkersPlaced' /\ NoAttaching'
  BY <1>t, <1>12, SameRunType DEF runVars, WorkersPlaced, Placed, NoAttaching
<1>14. TypeOK'
  BY <1>12, <1>13 DEF TypeOK, RunType, WorldType
<1> QED BY <1>12, <1>13, <1>14 DEF BasicInv, ApprovalTypeOK, UserType

LEMMA InitBasic == ApprovalInit => BasicInv
<1> SUFFICES ASSUME ApprovalInit PROVE BasicInv
  OBVIOUS
<1> DEFINE Statuses == [p \in Posts |-> IF p \in autopilot THEN "SCHEDULED"
                                                          ELSE "NEEDS_APPROVAL"]
<1>1. InitialPosts(Statuses, FirstRows) /\ autopilot \in SUBSET Posts
  BY DEF ApprovalInit
<1>2. Statuses \in [Posts -> PostStatus]
  BY DEF PostStatus
<1>3. RunType
  BY <1>1, TargetsAssumption DEF InitialPosts, RunType, Steps, Paths
<1>4. WorldType
  BY <1>1, <1>2 DEF InitialPosts, WorldType, TargetStatus, ClaimAge
<1>5. UserType
  <2>1. NoRequest \in Request
    BY DEF NoRequest, Request, RequestSteps
  <2> QED BY <2>1 DEF ApprovalInit, UserType
<1>6. PostsHaveRows
  BY <1>1, RowsAssumption DEF InitialPosts, PostsHaveRows, TargetsOf
<1>7. WorkersPlaced /\ NoAttaching
  BY <1>1, TargetsAssumption DEF InitialPosts, WorkersPlaced, Placed, NoAttaching, Attaching,
     PreCommit, Catching, Released, Finalizing, Reconciling
<1>8. RequestsPlaced
  BY DEF ApprovalInit, RequestsPlaced, NoRequest
<1> QED BY <1>3, <1>4, <1>5, <1>6, <1>7, <1>8, UserHalf DEF BasicInv

LEMMA NextBasic == BasicInv /\ [ApprovalNext]_allVars => BasicInv'
<1> SUFFICES ASSUME BasicInv, [ApprovalNext]_allVars PROVE BasicInv'
  OBVIOUS
<1>1. CASE Engine
  BY <1>1, EngineBasic
<1>2. CASE RequestNext
  BY <1>2, RequestBasic
<1>3. CASE UNCHANGED allVars
  BY <1>3 DEF allVars, vars, userVars, BasicInv, ApprovalTypeOK, TypeOK, WorkersPlaced,
     Placed, NoAttaching, PostsHaveRows, RequestsPlaced
<1> QED BY <1>1, <1>2, <1>3 DEF ApprovalNext, Engine

LEMMA BasicInvariant == ApprovalSpec => []BasicInv
BY InitBasic, NextBasic, PTL DEF ApprovalSpec

\* Rows, executions and requests keep their types: a row under an execution
\* can be deleted, replaced and revived, and no id of a request outlives it.
THEOREM ApprovalTypeCorrect == ApprovalSpec => []ApprovalTypeOK
<1>1. BasicInv => ApprovalTypeOK
  BY DEF BasicInv
<1> QED BY <1>1, BasicInvariant, PTL

-----------------------------------------------------------------------------
(* The approval of what is submitted.                                      *)

Approved(p) == p \in autopilot \/ approvedAt[p]

\* Before its approval nothing has taken up a row of a post, and no request is
\* past the check that only a scheduled post can pass.
Untouched(p) ==
    /\ post[p] \in {"NEEDS_APPROVAL", "REJECTED"}
    /\ \A t \in TargetsOf(p) :
          /\ status[t] \in {"ABSENT", "PENDING"} /\ subs[t] = <<>> /\ t \notin handed
          /\ \A w \in Workers : target[w] # t
    /\ \A u \in Requests :
          req[u].post = p => req[u].pc \notin {"handing", "retrying", "revived"}

ApprovedFirst == \A p \in Posts : ~Approved(p) => Untouched(p)

LEMMA EngineApproved ==
    ASSUME BasicInv, ApprovedFirst, Engine
    PROVE  ApprovedFirst'
<1>1. Moves /\ UNCHANGED userVars
  BY EngineStep DEF Engine
<1> SUFFICES ASSUME NEW p \in Posts, ~Approved(p)' PROVE Untouched(p)'
  BY DEF ApprovedFirst
<1>2. Untouched(p)
  BY <1>1 DEF ApprovedFirst, Approved, userVars
<1>3. \A t \in TargetsOf(p) : t \in Targets /\ PostOf[t] = p /\ ~Trackable(t)
  BY <1>2 DEF Untouched, TargetsOf, Trackable
<1>4. ~Sweepable(p)
  BY <1>2 DEF Untouched, Sweepable
<1>5. NoTarget \notin Targets
  BY TargetsAssumption
<1>6. ASSUME NEW t \in TargetsOf(p)
      PROVE  /\ status'[t] \in {"ABSENT", "PENDING"} /\ subs'[t] = <<>> /\ t \notin handed'
             /\ \A w \in Workers : target'[w] # t
  <2>1. \A w \in Workers : target[w] # t
    BY <1>2 DEF Untouched
  <2>2. status'[t] = status[t] /\ (subs[t] = <<>> => subs'[t] = <<>>)
    BY <1>1, <1>3, <2>1 DEF Moves
  <2>3. t \notin handed'
    BY <1>1, <1>2, <1>3, <1>4 DEF Moves, Untouched
  <2>4. \A w \in Workers : target'[w] # t
    BY <1>1, <1>2, <1>3, <1>5, <2>1 DEF Moves, Untouched
  <2> QED BY <1>2, <2>2, <2>3, <2>4 DEF Untouched
<1>7. post'[p] = post[p]
  BY <1>1, <1>2 DEF Moves, Untouched
<1> QED BY <1>1, <1>2, <1>6, <1>7 DEF Untouched, userVars, TargetsOf

LEMMA RequestApproved ==
    ASSUME BasicInv, ApprovedFirst, RequestNext
    PROVE  ApprovedFirst'
<1>t. /\ WorldType /\ UserType /\ RequestsPlaced
      /\ UNCHANGED <<runVars, subs, autopilot>>
  BY UserHalf, RequestBasic DEF BasicInv
<1> PICK u \in Requests :
      \/ \E p \in Posts :
            ApproveRead(u, p) \/ RejectRead(u, p) \/ RetryRead(u, p) \/ EditRead(u, p)
      \/ SelectTargets(u) \/ Reserve(u) \/ ApproveWrite(u) \/ Hand(u)
      \/ RejectWrite(u) \/ RetryTargets(u) \/ RetryPost(u)
      \/ ReselectTargets(u) \/ EditWrite(u)
  BY DEF RequestNext
<1> DEFINE q == req[u].post
<1>q. req[u].pc # "idle" => q \in Posts
  BY <1>t DEF RequestsPlaced
<1>s. req[u].pc \in {"handing", "retrying", "revived"} => Approved(q)
  BY <1>q DEF ApprovedFirst, Untouched
<1> SUFFICES ASSUME NEW p \in Posts, ~Approved(p)' PROVE Untouched(p)'
  BY DEF ApprovedFirst
<1>r. /\ target' = target /\ subs' = subs /\ autopilot' = autopilot
      /\ \A t \in TargetsOf(p) : t \in Targets /\ PostOf[t] = p
  BY <1>t DEF runVars, TargetsOf
<1>a. ASSUME Approved(p)
      PROVE  ApproveWrite(u) /\ FALSE
  <2>1. approvedAt' = approvedAt \/ ApproveWrite(u)
    BY DEF ApproveRead, RejectRead, RetryRead, EditRead, Open, SelectTargets, Reserve,
       Hand, RejectWrite, RetryTargets, RetryPost, ReselectTargets, EditWrite, Select
  <2>2. approvedAt[p] => approvedAt'[p]
    BY <1>t, <2>1 DEF ApproveWrite, UserType
  <2> QED BY <1>a, <1>r, <2>2 DEF Approved
<1>b. Untouched(p)
  BY <1>a DEF ApprovedFirst
\* What each request has to leave alone of p.
<1> DEFINE Still ==
      /\ post'[p] = post[p] \/ post'[p] = "REJECTED"
      /\ \A t \in TargetsOf(p) : /\ status'[t] \in {"ABSENT", "PENDING"}
                                  /\ t \notin handed'
      /\ \A v \in Requests : req'[v].post = p =>
             req'[v].pc \notin {"handing", "retrying", "revived"}
<1>c. Still => Untouched(p)'
  BY <1>b, <1>r DEF Untouched, TargetsOf
<1>d. ASSUME Reply(u)
      PROVE  \A v \in Requests : req'[v].post = p =>
                 req'[v].pc \notin {"handing", "retrying", "revived"}
  BY <1>b, <1>d, <1>t DEF Untouched, Reply, NoRequest, UserType
<1>e. ASSUME NEW l, Continue(u, l), q = p => l \notin {"handing", "retrying", "revived"}
      PROVE  \A v \in Requests : req'[v].post = p =>
                 req'[v].pc \notin {"handing", "retrying", "revived"}
  <2>1. \A v \in Requests : req'[v].post = req[v].post
    BY <1>e, <1>t DEF Continue, UserType, Request
  <2>2. \A v \in Requests : v # u => req'[v] = req[v]
    BY <1>e, <1>t DEF Continue, UserType
  <2>3. req'[u].pc = l
    BY <1>e, <1>t DEF Continue, UserType, Request
  <2> QED BY <1>b, <1>e, <2>1, <2>2, <2>3 DEF Untouched
<1>1. ASSUME NEW r \in Posts, NEW l, NEW now, NEW S, Open(u, r, S, l, now),
             S \cap {"NEEDS_APPROVAL", "REJECTED"} # {} =>
                l \notin {"handing", "retrying", "revived"}
      PROVE  Still
  <2>1. r = p => l \notin {"handing", "retrying", "revived"}
    BY <1>1, <1>b DEF Open, Untouched
  <2>2. \A v \in Requests : v # u => req'[v] = req[v]
    BY <1>1, <1>t DEF Open, UserType
  <2>3. req'[u].post = r /\ req'[u].pc = l
    BY <1>1, <1>t DEF Open, UserType
  <2> QED BY <1>1, <1>b, <2>1, <2>2, <2>3 DEF Open, vars, Untouched
<1>2. ASSUME NEW r \in Posts,
             ApproveRead(u, r) \/ RejectRead(u, r) \/ RetryRead(u, r) \/ EditRead(u, r)
      PROVE  Still
  BY <1>1, <1>2 DEF ApproveRead, RejectRead, RetryRead, EditRead
<1>3. ASSUME NEW l \in {"approving", "editing"}, NEW m \in RequestSteps \ {"idle"},
             Select(u, m, l)
      PROVE  Still
  <2>1. UNCHANGED <<post, handed>>
    BY <1>3 DEF Select, postVars
  <2>2. CASE ReplaceTargets(u, l)
    <3>1. Continue(u, l)
      BY <2>2 DEF ReplaceTargets
    <3>2. \A t \in Targets : status'[t] \in {"ABSENT", "PENDING", status[t]}
      BY <2>2 DEF ReplaceTargets, SwapRows
    <3> QED BY <1>b, <1>e, <1>r, <2>1, <3>1, <3>2 DEF Untouched
  <2>3. CASE Reply(u) /\ UNCHANGED <<status, rowHistory>>
    BY <1>b, <1>d, <2>1, <2>3 DEF Untouched
  <2> QED BY <1>3, <2>2, <2>3 DEF Select
<1>4. ASSUME SelectTargets(u) \/ ReselectTargets(u) PROVE Still
  BY <1>3, <1>4 DEF SelectTargets, ReselectTargets, RequestSteps
<1>5. ASSUME Reserve(u) PROVE Still
  BY <1>5, <1>b, <1>d, <1>e DEF Reserve, vars, Untouched
<1>6. ASSUME ApproveWrite(u) PROVE Still
  <2>1. UNCHANGED <<status, handed>>
    BY <1>6 DEF ApproveWrite, targetVars
  <2>2. CASE q = p /\ approvedAt' = [approvedAt EXCEPT ![q] = TRUE]
    BY <1>t, <2>2 DEF Approved, UserType
  <2>3. CASE q # p /\ SetPost(q, "SCHEDULED") /\ (Continue(u, "handing") \/ Reply(u))
    <3>1. post'[p] = post[p]
      BY <1>t, <2>3 DEF SetPost, WorldType
    <3> QED BY <1>b, <1>d, <1>e, <2>1, <2>3, <3>1 DEF Untouched
  <2>4. CASE Reply(u) /\ UNCHANGED post
    BY <1>b, <1>d, <2>1, <2>4 DEF Untouched
  <2> QED BY <1>6, <2>2, <2>3, <2>4 DEF ApproveWrite
<1>7. ASSUME Hand(u) PROVE Still
  <2>1. q # p
    BY <1>7, <1>s, <1>a DEF Hand
  <2>2. \A t \in TargetsOf(p) : t \notin PendingOf(q)
    BY <2>1 DEF PendingOf, TargetsOf
  <2> QED BY <1>7, <1>b, <1>d, <2>2 DEF Hand, postVars, targetVars, Untouched
<1>8. ASSUME RejectWrite(u) PROVE Still
  <2>1. post'[p] \in {post[p], "REJECTED"}
    BY <1>8, <1>t DEF RejectWrite, SetPost, WorldType
  <2> QED BY <1>8, <1>b, <1>d, <2>1 DEF RejectWrite, targetVars, Untouched
<1>9. ASSUME RetryTargets(u) PROVE Still
  <2>1. q # p
    BY <1>9, <1>s, <1>a DEF RetryTargets
  <2>2. \A t \in TargetsOf(p) : status'[t] = status[t]
    BY <1>9, <1>r, <2>1 DEF RetryTargets
  <2>3. UNCHANGED <<post, handed>>
    BY <1>9 DEF RetryTargets, postVars
  <2> QED BY <1>9, <1>b, <1>d, <1>e, <2>1, <2>2, <2>3 DEF RetryTargets, Untouched
<1>10. ASSUME RetryPost(u) PROVE Still
  <2>1. q # p
    BY <1>10, <1>s, <1>a DEF RetryPost
  <2>2. post'[p] = post[p] /\ UNCHANGED <<status, handed>>
    BY <1>10, <1>t, <2>1 DEF RetryPost, SetPost, WorldType, targetVars
  <2> QED BY <1>10, <1>b, <1>e, <2>1, <2>2 DEF RetryPost, Untouched
<1>11. ASSUME EditWrite(u) PROVE Still
  <2>1. post'[p] = post[p] /\ UNCHANGED <<status, handed>>
    BY <1>11, <1>t DEF EditWrite, SetPost, WorldType, targetVars
  <2> QED BY <1>11, <1>b, <1>d, <2>1 DEF EditWrite, Untouched
<1> HIDE DEF Still
<1> QED BY <1>c, <1>2, <1>4, <1>5, <1>6, <1>7, <1>8, <1>9, <1>10, <1>11

\* Nothing of the queue is submitted before its post is approved, whatever
\* passes, requests and edits overlap: a post that waits for approval has never
\* been listed, handed over or worked on, and rejecting it opens no way around.
THEOREM OnlyApproved == ApprovalSpec => []OnlyApprovedIsSubmitted
<1>1. ApprovalInit => ApprovedFirst
  <2> SUFFICES ASSUME ApprovalInit, NEW p \in Posts, ~Approved(p) PROVE Untouched(p)
    BY DEF ApprovedFirst
  <2> USE DEF ApprovalInit, InitialPosts
  <2>1. post[p] = "NEEDS_APPROVAL"
    BY DEF Approved
  <2>2. \A t \in TargetsOf(p) :
          /\ status[t] \in {"ABSENT", "PENDING"} /\ subs[t] = <<>> /\ t \notin handed
          /\ \A w \in Workers : target[w] # t
    BY TargetsAssumption DEF TargetsOf
  <2>3. \A u \in Requests : req[u].pc = "idle"
    BY DEF NoRequest
  <2> QED BY <2>1, <2>2, <2>3 DEF Untouched
<1>2. BasicInv /\ ApprovedFirst /\ [ApprovalNext]_allVars => ApprovedFirst'
  <2>1. ASSUME UNCHANGED allVars PROVE ApprovedFirst' <=> ApprovedFirst
    BY <2>1 DEF allVars, vars, userVars, ApprovedFirst, Approved, Untouched, TargetsOf
  <2> QED BY <2>1, EngineApproved, RequestApproved DEF ApprovalNext, Engine
<1>3. ApprovedFirst => OnlyApprovedIsSubmitted
  BY TargetsAssumption
     DEF ApprovedFirst, Approved, Untouched, OnlyApprovedIsSubmitted, TargetsOf
<1> QED BY <1>1, <1>2, <1>3, BasicInvariant, PTL DEF ApprovalSpec

-----------------------------------------------------------------------------
(* The claims of Instagram rows.                                           *)

\* What an execution that owns its row finds there: its claim, its success, or
\* nothing, when a request has deleted the row.
OwnedRow(w) ==
    \/ target[w] \in erased
    \/ /\ pc[w] \in PreCommit \cup Catching
       /\ status[target[w]] = "PUBLISHING" /\ claimedAt[target[w]] = "fresh"
    \/ pc[w] \in Finalizing \cup Catching /\ status[target[w]] = "PUBLISHED"

ClaimsHeld ==
    /\ InstagramExclusion
    /\ \A w \in Workers : Owns(w) /\ target[w] \in Instagram => OwnedRow(w)

\* Only w moves, and it owns nothing that it did not own at an earlier step.
Mover(w) ==
    /\ \A v \in Workers \ {w} :
          pc'[v] = pc[v] /\ target'[v] = target[v] /\ path'[v] = path[v]
    /\ Owns(w)' => Owns(w) /\ target'[w] = target[w] /\ Follows(pc[w], pc'[w])

LEMMA GotoMover ==
    ASSUME RunType, WorkersPlaced, NEW w \in Workers, NEW l, Follows(pc[w], l), Goto(w, l)
    PROVE  Mover(w)
BY DEF RunType, WorkersPlaced, Placed, Goto, Mover, Follows, Owns, Steps, PreCommit,
   Catching, Released, Finalizing, Reconciling, Attaching

LEMMA ExitMover ==
    ASSUME RunType, NEW w \in Workers, Exit(w)
    PROVE  Mover(w)
BY DEF RunType, Exit, Begin, Mover, Owns

LEMMA MoverClaims ==
    ASSUME ClaimsHeld, NEW w \in Workers, Mover(w), UNCHANGED erased,
           \A t \in Instagram : status'[t] = status[t] /\ claimedAt'[t] = claimedAt[t]
    PROVE  ClaimsHeld'
<1>1. \A v \in Workers : Owns(v)' => Owns(v) /\ target'[v] = target[v]
  BY DEF Mover, Owns
<1>2. InstagramExclusion'
  BY <1>1 DEF ClaimsHeld, InstagramExclusion, ExclusiveOn, Instagram
<1>3. ASSUME NEW v \in Workers, Owns(v)', target'[v] \in Instagram
      PROVE  OwnedRow(v)'
  <2>1. OwnedRow(v) /\ Owns(v) /\ target'[v] = target[v]
    BY <1>1, <1>3 DEF ClaimsHeld, Instagram
  <2>2. pc'[v] = pc[v] \/ Follows(pc[v], pc'[v])
    BY <1>3 DEF Mover
  <2> QED BY <1>3, <2>1, <2>2 DEF OwnedRow, Follows, Owns, PreCommit, Catching, Finalizing
<1> QED BY <1>2, <1>3 DEF ClaimsHeld, Instagram

\* Rows change under executions that stand still, the owned ones only by going.
LEMMA RowsClaims ==
    ASSUME ClaimsHeld, UNCHANGED <<pc, target, path>>, erased \subseteq erased',
           \A w \in Workers : Owns(w) /\ target[w] \in Instagram =>
              \/ target[w] \in erased'
              \/ /\ status'[target[w]] = status[target[w]]
                 /\ claimedAt'[target[w]] = claimedAt[target[w]]
    PROVE  ClaimsHeld'
BY DEF ClaimsHeld, InstagramExclusion, ExclusiveOn, Instagram, Owns, OwnedRow

LEMMA EngineClaims ==
    ASSUME BasicInv, ClaimsHeld, Engine
    PROVE  ClaimsHeld'
<1>t. /\ RunType /\ WorldType /\ WorkersPlaced /\ NoAttaching /\ PostsHaveRows
      /\ \A t \in erased : t \in Targets /\ status[t] = "ABSENT"
      /\ UNCHANGED erased
  BY UserHalf DEF BasicInv, UserType, Engine, userVars
<1>w. \A w \in Workers : pc[w] # "idle" => target[w] \in Targets
  BY <1>t, TargetsAssumption DEF RunType, WorkersPlaced, Placed
<1> USE <1>t
<1>1. ASSUME NEW p \in Posts, BecomeDue(p) \/ AgePost(p) PROVE ClaimsHeld'
  BY <1>1, RowsClaims DEF BecomeDue, AgePost, runVars, targetVars
<1>2. ASSUME NEW t \in Targets, ExpireClaim(t) PROVE ClaimsHeld'
  <2>1. \A w \in Workers : Owns(w) => claimedAt'[target[w]] = claimedAt[target[w]]
    BY <1>2, <1>w DEF ExpireClaim, WorldType, Owns, PreCommit, Catching, Finalizing
  <2> QED BY <1>2, <2>1, RowsClaims DEF ExpireClaim, runVars
<1>3. ASSUME NEW t \in Targets, SettleJob(t) PROVE ClaimsHeld'
  BY <1>3, RowsClaims DEF SettleJob, runVars, targetVars
<1>4. ASSUME Sweep \/ DropHanded PROVE ClaimsHeld'
  BY <1>4, RowsClaims DEF Sweep, DropHanded, runVars, targetVars
<1>5. ASSUME NEW w \in Workers, FindBare(w) PROVE FALSE
  BY <1>5, TargetsAssumption DEF FindBare, PostsHaveRows, Rows
<1>6. ASSUME NEW w \in Workers, NEW t \in Targets, Read(w, t) \/ Track(w, t)
      PROVE  ClaimsHeld'
  <2>1. Mover(w)
    BY <1>6 DEF Read, Track, Begin, At, RunType, Mover, Owns, PreCommit, Catching,
       Finalizing, Reconciling
  <2> QED BY <1>6, <2>1, MoverClaims DEF Read, Track, worldVars, targetVars
<1>7. ASSUME NEW w \in Workers, Crash(w) \/ DbFailure(w) \/ MissRow(w)
      PROVE  ClaimsHeld'
  <2>1. Mover(w)
    <3>1. CASE Exit(w)
      BY <3>1, ExitMover
    <3>2. CASE Goto(w, "catch") /\ pc[w] \in {"commit"} \cup Finalizing
      BY <3>2, GotoMover DEF Follows, Steps, PreCommit, Catching, Finalizing
    <3> QED BY <1>7, <3>1, <3>2 DEF Crash, DbFailure, MissRow, At
  <2> QED BY <1>7, <2>1, MoverClaims DEF Crash, DbFailure, MissRow, worldVars, targetVars
<1>8. ASSUME NEW w \in Workers, Attach(w) \/ FailBare(w) PROVE FALSE
  BY <1>8 DEF Attach, FailBare, At, NoAttaching, Attaching
<1>9. ASSUME NEW w \in Workers, Step(w) PROVE ClaimsHeld'
  <2> DEFINE t == target[w]
  <2>t. pc[w] # "idle" /\ t \in Targets
    BY <1>9, <1>w DEF Step, Attach, FailBare, Claim, MarkPost, Preflight, CallPlatform,
       RefreshAndRetry, Commit, Notify, ReadAttempts, Release, ReleaseAs, GiveUp,
       CountPublished, Revert, CountRemaining, Tally, Settle, CountFailed, Purge, Poll,
       ConfirmRead, ConfirmWrite, FailRead, FailWrite, At
  <2>1. CASE \/ MarkPost(w) \/ Preflight(w) \/ RefreshAndRetry(w) \/ Notify(w)
             \/ GiveUp(w) \/ CountPublished(w) \/ Revert(w) \/ CountRemaining(w)
             \/ Settle(w) \/ CountFailed(w) \/ Purge(w)
             \/ Poll(w) \/ ConfirmRead(w) \/ FailRead(w)
    <3>1. Mover(w)
      BY <2>1, GotoMover, ExitMover
         DEF MarkPost, Preflight, RefreshAndRetry, Notify, GiveUp, CountPublished, Revert,
         CountRemaining, Settle, CountFailed, Purge, Poll, ConfirmRead, FailRead, At,
         Follows, Steps, PreCommit, Catching, Released, Finalizing, Reconciling
    <3> QED BY <2>1, <3>1, MoverClaims
         DEF MarkPost, Preflight, RefreshAndRetry, Notify, GiveUp, CountPublished, Revert,
         CountRemaining, Settle, CountFailed, Purge, Poll, ConfirmRead, FailRead,
         worldVars, targetVars
  <2>2. CASE ReadAttempts(w) \/ Tally(w) \/ CallPlatform(w)
    <3>1. Mover(w)
      BY <2>2 DEF ReadAttempts, Tally, CallPlatform, Submit, Goto, At, RunType,
         WorkersPlaced, Placed, Mover, Follows, Owns, Steps, PreCommit, Catching,
         Released, Finalizing, Reconciling, Attaching
    <3> QED BY <2>2, <3>1, MoverClaims
         DEF ReadAttempts, Tally, CallPlatform, worldVars, targetVars
  <2>3. CASE Claim(w) /\ ~Claimable(t)
    BY <2>3, ExitMover, MoverClaims DEF Claim
  <2>4. CASE Claim(w) /\ Claimable(t)
    <3>1. \A v \in Workers : Owns(v) /\ target[v] \in Instagram => target[v] # t
      BY <2>4 DEF ClaimsHeld, OwnedRow, Claimable, StaleClaim
    <3>2. \A v \in Workers \ {w} : pc'[v] = pc[v] /\ (Owns(v)' <=> Owns(v))
      BY <2>4 DEF Claim, Goto, Owns, RunType
    <3>3. /\ UNCHANGED target /\ pc'[w] = "claimed"
          /\ status'[t] = "PUBLISHING" /\ claimedAt'[t] = "fresh"
          /\ \A u \in Targets \ {t} : status'[u] = status[u] /\ claimedAt'[u] = claimedAt[u]
      BY <2>4, <2>t DEF Claim, Goto, RunType, WorldType
    <3>4. InstagramExclusion'
      BY <3>1, <3>2, <3>3 DEF ClaimsHeld, InstagramExclusion, ExclusiveOn, Instagram
    <3>5. ASSUME NEW v \in Workers, Owns(v)', target[v] \in Instagram
          PROVE  OwnedRow(v)'
      <4>1. CASE v = w
        BY <3>3, <4>1 DEF OwnedRow, PreCommit
      <4>2. CASE v # w
        BY <3>1, <3>2, <3>3, <3>5, <4>2 DEF ClaimsHeld, OwnedRow, Instagram
      <4> QED BY <4>1, <4>2
    <3> QED BY <3>3, <3>4, <3>5 DEF ClaimsHeld, Instagram
  <2>5. CASE Commit(w) \/ Release(w)
    <3>1. Owns(w)
      BY <2>5 DEF Commit, Release, ReleaseAs, At, Owns, WorkersPlaced, Placed, PreCommit,
         Catching
    <3>2. /\ UNCHANGED target
          /\ \A v \in Workers \ {w} : pc'[v] = pc[v] /\ (Owns(v)' <=> Owns(v))
          /\ \A u \in Targets \ {t} : status'[u] = status[u] /\ claimedAt'[u] = claimedAt[u]
      BY <2>5, <2>t DEF Commit, Release, ReleaseAs, Goto, Owns, RunType, WorldType
    <3>3. \A v \in Workers \ {w} : Owns(v) /\ target[v] \in Instagram => target[v] # t
      BY <3>1 DEF ClaimsHeld, InstagramExclusion, ExclusiveOn
    <3>4. Owns(w)' => pc'[w] = "notify" /\ Commit(w)
      BY <2>5, <2>t DEF Release, ReleaseAs, Commit, Goto, Owns, RunType
    <3>5. Commit(w) /\ t \in Instagram => status'[t] = "PUBLISHED"
      BY <2>t DEF Commit, WorldType, Instagram
    <3>6. InstagramExclusion'
      BY <3>1, <3>2 DEF ClaimsHeld, InstagramExclusion, ExclusiveOn, Instagram
    <3>7. ASSUME NEW v \in Workers, Owns(v)', target[v] \in Instagram
          PROVE  OwnedRow(v)'
      <4>1. CASE v = w
        BY <3>2, <3>4, <3>5, <3>7, <4>1 DEF OwnedRow, Finalizing
      <4>2. CASE v # w
        BY <3>2, <3>3, <3>7, <4>2 DEF ClaimsHeld, OwnedRow, Instagram
      <4> QED BY <4>1, <4>2
    <3> QED BY <3>2, <3>6, <3>7 DEF ClaimsHeld, Instagram
  <2>6. CASE ConfirmWrite(w) \/ FailWrite(w)
    <3>1. t \in TikTok /\ path[w] = "reconcile"
      BY <2>6 DEF ConfirmWrite, FailWrite, At, WorkersPlaced, Placed, Reconciling
    <3>2. Mover(w)
      BY <2>6, <3>1 DEF ConfirmWrite, FailWrite, Goto, RunType, Mover, Owns
    <3>3. \A u \in Instagram : status'[u] = status[u] /\ claimedAt'[u] = claimedAt[u]
      BY <2>6, <3>1 DEF ConfirmWrite, FailWrite, Instagram, WorldType
    <3> QED BY <3>2, <3>3, MoverClaims
  <2> QED BY <1>8, <1>9, <2>1, <2>2, <2>3, <2>4, <2>5, <2>6 DEF Step
<1> QED BY <1>1, <1>2, <1>3, <1>4, <1>5, <1>6, <1>7, <1>9 DEF Engine, Undisturbed, Next

\* A request changes the rows of executions only by deleting them.
LEMMA RequestClaims ==
    ASSUME BasicInv, ClaimsHeld, RequestNext
    PROVE  ClaimsHeld'
<1>t. WorldType /\ UNCHANGED <<pc, target, path>>
  BY UserHalf, RequestBasic DEF BasicInv, runVars
<1>o. \A w \in Workers : Owns(w) /\ target[w] \in Instagram =>
          target[w] \in Targets /\ status[target[w]] # "FAILED"
  BY UserHalf DEF ClaimsHeld, OwnedRow, Instagram, BasicInv, UserType
<1>1. ASSUME NEW u \in Requests, NEW l, ReplaceTargets(u, l)
      PROVE  /\ erased \subseteq erased'
             /\ \A w \in Workers : Owns(w) /\ target[w] \in Instagram =>
                  target[w] \in erased' \/ status'[target[w]] = status[target[w]]
  <2>1. PICK D, A : \E N \in NewRows(req[u].post, A) : SwapRows(D, N)
    BY <1>1 DEF ReplaceTargets
  <2>n. PICK N \in NewRows(req[u].post, A) : SwapRows(D, N)
    BY <2>1
  <2>2. \A t \in N : t \notin erased /\ status[t] = "ABSENT"
    BY DEF NewRows
  <2> QED BY <1>o, <2>n, <2>2 DEF SwapRows, ClaimsHeld, OwnedRow
<1>2. /\ erased \subseteq erased' /\ UNCHANGED claimedAt
      /\ \A w \in Workers : Owns(w) /\ target[w] \in Instagram =>
            target[w] \in erased' \/ status'[target[w]] = status[target[w]]
  <2> PICK u \in Requests :
        \/ \E p \in Posts :
              ApproveRead(u, p) \/ RejectRead(u, p) \/ RetryRead(u, p) \/ EditRead(u, p)
        \/ SelectTargets(u) \/ Reserve(u) \/ ApproveWrite(u) \/ Hand(u)
        \/ RejectWrite(u) \/ RetryTargets(u) \/ RetryPost(u)
        \/ ReselectTargets(u) \/ EditWrite(u)
    BY DEF RequestNext
  <2>1. CASE \/ \E p \in Posts :
                   ApproveRead(u, p) \/ RejectRead(u, p) \/ RetryRead(u, p) \/ EditRead(u, p)
             \/ Reserve(u) \/ ApproveWrite(u) \/ Hand(u) \/ RejectWrite(u)
             \/ RetryPost(u) \/ EditWrite(u)
    BY <2>1 DEF ApproveRead, RejectRead, RetryRead, EditRead, Open, Reserve, ApproveWrite,
       Hand, RejectWrite, RetryPost, EditWrite, vars, targetVars, rowHistory
  <2>2. CASE RetryTargets(u)
    BY <2>2, <1>o DEF RetryTargets, rowHistory
  <2>3. CASE SelectTargets(u) \/ ReselectTargets(u)
    BY <2>3, <1>1 DEF SelectTargets, ReselectTargets, Select, rowHistory
  <2> QED BY <2>1, <2>2, <2>3
<1> QED BY <1>t, <1>2, RowsClaims

LEMMA ClaimsInvariant == ApprovalSpec => []ClaimsHeld
<1>1. ApprovalInit => ClaimsHeld
  BY DEF ApprovalInit, InitialPosts, ClaimsHeld, InstagramExclusion, ExclusiveOn, Owns,
     PreCommit, Catching, Finalizing
<1>2. BasicInv /\ ClaimsHeld /\ [ApprovalNext]_allVars => ClaimsHeld'
  <2>1. ASSUME UNCHANGED allVars PROVE ClaimsHeld' <=> ClaimsHeld
    BY <2>1 DEF allVars, vars, userVars, ClaimsHeld, InstagramExclusion, ExclusiveOn, Owns,
       OwnedRow
  <2> QED BY <2>1, EngineClaims, RequestClaims DEF ApprovalNext, Engine
<1> QED BY <1>1, <1>2, BasicInvariant, PTL DEF ApprovalSpec

\* No two executions work on the same Instagram row, though "publish now" and
\* retry hand rows to publishOne beside the passes, retry revives failed rows,
\* and edits delete rows under the executions that own them.
THEOREM InstagramClaims == ApprovalSpec => []InstagramExclusion
<1>1. ClaimsHeld => InstagramExclusion
  BY DEF ClaimsHeld
<1> QED BY <1>1, ClaimsInvariant, PTL

-----------------------------------------------------------------------------
(* What Instagram accepts for a row.                                       *)

\* An execution that may still submit, or give its row back for another try.
Unsent(w) == \/ pc[w] \in PreCommit \ {"commit"}
             \/ pc[w] \in Catching /\ target[w] \notin erased

\* A row is submitted once more than there were faults only if that success is
\* recorded, is about to be, or can no longer be.
PaidFor ==
    \A t \in Instagram :
        /\ Len(subs[t]) <= 1 + Faults
        /\ \/ t \in erased \/ status[t] = "PUBLISHED"
           \/ \E w \in Workers : pc[w] = "commit" /\ target[w] = t
           \/ Len(subs[t]) <= Faults
        /\ \A w \in Workers : target[w] = t /\ Unsent(w) => Len(subs[t]) <= Faults

LEMMA FaultsNat ==
    ASSUME WorldType
    PROVE  Faults \in Nat /\ \A t \in Instagram : Len(subs[t]) \in Nat
BY DEF WorldType, Faults, Instagram

\* A fault pays for one more.
LEMMA FaultPaid ==
    ASSUME WorldType, PaidFor, Faults' = Faults + 1, UNCHANGED subs
    PROVE  PaidFor'
<1>1. \A t \in Instagram : Len(subs'[t]) <= Faults' /\ Len(subs'[t]) <= 1 + Faults'
  BY FaultsNat DEF PaidFor
<1> QED BY <1>1 DEF PaidFor, Instagram

\* Only w moves, and nothing is submitted.
LEMMA MovePaid ==
    ASSUME PaidFor, NEW w \in Workers, UNCHANGED <<subs, faultVars>>,
           erased \subseteq erased',
           \A v \in Workers \ {w} : pc'[v] = pc[v] /\ target'[v] = target[v],
           \A t \in Instagram : status[t] = "PUBLISHED" =>
              status'[t] = "PUBLISHED" \/ t \in erased' \/ Len(subs[t]) <= Faults,
           \A t \in Instagram : pc[w] = "commit" /\ target[w] = t =>
              \/ t \in erased' \/ status'[t] = "PUBLISHED"
              \/ pc'[w] = "commit" /\ target'[w] = t,
           \A t \in Instagram : target'[w] = t /\ Unsent(w)' => Len(subs[t]) <= Faults
    PROVE  PaidFor'
<1>1. Faults' = Faults
  BY DEF Faults, faultVars
<1> SUFFICES ASSUME NEW t \in Instagram
             PROVE  /\ Len(subs'[t]) <= 1 + Faults'
                    /\ \/ t \in erased' \/ status'[t] = "PUBLISHED"
                       \/ \E v \in Workers : pc'[v] = "commit" /\ target'[v] = t
                       \/ Len(subs'[t]) <= Faults'
                    /\ \A v \in Workers : target'[v] = t /\ Unsent(v)' =>
                           Len(subs'[t]) <= Faults'
  BY DEF PaidFor, Instagram
<1>2. \/ t \in erased' \/ status'[t] = "PUBLISHED"
      \/ \E v \in Workers : pc'[v] = "commit" /\ target'[v] = t
      \/ Len(subs[t]) <= Faults
  BY DEF PaidFor
<1>3. \A v \in Workers \ {w} : Unsent(v)' => Unsent(v)
  BY DEF Unsent
<1> QED BY <1>1, <1>2, <1>3 DEF PaidFor

\* The owner of a row that may still submit it is alone with it.
LEMMA OnlyOwner ==
    ASSUME WorkersPlaced, ClaimsHeld, NEW v \in Workers, NEW w \in Workers,
           pc[v] \in PreCommit \cup Catching, pc[w] \in PreCommit \cup Catching,
           target[v] = target[w], target[w] \in Instagram
    PROVE  v = w
BY DEF WorkersPlaced, Placed, ClaimsHeld, InstagramExclusion, ExclusiveOn, Owns

\* CallPlatform: the submission of a row that had no unpaid one.
LEMMA CallPaid ==
    ASSUME BasicInv, ClaimsHeld, PaidFor, UNCHANGED erased, NEW w \in Workers, CallPlatform(w)
    PROVE  PaidFor'
<1> DEFINE t == target[w]
<1>t. RunType /\ WorldType /\ WorkersPlaced
  BY UserHalf DEF BasicInv
<1>w. t \in Targets /\ pc[w] \in {"call", "recall"}
  BY <1>t, TargetsAssumption DEF CallPlatform, RunType, WorkersPlaced, Placed
<1>1. t \in Instagram => Len(subs[t]) <= Faults
  BY <1>w DEF PaidFor, Unsent, PreCommit
<1>2. CASE Goto(w, "catch") /\ UNCHANGED <<subs, lostAcks>>
  <2>1. UNCHANGED <<subs, faultVars, status>> /\ target' = target /\ pc' = [pc EXCEPT ![w] = "catch"]
    BY <1>2 DEF CallPlatform, Goto, faultVars, targetVars
  <2> QED BY <1>t, <1>w, <1>1, <2>1, MovePaid DEF RunType
<1>3. ASSUME NEW l, Submit(w, l),
             \/ l = "commit" /\ lostAcks' = lostAcks
             \/ l = "catch" /\ lostAcks' = lostAcks + 1
      PROVE  PaidFor'
  <2>1. \A u \in Instagram : Len(subs'[u]) = IF u = t THEN Len(subs[u]) + 1
                                                     ELSE Len(subs[u])
    BY <1>3, <1>t, LenAppend DEF Submit, WorldType, Instagram
  <2>2. /\ UNCHANGED <<target, status>> /\ pc' = [pc EXCEPT ![w] = l]
        /\ Faults' = Faults + (lostAcks' - lostAcks)
    BY <1>3, <1>t DEF CallPlatform, Submit, targetVars, Faults, WorldType
  <2>3. /\ Faults \in Nat /\ \A u \in Instagram : Len(subs[u]) \in Nat
        /\ Faults' = IF l = "commit" THEN Faults ELSE Faults + 1
    BY <1>3, <1>t, <2>2, FaultsNat DEF WorldType
  <2>4. \A v \in Workers \ {w} : t \in Instagram /\ target[v] = t =>
            pc[v] \notin PreCommit \cup Catching
    BY <1>t, <1>w, OnlyOwner DEF PreCommit
  <2> SUFFICES ASSUME NEW u \in Instagram
               PROVE  /\ Len(subs'[u]) <= 1 + Faults'
                      /\ \/ u \in erased' \/ status'[u] = "PUBLISHED"
                         \/ \E v \in Workers : pc'[v] = "commit" /\ target'[v] = u
                         \/ Len(subs'[u]) <= Faults'
                      /\ \A v \in Workers : target'[v] = u /\ Unsent(v)' =>
                             Len(subs'[u]) <= Faults'
    BY DEF PaidFor, Instagram
  <2>5. CASE u = t
    <3>1. Len(subs'[u]) = Len(subs[u]) + 1 /\ Len(subs[u]) <= Faults /\ Len(subs[u]) \in Nat
      BY <1>1, <2>1, <2>3, <2>5
    <3>2. CASE l = "commit"
      <4>1. pc'[w] = "commit" /\ target'[w] = u
        BY <1>t, <2>2, <2>5, <3>2 DEF RunType
      <4>2. \A v \in Workers : target'[v] = u => ~Unsent(v)'
        <5>1. ~Unsent(w)'
          BY <4>1 DEF Unsent, Catching
        <5>2. \A v \in Workers \ {w} : target'[v] = u => pc'[v] \notin PreCommit \cup Catching
          BY <1>t, <2>2, <2>4, <2>5 DEF RunType
        <5> QED BY <5>1, <5>2 DEF Unsent
      <4> QED BY <2>3, <3>1, <3>2, <4>1, <4>2
    <3>3. CASE l = "catch"
      BY <2>3, <3>1, <3>3
    <3> QED BY <1>3, <3>2, <3>3
  <2>6. CASE u # t
    <3>1. Len(subs'[u]) = Len(subs[u]) /\ Len(subs[u]) \in Nat
          /\ Faults \in Nat /\ Faults' \in Nat /\ Faults <= Faults'
      BY <2>1, <2>3, <2>6
    <3>2. \A v \in Workers : target[v] = u => pc'[v] = pc[v] /\ (Unsent(v)' => Unsent(v))
      BY <1>t, <2>2, <2>6 DEF RunType, Unsent
    <3> QED BY <2>2, <3>1, <3>2 DEF PaidFor
  <2> QED BY <2>5, <2>6
<1> QED BY <1>2, <1>3 DEF CallPlatform

LEMMA EnginePaid ==
    ASSUME BasicInv, ClaimsHeld, PaidFor, Engine
    PROVE  PaidFor'
<1>t. /\ RunType /\ WorldType /\ WorkersPlaced /\ NoAttaching /\ PostsHaveRows
      /\ UNCHANGED erased
  BY UserHalf DEF BasicInv, Engine, userVars
<1>w. \A w \in Workers : pc[w] # "idle" => target[w] \in Targets
  BY <1>t, TargetsAssumption DEF RunType, WorkersPlaced, Placed
<1>u. Undisturbed => \A w \in Workers : Bereft(w) => pc'[w] \in {pc[w], "idle"}
  BY DEF Undisturbed
<1> USE <1>t
<1>1. ASSUME \/ \E p \in Posts : BecomeDue(p) \/ AgePost(p)
             \/ \E t \in Targets : ExpireClaim(t)
             \/ Sweep \/ DropHanded
      PROVE  PaidFor'
  BY <1>1 DEF BecomeDue, AgePost, ExpireClaim, Sweep, DropHanded, runVars, targetVars,
     faultVars, PaidFor, Faults, Unsent
<1>2. ASSUME NEW t \in Targets, SettleJob(t) PROVE PaidFor'
  <2>1. \A u \in Targets : Len(subs'[u]) = Len(subs[u])
    BY <1>2 DEF SettleJob, WorldType
  <2> QED BY <1>2, <2>1
       DEF SettleJob, runVars, targetVars, faultVars, PaidFor, Faults, Unsent, Instagram
<1>3. ASSUME NEW w \in Workers, FindBare(w) PROVE FALSE
  BY <1>3, TargetsAssumption DEF FindBare, PostsHaveRows, Rows
<1>4. ASSUME NEW w \in Workers, NEW t \in Targets, Read(w, t) \/ Track(w, t)
      PROVE  PaidFor'
  <2>1. /\ pc[w] = "idle" /\ pc'[w] \in {"read", "poll"} /\ UNCHANGED <<subs, faultVars, status>>
        /\ \A v \in Workers \ {w} : pc'[v] = pc[v] /\ target'[v] = target[v]
    BY <1>4 DEF Read, Track, Begin, At, RunType, worldVars, targetVars
  <2> QED BY <2>1, MovePaid DEF Unsent, PreCommit, Catching
<1>5. ASSUME NEW w \in Workers, Crash(w) \/ DbFailure(w) PROVE PaidFor'
  <2>1. Faults' = Faults + 1 /\ UNCHANGED subs
    BY <1>5 DEF Crash, DbFailure, Faults, WorldType
  <2> QED BY <2>1, FaultPaid
\* A step that ends, or goes on in the code it is in.
<1>6. ASSUME NEW w \in Workers, pc[w] # "commit", UNCHANGED <<subs, faultVars, status>>,
             \/ Exit(w)
             \/ /\ UNCHANGED target
                /\ \E l \in Steps : /\ pc' = [pc EXCEPT ![w] = l]
                                    /\ \/ pc[w] \in PreCommit
                                       \/ pc[w] \in Catching /\ l \notin PreCommit
                                       \/ l \notin PreCommit \cup Catching
      PROVE  PaidFor'
  <2>1. \A v \in Workers \ {w} : pc'[v] = pc[v] /\ target'[v] = target[v]
    BY <1>6 DEF Exit, Begin, RunType
  <2>2. Unsent(w)' => Unsent(w) /\ target'[w] = target[w]
    BY <1>6 DEF Exit, Begin, RunType, Unsent, PreCommit, Catching
  <2>3. \A t \in Instagram : target'[w] = t /\ Unsent(w)' => Len(subs[t]) <= Faults
    BY <2>2 DEF PaidFor
  <2> QED BY <1>6, <2>1, <2>3, MovePaid
<1>7. ASSUME NEW w \in Workers, MissRow(w) PROVE PaidFor'
  <2>1. CASE At(w, "commit") /\ Goto(w, "catch")
    <3>1. /\ target[w] \in erased' /\ UNCHANGED <<target, subs, faultVars, status>>
          /\ pc' = [pc EXCEPT ![w] = "catch"]
      BY <1>7, <2>1 DEF MissRow, Bereft, Goto, worldVars, targetVars
    <3> QED BY <3>1, MovePaid DEF RunType, Unsent, PreCommit
  <2>2. CASE ~At(w, "commit") /\ Exit(w)
    BY <1>6, <1>7, <2>2 DEF MissRow, At, worldVars, targetVars
  <2> QED BY <1>7, <2>1, <2>2 DEF MissRow
<1>8. ASSUME Undisturbed, NEW w \in Workers, Step(w) PROVE PaidFor'
  <2> DEFINE t == target[w]
  <2>t. pc[w] # "idle" /\ t \in Targets
    BY <1>8, <1>w DEF Step, Attach, FailBare, Claim, MarkPost, Preflight, CallPlatform,
       RefreshAndRetry, Commit, Notify, ReadAttempts, Release, ReleaseAs, GiveUp,
       CountPublished, Revert, CountRemaining, Tally, Settle, CountFailed, Purge, Poll,
       ConfirmRead, ConfirmWrite, FailRead, FailWrite, At
  <2>1. CASE \/ MarkPost(w) \/ Preflight(w) \/ RefreshAndRetry(w) \/ Notify(w)
             \/ GiveUp(w) \/ CountPublished(w) \/ Revert(w) \/ CountRemaining(w)
             \/ Settle(w) \/ CountFailed(w) \/ Purge(w)
             \/ Poll(w) \/ ConfirmRead(w) \/ FailRead(w)
    BY <2>1, <1>6
       DEF MarkPost, Preflight, RefreshAndRetry, Notify, GiveUp, CountPublished, Revert,
       CountRemaining, Settle, CountFailed, Purge, Poll, ConfirmRead, FailRead, At, Goto,
       worldVars, targetVars, Steps, PreCommit, Catching, Released, Finalizing, Reconciling
  <2>2. CASE ReadAttempts(w) \/ Tally(w)
    BY <2>2, <1>6
       DEF ReadAttempts, Tally, At, worldVars, targetVars, Steps, PreCommit, Catching,
       Finalizing
  <2>3. CASE CallPlatform(w)
    BY <2>3, CallPaid
  <2>4. CASE Claim(w) /\ ~Claimable(t)
    BY <2>4, <1>6 DEF Claim, At
  <2>5. CASE Claim(w) /\ Claimable(t)
    <3>1. /\ pc[w] = "read" /\ UNCHANGED <<target, subs, faultVars>>
          /\ pc' = [pc EXCEPT ![w] = "claimed"] /\ status' = [status EXCEPT ![t] = "PUBLISHING"]
      BY <2>5 DEF Claim, At, Goto
    <3>2. t \notin erased /\ status[t] # "PUBLISHED"
      BY <2>5, UserHalf DEF Claimable, StaleClaim, BasicInv, UserType
    <3>3. \A v \in Workers : t \in Instagram /\ target[v] = t => pc[v] # "commit"
      BY <2>5, <3>2 DEF ClaimsHeld, OwnedRow, Owns, Claimable, StaleClaim, WorkersPlaced,
         Placed, PreCommit
    <3>4. t \in Instagram => Len(subs[t]) <= Faults
      BY <3>2, <3>3 DEF PaidFor
    <3>5. \A u \in Instagram : status[u] = "PUBLISHED" => status'[u] = "PUBLISHED"
      BY <3>1, <3>2 DEF WorldType, Instagram
    <3> QED BY <3>1, <3>4, <3>5, MovePaid DEF RunType
  <2>6. CASE Commit(w)
    <3>1. /\ UNCHANGED <<target, subs, faultVars>> /\ pc[w] = "commit"
          /\ pc' = [pc EXCEPT ![w] = "notify"]
          /\ \A u \in Instagram : status'[u] = IF u = t THEN "PUBLISHED" ELSE status[u]
      BY <2>6, <2>t DEF Commit, At, Goto, WorldType, Instagram
    <3> QED BY <3>1, MovePaid DEF RunType, Unsent, PreCommit, Catching
  <2>7. CASE Release(w)
    <3>1. /\ UNCHANGED <<target, subs, faultVars>> /\ pc[w] = "release"
          /\ \E l \in {"giveup", "bounce"} : pc' = [pc EXCEPT ![w] = l]
          /\ \A u \in Instagram : u # t => status'[u] = status[u]
      BY <2>7, <2>t DEF Release, ReleaseAs, At, WorldType, Instagram
    <3>2. t \notin erased
      BY <1>8, <1>u, <3>1 DEF Bereft, OnItsRow, RunType
    <3>3. t \in Instagram => Len(subs[t]) <= Faults
      BY <3>1, <3>2 DEF PaidFor, Unsent, Catching
    <3> QED BY <3>1, <3>3, MovePaid DEF RunType, Unsent, PreCommit, Catching
  <2>8. CASE ConfirmWrite(w) \/ FailWrite(w)
    <3>1. t \in TikTok /\ pc[w] \in Reconciling
      BY <2>8 DEF ConfirmWrite, FailWrite, At, WorkersPlaced, Placed, Reconciling
    <3>2. /\ UNCHANGED <<target, subs, faultVars>> /\ pc' = [pc EXCEPT ![w] = "notify"]
          /\ \A u \in Instagram : status'[u] = status[u]
      BY <2>8, <3>1 DEF ConfirmWrite, FailWrite, Goto, WorldType, Instagram
    <3> QED BY <3>1, <3>2, MovePaid DEF RunType, Unsent, PreCommit, Catching, Reconciling
  <2>9. CASE Attach(w) \/ FailBare(w)
    BY <2>9 DEF Attach, FailBare, At, NoAttaching, Attaching
  <2> QED BY <1>8, <2>1, <2>2, <2>3, <2>4, <2>5, <2>6, <2>7, <2>8, <2>9 DEF Step
<1> QED BY <1>1, <1>2, <1>3, <1>4, <1>5, <1>7, <1>8 DEF Engine, Undisturbed, Next

LEMMA RequestPaid ==
    ASSUME BasicInv, PaidFor, RequestNext
    PROVE  PaidFor'
<1>t. UNCHANGED <<runVars, subs>>
  BY RequestBasic
<1>1. ASSUME NEW u \in Requests, NEW l, ReplaceTargets(u, l)
      PROVE  /\ erased \subseteq erased'
             /\ \A t \in Instagram : status[t] = "PUBLISHED" =>
                    t \in erased' \/ status'[t] = "PUBLISHED"
  <2>1. PICK D, A : \E N \in NewRows(req[u].post, A) : SwapRows(D, N)
    BY <1>1 DEF ReplaceTargets
  <2>n. PICK N \in NewRows(req[u].post, A) : SwapRows(D, N)
    BY <2>1
  <2>2. \A t \in N : status[t] = "ABSENT"
    BY DEF NewRows
  <2> QED BY <2>n, <2>2 DEF SwapRows, Instagram
<1>2. /\ erased \subseteq erased' /\ UNCHANGED faultVars
      /\ \A t \in Instagram : status[t] = "PUBLISHED" =>
            t \in erased' \/ status'[t] = "PUBLISHED"
  <2> PICK u \in Requests :
        \/ \E p \in Posts :
              ApproveRead(u, p) \/ RejectRead(u, p) \/ RetryRead(u, p) \/ EditRead(u, p)
        \/ SelectTargets(u) \/ Reserve(u) \/ ApproveWrite(u) \/ Hand(u)
        \/ RejectWrite(u) \/ RetryTargets(u) \/ RetryPost(u)
        \/ ReselectTargets(u) \/ EditWrite(u)
    BY DEF RequestNext
  <2>1. CASE \/ \E p \in Posts :
                   ApproveRead(u, p) \/ RejectRead(u, p) \/ RetryRead(u, p) \/ EditRead(u, p)
             \/ Reserve(u) \/ ApproveWrite(u) \/ Hand(u) \/ RejectWrite(u)
             \/ RetryPost(u) \/ EditWrite(u)
    BY <2>1 DEF ApproveRead, RejectRead, RetryRead, EditRead, Open, Reserve, ApproveWrite,
       Hand, RejectWrite, RetryPost, EditWrite, vars, targetVars, rowHistory, faultVars
  <2>2. CASE RetryTargets(u)
    BY <2>2 DEF RetryTargets, rowHistory, Instagram
  <2>3. CASE SelectTargets(u) \/ ReselectTargets(u)
    BY <2>3, <1>1 DEF SelectTargets, ReselectTargets, Select, rowHistory
  <2> QED BY <2>1, <2>2, <2>3
<1>3. Faults' = Faults /\ UNCHANGED <<pc, target, subs>>
      /\ \A w \in Workers : Unsent(w)' => Unsent(w)
  BY <1>t, <1>2 DEF Faults, faultVars, runVars, Unsent
<1> QED BY <1>2, <1>3 DEF PaidFor, Instagram

\* Retries, "publish now" and edits beside the passes do not change what the
\* claim is for: Instagram accepts a row twice only after a fault, and once more
\* per fault.
THEOREM DuplicatesPaidFor == ApprovalSpec => []DuplicatesNeedFaults
<1>1. ApprovalInit => PaidFor
  <2> SUFFICES ASSUME ApprovalInit PROVE PaidFor
    OBVIOUS
  <2>1. Faults = 0 /\ \A t \in Instagram : Len(subs[t]) = 0
    BY DEF ApprovalInit, InitialPosts, Faults, Instagram
  <2> QED BY <2>1 DEF PaidFor
<1>2. BasicInv /\ ClaimsHeld /\ PaidFor /\ [ApprovalNext]_allVars => PaidFor'
  <2>1. ASSUME UNCHANGED allVars PROVE PaidFor' <=> PaidFor
    BY <2>1 DEF allVars, vars, userVars, PaidFor, Faults, Unsent
  <2> QED BY <2>1, EnginePaid, RequestPaid DEF ApprovalNext, Engine
<1>3. PaidFor => DuplicatesNeedFaults
  BY DEF PaidFor, DuplicatesNeedFaults
<1> QED BY <1>1, <1>2, <1>3, BasicInvariant, ClaimsInvariant, PTL DEF ApprovalSpec

-----------------------------------------------------------------------------
(* The attempts of a row.  What bounds them is how often it can still be   *)
(* claimed: by an execution that will give it back, or because it waits.   *)

\* A subset counts no more, a set without one of its elements less, and one
\* with one element more one more at the most.
LEMMA Fewer ==
    ASSUME NEW T, IsFiniteSet(T), NEW S \in SUBSET T
    PROVE  Cardinality(S) <= Cardinality(T)
BY FS_Subset

LEMMA OneFewer ==
    ASSUME NEW T, IsFiniteSet(T), NEW x \in T, NEW S \in SUBSET (T \ {x})
    PROVE  Cardinality(S) <= Cardinality(T) - 1
<1>1. IsFiniteSet(T \ {x}) /\ Cardinality(T \ {x}) = Cardinality(T) - 1
  BY FS_RemoveElement
<1> QED BY <1>1, Fewer

LEMMA OneMore ==
    ASSUME NEW T, IsFiniteSet(T), NEW x, NEW S \in SUBSET (T \cup {x})
    PROVE  Cardinality(S) <= Cardinality(T) + 1
<1>1. IsFiniteSet(T \cup {x}) /\ Cardinality(T \cup {x}) <= Cardinality(T) + 1
         /\ Cardinality(T) \in Nat /\ Cardinality(T \cup {x}) \in Nat
  BY FS_AddElement, FS_CardinalityType
<1>2. IsFiniteSet(S) /\ Cardinality(S) \in Nat
  BY <1>1, FS_Subset, FS_CardinalityType
<1>3. Cardinality(S) <= Cardinality(T \cup {x})
  BY <1>1, Fewer
<1> QED BY <1>1, <1>2, <1>3

\* An execution between its claim and the end of its try and catch blocks.
Early == PreCommit \cup Catching

\* The executions that have read fewer attempts than the limit and are about to
\* give the row back, and with them those that may yet read so.
Keen(t)   == {w \in Workers : /\ target[w] = t
                              /\ pc[w] = "release" /\ count[w] < MaxAttempts}
Givers(t) == {w \in Workers : /\ target[w] = t
                              /\ \/ Owns(w) /\ pc[w] # "release"
                                 \/ pc[w] = "release" /\ count[w] < MaxAttempts}

\* The row can be claimed, now or when time has passed, whatever the executions
\* do: it waits, it may be created, or its claim has lost its execution.
Vacant(t) ==
    \/ status[t] = "PENDING"
    \/ status[t] = "ABSENT" /\ t \notin erased
    \/ /\ status[t] = "PUBLISHING"
       /\ \/ claimedAt[t] = "stale"
          \/ /\ claimedAt[t] = "fresh"
             /\ \A w \in Workers : target[w] = t => pc[w] \notin Early

Vacancy(t) == IF Vacant(t) THEN 1 ELSE 0

\* Crashes and retries grant claims.  Below the limit any of them may be used
\* for an attempt; at the limit only those of executions that read less.
Granted == crashes + retries

RowPaid(t) ==
    /\ Cardinality(Givers(t)) + Vacancy(t) <= 1 + Granted
    /\ attempts[t] >= MaxAttempts =>
          attempts[t] + Cardinality(Keen(t)) + Vacancy(t) <= MaxAttempts + Granted

AttemptsPaid == \A t \in Targets : RowPaid(t)

LEMMA RowCounts ==
    ASSUME NEW t \in Targets
    PROVE  /\ IsFiniteSet(Givers(t)) /\ Cardinality(Givers(t)) \in Nat
           /\ IsFiniteSet(Keen(t)) /\ Cardinality(Keen(t)) \in Nat
           /\ Cardinality(Keen(t)) <= Cardinality(Givers(t))
           /\ Vacancy(t) \in 0..1
<1>1. Givers(t) \subseteq Workers /\ Keen(t) \subseteq Givers(t)
  BY DEF Givers, Keen
<1>2. IsFiniteSet(Givers(t)) /\ IsFiniteSet(Keen(t))
  BY <1>1, ApprovalAssumption, FS_Subset
<1> QED BY <1>1, <1>2, Fewer, FS_CardinalityType DEF Vacancy

LEMMA RowCountsNext ==
    ASSUME NEW t \in Targets
    PROVE  /\ IsFiniteSet(Givers(t)') /\ Cardinality(Givers(t)') \in Nat
           /\ IsFiniteSet(Keen(t)') /\ Cardinality(Keen(t)') \in Nat
           /\ Vacancy(t)' \in 0..1
<1>1. Givers(t)' \subseteq Workers /\ Keen(t)' \subseteq Givers(t)'
  BY DEF Givers, Keen
<1>2. IsFiniteSet(Givers(t)') /\ IsFiniteSet(Keen(t)')
  BY <1>1, ApprovalAssumption, FS_Subset
<1> QED BY <1>1, <1>2, FS_CardinalityType DEF Vacancy

\* The counters are numbers.
LEMMA PaidNumbers ==
    ASSUME BasicInv
    PROVE  /\ Granted \in Nat /\ MaxAttempts \in Nat \ {0}
           /\ \A t \in Targets : attempts[t] \in Nat
BY UserHalf, LimitsAssumption DEF BasicInv, WorldType, UserType, Granted

\* Nobody becomes able to claim the row who was not.
LEMMA RowKept ==
    ASSUME BasicInv, NEW t \in Targets, RowPaid(t), Granted' = Granted,
           Givers(t)' \subseteq Givers(t), Vacant(t)' => Vacant(t),
           attempts'[t] = attempts[t],
           Keen(t)' \subseteq Keen(t) \/ attempts[t] < MaxAttempts
    PROVE  RowPaid(t)'
<1>1. Cardinality(Givers(t)') <= Cardinality(Givers(t)) /\ Vacancy(t)' <= Vacancy(t)
  BY RowCounts, Fewer DEF Vacancy
<1>2. Keen(t)' \subseteq Keen(t) => Cardinality(Keen(t)') <= Cardinality(Keen(t))
  BY RowCounts, Fewer
<1>3. Cardinality(Givers(t)') + Vacancy(t)' <= 1 + Granted'
  BY <1>1, RowCounts, RowCountsNext, PaidNumbers DEF RowPaid
<1>4. attempts'[t] >= MaxAttempts =>
         attempts'[t] + Cardinality(Keen(t)') + Vacancy(t)' <= MaxAttempts + Granted'
  BY <1>1, <1>2, RowCounts, RowCountsNext, PaidNumbers DEF RowPaid
<1> QED BY <1>3, <1>4 DEF RowPaid

\* A crash or a retry grants a claim.
LEMMA RowGranted ==
    ASSUME BasicInv, NEW t \in Targets, RowPaid(t), Granted' = Granted + 1,
           Givers(t)' \subseteq Givers(t), Keen(t)' \subseteq Keen(t),
           attempts'[t] = attempts[t]
    PROVE  RowPaid(t)'
<1>1. /\ Cardinality(Givers(t)') <= Cardinality(Givers(t))
      /\ Cardinality(Keen(t)') <= Cardinality(Keen(t))
  BY RowCounts, Fewer
<1>2. Cardinality(Givers(t)') + Vacancy(t)' <= 1 + Granted'
  BY <1>1, RowCounts, RowCountsNext, PaidNumbers DEF RowPaid
<1>3. attempts'[t] >= MaxAttempts =>
         attempts'[t] + Cardinality(Keen(t)') + Vacancy(t)' <= MaxAttempts + Granted'
  BY <1>1, RowCounts, RowCountsNext, PaidNumbers DEF RowPaid
<1> QED BY <1>2, <1>3 DEF RowPaid

\* An execution gives the row back, and can do so no more.
LEMMA RowReleased ==
    ASSUME BasicInv, NEW t \in Targets, RowPaid(t), Granted' = Granted,
           NEW w \in Keen(t), Givers(t)' \subseteq Givers(t) \ {w},
           Keen(t)' \subseteq Keen(t) \ {w}, attempts'[t] = attempts[t]
    PROVE  RowPaid(t)'
<1>1. w \in Givers(t)
  BY DEF Keen, Givers
<1>2. /\ Cardinality(Givers(t)') <= Cardinality(Givers(t)) - 1
      /\ Cardinality(Keen(t)') <= Cardinality(Keen(t)) - 1
  BY <1>1, RowCounts, OneFewer
<1>3. Cardinality(Givers(t)') + Vacancy(t)' <= 1 + Granted'
  <2> Vacancy(t) >= 0 BY RowCounts
  <2> QED BY <1>2, RowCounts, RowCountsNext, PaidNumbers DEF RowPaid
<1>4. attempts'[t] >= MaxAttempts =>
         attempts'[t] + Cardinality(Keen(t)') + Vacancy(t)' <= MaxAttempts + Granted'
  BY <1>2, RowCounts, RowCountsNext, PaidNumbers DEF RowPaid
<1> QED BY <1>3, <1>4 DEF RowPaid

\* An execution claims the row, which counts an attempt.
LEMMA RowClaimed ==
    ASSUME BasicInv, NEW t \in Targets, RowPaid(t), Granted' = Granted,
           NEW w, Givers(t)' \subseteq Givers(t) \cup {w}, Keen(t)' \subseteq Keen(t),
           Vacant(t), ~Vacant(t)', attempts'[t] = attempts[t] + 1
    PROVE  RowPaid(t)'
<1>1. /\ Cardinality(Givers(t)') <= Cardinality(Givers(t)) + 1
      /\ Cardinality(Keen(t)') <= Cardinality(Keen(t))
      /\ Vacancy(t) = 1 /\ Vacancy(t)' = 0
  BY RowCounts, OneMore, Fewer DEF Vacancy
<1>2. Cardinality(Givers(t)') + Vacancy(t)' <= 1 + Granted'
  BY <1>1, RowCounts, RowCountsNext, PaidNumbers DEF RowPaid
<1>3. attempts'[t] >= MaxAttempts =>
         attempts'[t] + Cardinality(Keen(t)') + Vacancy(t)' <= MaxAttempts + Granted'
  BY <1>1, RowCounts, RowCountsNext, PaidNumbers DEF RowPaid
<1> QED BY <1>2, <1>3 DEF RowPaid

-----------------------------------------------------------------------------
(* Every step keeps the attempts paid for.                                 *)

\* The other executions stand still.
Others(w) ==
    \A v \in Workers \ {w} : /\ pc'[v] = pc[v] /\ target'[v] = target[v]
                             /\ path'[v] = path[v] /\ count'[v] = count[v]

\* w goes on, has not read the attempts, and leaves no claim behind.
Onward(w) ==
    /\ Others(w)
    /\ pc'[w] # "release"
    /\ Owns(w)' => Owns(w) /\ pc[w] # "release" /\ target'[w] = target[w]
    /\ pc[w] \in Early =>
          target[w] \in erased \/ (pc'[w] \in Early /\ target'[w] = target[w])

LEMMA GotoOnward ==
    ASSUME RunType, WorkersPlaced, NEW w \in Workers, NEW l, Goto(w, l),
           Follows(pc[w], l), pc[w] \notin Catching, l # "release", pc[w] # "commit" \/ l = "catch"
    PROVE  Onward(w)
BY DEF RunType, WorkersPlaced, Placed, Goto, Onward, Others, Follows, Owns, Early, Steps,
   PreCommit, Catching, Released, Finalizing, Reconciling, Attaching

LEMMA ExitOnward ==
    ASSUME RunType, NEW w \in Workers, Exit(w), pc[w] \in Early => target[w] \in erased
    PROVE  Onward(w)
BY DEF RunType, Exit, Begin, Onward, Others, Owns

\* What w and the others may give back, if w does not read the attempts.
LEMMA GiversKept ==
    ASSUME NEW w \in Workers, NEW t \in Targets, Others(w), pc'[w] # "release",
           Owns(w)' => Owns(w) /\ pc[w] # "release" /\ target'[w] = target[w]
    PROVE  Givers(t)' \subseteq Givers(t) /\ Keen(t)' \subseteq Keen(t)
<1>1. \A v \in Workers \ {w} : v \in Givers(t)' => v \in Givers(t)
  BY DEF Others, Givers, Owns
<1>2. \A v \in Workers \ {w} : v \in Keen(t)' => v \in Keen(t)
  BY DEF Others, Keen
<1>3. w \notin Keen(t)' /\ (w \in Givers(t)' => w \in Givers(t))
  BY DEF Keen, Givers
<1>4. Givers(t)' \subseteq Workers /\ Keen(t)' \subseteq Workers
  BY DEF Givers, Keen
<1> QED BY <1>1, <1>2, <1>3, <1>4

\* A row that w does not work on, and that does not change.
LEMMA VacantElsewhere ==
    ASSUME NEW w \in Workers, NEW t \in Targets, Others(w), target[w] # t,
           status'[t] = status[t], claimedAt'[t] = claimedAt[t], erased \subseteq erased'
    PROVE  Vacant(t)' => Vacant(t)
<1>1. \A v \in Workers : target[v] = t => target'[v] = t /\ pc'[v] = pc[v]
  BY DEF Others
<1> QED BY <1>1 DEF Vacant

LEMMA OnwardPaid ==
    ASSUME BasicInv, AttemptsPaid, NEW w \in Workers, Onward(w), Granted' = Granted,
           UNCHANGED <<status, claimedAt, attempts, erased>>
    PROVE  AttemptsPaid'
<1> SUFFICES ASSUME NEW t \in Targets PROVE RowPaid(t)'
  BY DEF AttemptsPaid
<1>1. Givers(t)' \subseteq Givers(t) /\ Keen(t)' \subseteq Keen(t)
  BY GiversKept DEF Onward
<1>2. Vacant(t)' => Vacant(t)
  <2>1. CASE target[w] # t
    BY <2>1, VacantElsewhere DEF Onward
  <2>2. CASE target[w] = t /\ t \in erased
    BY <2>2, UserHalf DEF Vacant, BasicInv, UserType
  <2>3. CASE target[w] = t /\ t \notin erased
    <3>1. \A v \in Workers : target[v] = t /\ pc[v] \in Early =>
                target'[v] = t /\ pc'[v] \in Early
      BY <2>3 DEF Onward, Others
    <3> QED BY <3>1 DEF Vacant
  <2> QED BY <2>1, <2>2, <2>3
<1> QED BY <1>1, <1>2, RowKept DEF AttemptsPaid

\* w writes an outcome to its row, after which nobody can claim it.
LEMMA OutcomePaid ==
    ASSUME BasicInv, AttemptsPaid, NEW w \in Workers, Others(w), Granted' = Granted,
           pc'[w] # "release", Owns(w)' => Owns(w) /\ pc[w] # "release", target' = target,
           UNCHANGED <<attempts, erased>>, ~Vacant(target[w])',
           \A t \in Targets \ {target[w]} :
              status'[t] = status[t] /\ claimedAt'[t] = claimedAt[t]
    PROVE  AttemptsPaid'
<1> SUFFICES ASSUME NEW t \in Targets PROVE RowPaid(t)'
  BY DEF AttemptsPaid
<1>1. Givers(t)' \subseteq Givers(t) /\ Keen(t)' \subseteq Keen(t)
  BY GiversKept
<1>2. Vacant(t)' => Vacant(t)
  <2>1. CASE target[w] # t
    BY <2>1, VacantElsewhere
  <2>2. CASE target[w] = t
    BY <2>2
  <2> QED BY <2>1, <2>2
<1> QED BY <1>1, <1>2, RowKept DEF AttemptsPaid

\* The executions stand still, and rows become no more vacant.
LEMMA StillPaid ==
    ASSUME BasicInv, AttemptsPaid, UNCHANGED <<pc, target, path, count, attempts>>,
           Granted' = Granted, \A t \in Targets : Vacant(t)' => Vacant(t)
    PROVE  AttemptsPaid'
<1> SUFFICES ASSUME NEW t \in Targets PROVE RowPaid(t)'
  BY DEF AttemptsPaid
<1>1. Givers(t)' = Givers(t) /\ Keen(t)' = Keen(t)
  BY DEF Givers, Keen, Owns
<1> QED BY <1>1, RowKept DEF AttemptsPaid

LEMMA CrashPaid ==
    ASSUME BasicInv, AttemptsPaid, NEW w \in Workers, Crash(w), UNCHANGED userVars
    PROVE  AttemptsPaid'
<1> SUFFICES ASSUME NEW t \in Targets PROVE RowPaid(t)'
  BY DEF AttemptsPaid
<1>1. Others(w) /\ pc'[w] = "idle" /\ ~Owns(w)'
  BY UserHalf DEF BasicInv, RunType, Crash, Exit, Begin, Others, Owns
<1>2. Givers(t)' \subseteq Givers(t) /\ Keen(t)' \subseteq Keen(t)
  BY <1>1, GiversKept
<1>3. Granted' = Granted + 1
  <2>1. crashes \in Nat /\ retries \in Nat
    BY UserHalf DEF BasicInv, WorldType, UserType
  <2>2. crashes' = crashes + 1 /\ retries' = retries
    BY DEF Crash, userVars
  <2> QED BY <2>1, <2>2 DEF Granted
<1> QED BY <1>2, <1>3, RowGranted DEF AttemptsPaid, Crash, targetVars

LEMMA ClaimPaid ==
    ASSUME BasicInv, AttemptsPaid, NEW w \in Workers, Claim(w), Claimable(target[w]),
           UNCHANGED userVars
    PROVE  AttemptsPaid'
<1> DEFINE x == target[w]
<1>t. RunType /\ WorldType /\ WorkersPlaced /\ x \in Targets
  BY UserHalf, TargetsAssumption DEF BasicInv, Claim, At, RunType, WorkersPlaced, Placed
<1>1. /\ Others(w) /\ pc[w] = "read" /\ pc'[w] = "claimed" /\ target' = target
      /\ path' = path /\ count' = count
  BY <1>t DEF Claim, At, Goto, RunType, Others
<1>2. /\ status'[x] = "PUBLISHING" /\ claimedAt'[x] = "fresh" /\ attempts'[x] = attempts[x] + 1
      /\ \A t \in Targets \ {x} : /\ status'[t] = status[t] /\ claimedAt'[t] = claimedAt[t]
                                  /\ attempts'[t] = attempts[t]
  BY <1>t DEF Claim, WorldType
<1>3. Granted' = Granted /\ erased' = erased
  BY DEF Claim, userVars, faultVars, Granted
<1> SUFFICES ASSUME NEW t \in Targets PROVE RowPaid(t)'
  BY DEF AttemptsPaid
<1>4. \A v \in Workers \ {w} : v \in Givers(t)' => v \in Givers(t)
  BY <1>1 DEF Others, Givers, Owns
<1>5. \A v \in Workers : v \in Keen(t)' => v \in Keen(t)
  BY <1>1 DEF Others, Keen
<1>6. Keen(t)' \subseteq Keen(t) /\ Givers(t)' \subseteq Givers(t) \cup {w}
  BY <1>4, <1>5 DEF Keen, Givers
<1>7. CASE t = x
  <2>1. Vacant(t)
    BY <1>7 DEF Claimable, StaleClaim, Vacant
  <2>2. ~Vacant(t)'
    BY <1>1, <1>2, <1>7 DEF Vacant, Early, PreCommit
  <2> QED BY <1>2, <1>3, <1>6, <1>7, <2>1, <2>2, RowClaimed DEF AttemptsPaid
<1>8. CASE t # x
  <2>1. w \notin Givers(t)'
    BY <1>1, <1>8 DEF Givers
  <2>2. Vacant(t)' => Vacant(t)
    BY <1>1, <1>2, <1>3, <1>8, VacantElsewhere
  <2> QED BY <1>2, <1>3, <1>6, <1>8, <2>1, <2>2, RowKept DEF AttemptsPaid
<1> QED BY <1>7, <1>8

LEMMA ReadAttemptsPaid ==
    ASSUME BasicInv, AttemptsPaid, NEW w \in Workers, ReadAttempts(w), UNCHANGED userVars
    PROVE  AttemptsPaid'
<1>t. RunType /\ WorldType /\ WorkersPlaced
  BY UserHalf DEF BasicInv
<1>1. /\ Others(w) /\ pc[w] = "catch" /\ pc'[w] = "release" /\ target' = target
      /\ Owns(w) /\ count'[w] = attempts[target[w]]
  BY <1>t DEF ReadAttempts, At, RunType, Others, Owns, WorkersPlaced, Placed, Catching
<1>2. /\ Granted' = Granted
      /\ UNCHANGED <<status, claimedAt, attempts, erased>>
  BY DEF ReadAttempts, worldVars, targetVars, faultVars, userVars, Granted
<1> SUFFICES ASSUME NEW t \in Targets PROVE RowPaid(t)'
  BY DEF AttemptsPaid
<1>3. \A v \in Workers \ {w} : v \in Givers(t)' => v \in Givers(t)
  BY <1>1 DEF Others, Givers, Owns
<1>4. w \in Givers(t)' => w \in Givers(t)
  BY <1>1 DEF Givers
<1>5. Givers(t)' \subseteq Givers(t)
  BY <1>3, <1>4 DEF Givers
<1>6. \A v \in Workers \ {w} : v \in Keen(t)' => v \in Keen(t)
  BY <1>1 DEF Others, Keen
<1>7. w \in Keen(t)' => attempts[t] < MaxAttempts
  BY <1>1 DEF Keen
<1>8. Keen(t)' \subseteq Keen(t) \/ attempts[t] < MaxAttempts
  BY <1>6, <1>7 DEF Keen
<1>9. Vacant(t)' => Vacant(t)
  <2>1. \A v \in Workers : target[v] = t /\ pc[v] \in Early =>
              target'[v] = t /\ pc'[v] \in Early
    BY <1>1 DEF Others, Early, Catching
  <2> QED BY <1>2, <2>1 DEF Vacant
<1> QED BY <1>2, <1>5, <1>8, <1>9, RowKept DEF AttemptsPaid

LEMMA ReleasePaid ==
    ASSUME BasicInv, AttemptsPaid, NEW w \in Workers, Release(w), UNCHANGED userVars
    PROVE  AttemptsPaid'
<1> DEFINE x == target[w]
<1>t. RunType /\ WorldType /\ WorkersPlaced /\ x \in Targets
  BY UserHalf, TargetsAssumption
     DEF BasicInv, Release, ReleaseAs, At, RunType, WorkersPlaced, Placed
<1>1. /\ Others(w) /\ pc[w] = "release" /\ pc'[w] # "release" /\ target' = target
      /\ ~Owns(w)' /\ count' = count
  BY <1>t DEF Release, ReleaseAs, At, RunType, Others, Owns
<1>2. /\ status'[x] = IF count[w] >= MaxAttempts THEN "FAILED" ELSE "PENDING"
      /\ \A t \in Targets \ {x} : status'[t] = status[t] /\ claimedAt'[t] = claimedAt[t]
  BY <1>t DEF Release, ReleaseAs, WorldType
<1>3. Granted' = Granted /\ UNCHANGED <<erased, attempts>>
  BY DEF Release, ReleaseAs, userVars, faultVars, Granted
<1>4. CASE count[w] >= MaxAttempts
  <2>1. status'[x] = "FAILED" /\ target' = target
    BY <1>1, <1>2, <1>4
  <2>2. ~Vacant(x)'
    BY <2>1 DEF Vacant
  <2> QED BY <1>1, <1>2, <1>3, <2>2, OutcomePaid
<1>5. CASE ~(count[w] >= MaxAttempts)
  <2>1. count[w] < MaxAttempts
    BY <1>t, <1>5, LimitsAssumption DEF RunType
  <2> SUFFICES ASSUME NEW t \in Targets PROVE RowPaid(t)'
    BY DEF AttemptsPaid
  <2>2. /\ Givers(t)' \subseteq Givers(t) /\ Keen(t)' \subseteq Keen(t)
        /\ w \notin Givers(t)' /\ w \notin Keen(t)'
    BY <1>1, GiversKept DEF Givers, Keen
  <2>3. CASE t = x
    <3>1. w \in Keen(t)
      BY <1>1, <2>1, <2>3 DEF Keen
    <3>2. Givers(t)' \subseteq Givers(t) \ {w} /\ Keen(t)' \subseteq Keen(t) \ {w}
      BY <2>2
    <3> QED BY <1>3, <3>1, <3>2, RowReleased DEF AttemptsPaid
  <2>4. CASE t # x
    <3>1. Vacant(t)' => Vacant(t)
      BY <1>1, <1>2, <1>3, <2>4, VacantElsewhere
    <3> QED BY <1>3, <2>2, <3>1, RowKept DEF AttemptsPaid
  <2> QED BY <2>3, <2>4
<1> QED BY <1>4, <1>5

LEMMA EngineAttempts ==
    ASSUME BasicInv, AttemptsPaid, Engine
    PROVE  AttemptsPaid'
<1>t. /\ RunType /\ WorldType /\ WorkersPlaced /\ NoAttaching /\ PostsHaveRows
      /\ \A t \in erased : t \in Targets /\ status[t] = "ABSENT"
      /\ UNCHANGED userVars
  BY UserHalf DEF BasicInv, UserType, Engine
<1>u. UNCHANGED <<erased, retries>>
  BY <1>t DEF userVars
<1> USE <1>t, <1>u
<1>1. ASSUME NEW p \in Posts, BecomeDue(p) \/ AgePost(p) PROVE AttemptsPaid'
  <2>1. UNCHANGED <<pc, target, path, count, status, claimedAt, attempts, crashes>>
    BY <1>1 DEF BecomeDue, AgePost, runVars, targetVars, faultVars
  <2> QED BY <2>1, StillPaid DEF Vacant, Granted
<1>2. ASSUME NEW t \in Targets, ExpireClaim(t) PROVE AttemptsPaid'
  <2>1. UNCHANGED <<pc, target, path, count, status, attempts, crashes>>
    BY <1>2 DEF ExpireClaim, runVars, faultVars
  <2>2. /\ \A x \in Targets \ {t} : claimedAt'[x] = claimedAt[x]
        /\ claimedAt[t] = "fresh"
        /\ \A w \in Workers : target[w] = t => pc[w] \notin Early
    BY <1>2 DEF ExpireClaim, Owns, WorkersPlaced, Placed, Early
  <2>3. \A x \in Targets : Vacant(x)' => Vacant(x)
    BY <2>1, <2>2 DEF Vacant
  <2> QED BY <2>1, <2>3, StillPaid DEF Granted
<1>3. ASSUME NEW t \in Targets, SettleJob(t) PROVE AttemptsPaid'
  <2>1. UNCHANGED <<pc, target, path, count, status, claimedAt, attempts, crashes>>
    BY <1>3 DEF SettleJob, runVars, targetVars, faultVars
  <2> QED BY <2>1, StillPaid DEF Vacant, Granted
<1>4. ASSUME Sweep \/ DropHanded PROVE AttemptsPaid'
  <2>1. UNCHANGED <<pc, target, path, count, status, claimedAt, attempts, crashes>>
    BY <1>4 DEF Sweep, DropHanded, runVars, targetVars, faultVars
  <2> QED BY <2>1, StillPaid DEF Vacant, Granted
<1>5. ASSUME NEW w \in Workers, FindBare(w) PROVE FALSE
  BY <1>5, TargetsAssumption DEF FindBare, PostsHaveRows, Rows
<1>6. ASSUME NEW w \in Workers, NEW t \in Targets, Read(w, t) \/ Track(w, t)
      PROVE  AttemptsPaid'
  <2>1. Onward(w)
    BY <1>6 DEF Read, Track, Begin, At, RunType, Onward, Others, Owns, Early, PreCommit,
       Catching, Finalizing
  <2>2. UNCHANGED <<status, claimedAt, attempts, crashes>>
    BY <1>6 DEF Read, Track, worldVars, targetVars, faultVars
  <2> QED BY <2>1, <2>2, OnwardPaid DEF Granted
<1>7. ASSUME NEW w \in Workers, DbFailure(w) \/ MissRow(w) PROVE AttemptsPaid'
  <2>1. Onward(w)
    <3>1. CASE Exit(w) /\ target[w] \in erased
      BY <3>1, ExitOnward
    <3>2. CASE Goto(w, "catch") /\ pc[w] \in {"commit"} \cup Finalizing
      BY <3>2, GotoOnward DEF Follows, Steps, PreCommit, Catching, Finalizing
    <3> QED BY <1>7, <3>1, <3>2 DEF DbFailure, MissRow, Bereft, At
  <2>2. UNCHANGED <<status, claimedAt, attempts, crashes>>
    BY <1>7 DEF DbFailure, MissRow, worldVars, targetVars, faultVars
  <2> QED BY <2>1, <2>2, OnwardPaid DEF Granted
<1>8. ASSUME NEW w \in Workers, Crash(w) PROVE AttemptsPaid'
  BY <1>8, CrashPaid
<1>9. ASSUME NEW w \in Workers, Attach(w) \/ FailBare(w) PROVE FALSE
  BY <1>9 DEF Attach, FailBare, At, NoAttaching, Attaching
<1>10. ASSUME NEW w \in Workers, Step(w) PROVE AttemptsPaid'
  <2> DEFINE t == target[w]
  <2>1. CASE \/ MarkPost(w) \/ Preflight(w) \/ RefreshAndRetry(w) \/ Notify(w)
             \/ GiveUp(w) \/ CountPublished(w) \/ Revert(w) \/ CountRemaining(w)
             \/ Settle(w) \/ CountFailed(w) \/ Purge(w)
             \/ Poll(w) \/ ConfirmRead(w) \/ FailRead(w)
    <3>1. Onward(w)
      BY <2>1, GotoOnward, ExitOnward
         DEF MarkPost, Preflight, RefreshAndRetry, Notify, GiveUp, CountPublished, Revert,
         CountRemaining, Settle, CountFailed, Purge, Poll, ConfirmRead, FailRead, At,
         Follows, Early, Steps, PreCommit, Catching, Released, Finalizing, Reconciling
    <3>2. UNCHANGED <<status, claimedAt, attempts, crashes>>
      BY <2>1 DEF MarkPost, Preflight, RefreshAndRetry, Notify, GiveUp, CountPublished,
         Revert, CountRemaining, Settle, CountFailed, Purge, Poll, ConfirmRead, FailRead,
         worldVars, targetVars, faultVars
    <3> QED BY <3>1, <3>2, OnwardPaid DEF Granted
  <2>2. CASE Tally(w) \/ CallPlatform(w)
    <3>1. Onward(w)
      BY <2>2 DEF Tally, CallPlatform, Submit, Goto, At, RunType, WorkersPlaced, Placed,
         Onward, Others, Owns, Early, PreCommit, Catching, Finalizing
    <3>2. UNCHANGED <<status, claimedAt, attempts, crashes>>
      BY <2>2 DEF Tally, CallPlatform, worldVars, targetVars, faultVars
    <3> QED BY <3>1, <3>2, OnwardPaid DEF Granted
  <2>3. CASE Claim(w)
    <3>1. CASE Claimable(t)
      BY <2>3, <3>1, ClaimPaid
    <3>2. CASE ~Claimable(t)
      <4>1. Onward(w)
        BY <2>3, <3>2, ExitOnward DEF Claim, At, Early, PreCommit, Catching
      <4>2. UNCHANGED <<status, claimedAt, attempts, crashes>>
        BY <2>3, <3>2 DEF Claim, faultVars
      <4> QED BY <4>1, <4>2, OnwardPaid DEF Granted
    <3> QED BY <3>1, <3>2
  <2>4. CASE Commit(w) \/ ConfirmWrite(w) \/ FailWrite(w)
    <3>t. t \in Targets
      BY <2>4, TargetsAssumption DEF Commit, ConfirmWrite, FailWrite, At, RunType,
         WorkersPlaced, Placed
    <3>1. /\ Others(w) /\ target' = target /\ pc'[w] = "notify"
          /\ Owns(w)' => Owns(w) /\ pc[w] # "release"
      BY <2>4 DEF Commit, ConfirmWrite, FailWrite, Goto, At, RunType, WorkersPlaced, Placed,
         Others, Owns, PreCommit, Reconciling
    <3>2. /\ claimedAt'[t] = "none" /\ status'[t] \in {"PUBLISHING", "PUBLISHED", "FAILED"}
          /\ \A x \in Targets \ {t} : status'[x] = status[x] /\ claimedAt'[x] = claimedAt[x]
      BY <2>4, <3>t DEF Commit, ConfirmWrite, FailWrite, WorldType
    <3>3. ~Vacant(t)'
      BY <3>1, <3>2 DEF Vacant
    <3>4. UNCHANGED <<attempts, crashes>>
      BY <2>4 DEF Commit, ConfirmWrite, FailWrite, faultVars
    <3> QED BY <3>1, <3>2, <3>3, <3>4, OutcomePaid DEF Granted
  <2>5. CASE ReadAttempts(w) \/ Release(w)
    BY <2>5, ReadAttemptsPaid, ReleasePaid
  <2> QED BY <1>9, <1>10, <2>1, <2>2, <2>3, <2>4, <2>5 DEF Step
<1> QED BY <1>1, <1>2, <1>3, <1>4, <1>5, <1>6, <1>7, <1>8, <1>10 DEF Engine, Undisturbed, Next

\* A retry grants a claim to the rows of its post; what the other requests do
\* makes no row claimable that was not.
LEMMA RequestAttempts ==
    ASSUME BasicInv, AttemptsPaid, RequestNext
    PROVE  AttemptsPaid'
<1>t. /\ UNCHANGED <<pc, target, path, count>>
      /\ \A t \in erased : t \in Targets /\ status[t] = "ABSENT"
  BY UserHalf, RequestBasic DEF BasicInv, UserType, runVars
<1>1. ASSUME NEW u \in Requests, NEW l, ReplaceTargets(u, l), UNCHANGED claimedAt,
             NEW t \in Targets, Vacant(t)'
      PROVE  Vacant(t)
  <2>1. PICK keep \in (SUBSET Accounts) \ {{}} :
           \E N \in NewRows(req[u].post, keep \ {AccountOf[x] : x \in Rows(req[u].post)}) :
              SwapRows({x \in Rows(req[u].post) : AccountOf[x] \notin keep}, N)
    BY <1>1 DEF ReplaceTargets
  <2> DEFINE D == {x \in Rows(req[u].post) : AccountOf[x] \notin keep}
  <2>2. PICK N : /\ SwapRows(D, N)
                 /\ \A x \in N : x \notin erased /\ status[x] = "ABSENT"
    BY <2>1 DEF NewRows
  <2>3. /\ status'[t] = IF t \in D THEN "ABSENT" ELSE IF t \in N THEN "PENDING" ELSE status[t]
        /\ erased' = erased \cup D
    BY <2>2 DEF SwapRows
  <2>4. t \notin D
    BY <1>1, <2>3 DEF Vacant
  <2>5. CASE t \in N
    BY <2>2, <2>5 DEF Vacant
  <2>6. CASE t \notin N
    BY <1>1, <1>t, <2>3, <2>4, <2>6 DEF Vacant
  <2> QED BY <2>5, <2>6
<1>2. \/ /\ Granted' = Granted /\ UNCHANGED attempts
         /\ \A t \in Targets : Vacant(t)' => Vacant(t)
      \/ Granted' = Granted + 1 /\ UNCHANGED attempts
  <2> PICK u \in Requests :
        \/ \E p \in Posts :
              ApproveRead(u, p) \/ RejectRead(u, p) \/ RetryRead(u, p) \/ EditRead(u, p)
        \/ SelectTargets(u) \/ Reserve(u) \/ ApproveWrite(u) \/ Hand(u)
        \/ RejectWrite(u) \/ RetryTargets(u) \/ RetryPost(u)
        \/ ReselectTargets(u) \/ EditWrite(u)
    BY DEF RequestNext
  <2>1. CASE \/ \E p \in Posts :
                   ApproveRead(u, p) \/ RejectRead(u, p) \/ RetryRead(u, p) \/ EditRead(u, p)
             \/ Reserve(u) \/ ApproveWrite(u) \/ Hand(u) \/ RejectWrite(u)
             \/ RetryPost(u) \/ EditWrite(u)
    <3>1. UNCHANGED <<status, claimedAt, attempts, crashes, retries, erased>>
      BY <2>1 DEF ApproveRead, RejectRead, RetryRead, EditRead, Open, Reserve, ApproveWrite,
         Hand, RejectWrite, RetryPost, EditWrite, vars, targetVars, rowHistory, faultVars
    <3> QED BY <1>t, <3>1 DEF Vacant, Granted
  <2>2. CASE RetryTargets(u)
    <3>1. UNCHANGED <<claimedAt, attempts, crashes, erased>>
      BY <2>2 DEF RetryTargets, faultVars, rowHistory
    <3>2. CASE retries' = retries + 1
      <4>1. crashes \in Nat /\ retries \in Nat
        BY UserHalf DEF BasicInv, WorldType, UserType
      <4> QED BY <3>1, <3>2, <4>1 DEF Granted
    <3>3. CASE UNCHANGED <<status, retries>>
      BY <1>t, <3>1, <3>3 DEF Vacant, Granted
    <3> QED BY <2>2, <3>2, <3>3 DEF RetryTargets
  <2>3. CASE SelectTargets(u) \/ ReselectTargets(u)
    <3>1. UNCHANGED <<claimedAt, attempts, crashes, retries>>
      BY <2>3 DEF SelectTargets, ReselectTargets, Select, faultVars
    <3>2. CASE \E l : ReplaceTargets(u, l)
      BY <1>1, <3>1, <3>2 DEF Granted
    <3>3. CASE UNCHANGED <<status, erased>>
      BY <1>t, <3>1, <3>3 DEF Vacant, Granted
    <3> QED BY <2>3, <3>2, <3>3 DEF SelectTargets, ReselectTargets, Select, rowHistory
  <2> QED BY <2>1, <2>2, <2>3
<1>3. CASE /\ Granted' = Granted /\ UNCHANGED attempts
           /\ \A t \in Targets : Vacant(t)' => Vacant(t)
  BY <1>t, <1>3, StillPaid
<1>4. CASE Granted' = Granted + 1 /\ UNCHANGED attempts
  <2> SUFFICES ASSUME NEW t \in Targets PROVE RowPaid(t)'
    BY DEF AttemptsPaid
  <2>1. Givers(t)' = Givers(t) /\ Keen(t)' = Keen(t)
    BY <1>t DEF Givers, Keen, Owns
  <2> QED BY <1>4, <2>1, RowGranted DEF AttemptsPaid
<1> QED BY <1>2, <1>3, <1>4

LEMMA InitAttempts == ApprovalInit => AttemptsPaid
<1> SUFFICES ASSUME ApprovalInit, NEW t \in Targets PROVE RowPaid(t)
  BY DEF AttemptsPaid
<1>1. Givers(t) = {} /\ attempts[t] = 0 /\ Granted = 0
  BY DEF ApprovalInit, InitialPosts, Givers, Owns, PreCommit, Catching, Finalizing, Granted
<1>2. Cardinality(Givers(t)) = 0
  BY <1>1, FS_EmptySet
<1> QED BY <1>1, <1>2, RowCounts, LimitsAssumption DEF RowPaid

\* retryPost leaves attemptCount as it is: each retry, like each crash, buys one
\* attempt beyond MAX_PUBLISH_ATTEMPTS, however the requests, the passes and
\* the reconciliations of a row overlap.
THEOREM RetriesBuyOneAttempt == ApprovalSpec => []AttemptsBoundedWithRetries
<1>1. BasicInv /\ AttemptsPaid /\ [ApprovalNext]_allVars => AttemptsPaid'
  <2>1. ASSUME UNCHANGED allVars PROVE AttemptsPaid' <=> AttemptsPaid
    BY <2>1 DEF allVars, vars, userVars, AttemptsPaid, RowPaid, Givers, Keen, Vacancy, Vacant,
       Granted, Owns
  <2> QED BY <2>1, EngineAttempts, RequestAttempts DEF ApprovalNext, Engine
<1>2. BasicInv /\ AttemptsPaid => AttemptsBoundedWithRetries
  <2> SUFFICES ASSUME BasicInv, AttemptsPaid, NEW t \in Targets
               PROVE  attempts[t] <= MaxAttempts + crashes + retries
    BY DEF AttemptsBoundedWithRetries
  <2>1. crashes \in Nat /\ retries \in Nat /\ attempts[t] \in Nat /\ MaxAttempts \in Nat
    BY UserHalf, LimitsAssumption DEF BasicInv, WorldType, UserType
  <2>2. RowPaid(t)
    BY DEF AttemptsPaid
  <2> QED BY <2>1, <2>2, RowCounts DEF RowPaid, Granted
<1> QED BY <1>1, <1>2, InitAttempts, BasicInvariant, PTL DEF ApprovalSpec

-----------------------------------------------------------------------------
(* What Instagram accepts for an account.  The rows of an account come and *)
(* go, so what they were sent is counted together.                         *)

\* A finite number of rows with finitely many submissions each.
LEMMA SubmissionsFinite ==
    ASSUME NEW s \in [Targets -> Seq(SubState)], NEW R \in SUBSET Instagram
    PROVE  IsFiniteSet(UNION {{t} \X DOMAIN s[t] : t \in R})
<1> DEFINE T == {{t} \X DOMAIN s[t] : t \in R}
           f == [t \in R |-> {t} \X DOMAIN s[t]]
<1>1. IsFiniteSet(R)
  BY TargetsAssumption, FS_Subset DEF Instagram
<1>2. f \in Surjection(R, T)
  BY DEF Surjection
<1>3. IsFiniteSet(T)
  BY <1>1, <1>2, FS_Surjection
<1>4. ASSUME NEW t \in R PROVE IsFiniteSet({t} \X DOMAIN s[t])
  <2>1. s[t] \in Seq(SubState)
    BY DEF Instagram
  <2>2. Len(s[t]) \in Nat /\ DOMAIN s[t] = 1..Len(s[t])
    BY <2>1
  <2>3. IsFiniteSet(DOMAIN s[t])
    BY <2>2, FS_Interval
  <2> QED BY <2>3, FS_Singleton, FS_Product
<1> QED BY <1>3, <1>4, FS_UNION

LEMMA AcceptedFinite ==
    ASSUME WorldType, WorldType', NEW R \in SUBSET Instagram
    PROVE  /\ IsFiniteSet(Accepted(R)) /\ Cardinality(Accepted(R)) \in Nat
           /\ Cardinality(Accepted(R)') \in Nat
<1>1. IsFiniteSet(Accepted(R))
  BY SubmissionsFinite DEF WorldType, Accepted
<1>2. IsFiniteSet(Accepted(R)')
  BY SubmissionsFinite DEF WorldType, Accepted
<1> QED BY <1>1, <1>2, FS_CardinalityType

\* The executions that may still submit the row they claimed.
Sending == PreCommit \ {"commit"}

\* The one free submission of a row has been made: the row was taken off its
\* post, or its success is recorded or about to be, and none is under way.
Spent(t) ==
    \/ t \in torn /\ ~\E w \in Workers : target[w] = t /\ pc[w] \in Sending
    \/ /\ t \notin erased /\ status[t] = "PUBLISHED"
       /\ ~\E w \in Workers : target[w] = t /\ pc[w] \in Catching
    \/ t \notin erased /\ \E w \in Workers : target[w] = t /\ pc[w] = "commit"

SpentOf(R) == {t \in R : Spent(t)}

\* Every submission is the free one of a row, or paid for by a fault.
AccountsPaid ==
    \A R \in SUBSET Instagram :
        Cardinality(Accepted(R)) <= Faults + Cardinality(SpentOf(R))

\* An account has one row of a post at a time, ...
OneRowEach ==
    \A s, t \in Instagram :
        /\ PostOf[s] = PostOf[t] /\ AccountOf[s] = AccountOf[t]
        /\ status[s] # "ABSENT" /\ status[t] # "ABSENT"
        => s = t

\* ... a success was submitted, and a row that was deleted under its owner is
\* remembered.
RowsHeld ==
    /\ OneRowEach
    /\ \A t \in Instagram :
          \/ status[t] = "PUBLISHED"
          \/ \E w \in Workers : target[w] = t /\ pc[w] = "commit"
          => Len(subs[t]) > 0
    /\ \A w \in Workers :
          Owns(w) /\ target[w] \in Instagram /\ target[w] \in erased => target[w] \in torn

LEMMA SpentFinite ==
    ASSUME NEW R \in SUBSET Instagram
    PROVE  /\ IsFiniteSet(SpentOf(R)) /\ Cardinality(SpentOf(R)) \in Nat
           /\ IsFiniteSet(SpentOf(R)') /\ Cardinality(SpentOf(R)') \in Nat
<1>1. SpentOf(R) \subseteq R /\ SpentOf(R)' \subseteq R
  BY DEF SpentOf
<1>2. IsFiniteSet(R)
  BY TargetsAssumption, FS_Subset DEF Instagram
<1> QED BY <1>1, <1>2, FS_Subset, FS_CardinalityType

\* Nothing is submitted, and what is spent stays so, but for one row that a
\* fault pays for.
LEMMA NothingSubmitted ==
    ASSUME WorldType, WorldType', AccountsPaid,
           \A t \in Instagram : Len(subs'[t]) = Len(subs[t]),
           NEW x,
           \A t \in Instagram \ {x} : Spent(t) => Spent(t)',
           \/ Faults' = Faults /\ (x \in Instagram => (Spent(x) => Spent(x)'))
           \/ Faults' = Faults + 1
    PROVE  AccountsPaid'
<1> SUFFICES ASSUME NEW R \in SUBSET Instagram
             PROVE  Cardinality(Accepted(R)') <= Faults' + Cardinality(SpentOf(R)')
  BY DEF AccountsPaid, Instagram
<1>1. \A t \in R : DOMAIN subs'[t] = DOMAIN subs[t]
  <2> SUFFICES ASSUME NEW t \in R PROVE DOMAIN subs'[t] = DOMAIN subs[t]
    OBVIOUS
  <2>1. subs[t] \in Seq(SubState) /\ subs'[t] \in Seq(SubState) /\ Len(subs'[t]) = Len(subs[t])
    BY DEF WorldType, Instagram
  <2> QED BY <2>1
<1>2. Accepted(R)' = Accepted(R)
  BY <1>1 DEF Accepted
<1>3. Cardinality(Accepted(R)) <= Faults + Cardinality(SpentOf(R))
  BY DEF AccountsPaid
<1>4. /\ Faults \in Nat /\ Cardinality(SpentOf(R)) \in Nat /\ IsFiniteSet(SpentOf(R)')
      /\ Cardinality(SpentOf(R)') \in Nat /\ Cardinality(Accepted(R)) \in Nat
  BY SpentFinite, AcceptedFinite, FaultsNat
<1>5. CASE Faults' = Faults /\ (x \in Instagram => (Spent(x) => Spent(x)'))
  <2>1. SpentOf(R) \subseteq SpentOf(R)'
    BY <1>5 DEF SpentOf
  <2>2. Cardinality(SpentOf(R)) <= Cardinality(SpentOf(R)')
    BY <1>4, <2>1, Fewer
  <2> QED BY <1>2, <1>3, <1>4, <1>5, <2>2
<1>6. CASE Faults' = Faults + 1
  <2>1. SpentOf(R) \subseteq SpentOf(R)' \cup {x}
    BY DEF SpentOf
  <2>2. Cardinality(SpentOf(R)) <= Cardinality(SpentOf(R)') + 1
    BY <1>4, <2>1, OneMore
  <2> QED BY <1>2, <1>3, <1>4, <1>6, <2>2
<1> QED BY <1>5, <1>6

\* A row is submitted whose free submission is left, and takes it or is paid for
\* by a fault.
LEMMA OneSubmitted ==
    ASSUME WorldType, WorldType', AccountsPaid, NEW x \in Instagram,
           \A t \in Instagram \ {x} : subs'[t] = subs[t],
           Len(subs'[x]) = Len(subs[x]) + 1,
           \A t \in Instagram : Spent(t) => Spent(t)',
           ~Spent(x),
           \/ Faults' = Faults /\ Spent(x)'
           \/ Faults' = Faults + 1
    PROVE  AccountsPaid'
<1> SUFFICES ASSUME NEW R \in SUBSET Instagram
             PROVE  Cardinality(Accepted(R)') <= Faults' + Cardinality(SpentOf(R)')
  BY DEF AccountsPaid, Instagram
<1>3. Cardinality(Accepted(R)) <= Faults + Cardinality(SpentOf(R))
  BY DEF AccountsPaid
<1>4. /\ Faults \in Nat /\ IsFiniteSet(SpentOf(R)') /\ Cardinality(SpentOf(R)) \in Nat
      /\ Cardinality(SpentOf(R)') \in Nat /\ Cardinality(Accepted(R)) \in Nat
      /\ IsFiniteSet(Accepted(R))
  BY SpentFinite, AcceptedFinite, FaultsNat
<1>a. Cardinality(Accepted(R)') \in Nat
  BY AcceptedFinite
<1>5. SpentOf(R) \subseteq SpentOf(R)'
  BY DEF SpentOf
<1>6. Cardinality(SpentOf(R)) <= Cardinality(SpentOf(R)')
  BY <1>4, <1>5, Fewer
<1>7. CASE x \notin R
  <2>1. Accepted(R)' = Accepted(R)
    BY <1>7 DEF Accepted
  <2> QED BY <1>3, <1>4, <1>6, <2>1
<1>8. CASE x \in R
  <2>1. Accepted(R)' \subseteq Accepted(R) \cup {<<x, Len(subs[x]) + 1>>}
    <3>1. /\ subs[x] \in Seq(SubState) /\ subs'[x] \in Seq(SubState)
      BY DEF WorldType, Instagram
    <3>2. DOMAIN subs'[x] = DOMAIN subs[x] \cup {Len(subs[x]) + 1}
      BY <3>1
    <3> QED BY <3>2 DEF Accepted
  <2>2. Cardinality(Accepted(R)') <= Cardinality(Accepted(R)) + 1
    BY <1>4, <2>1, OneMore
  <2>3. CASE Faults' = Faults /\ Spent(x)'
    <3>1. x \in SpentOf(R)' /\ SpentOf(R) \subseteq SpentOf(R)' \ {x}
      BY <1>5, <1>8, <2>3 DEF SpentOf
    <3>2. Cardinality(SpentOf(R)) <= Cardinality(SpentOf(R)') - 1
      BY <1>4, <3>1, OneFewer
    <3> QED BY <1>3, <1>4, <1>a, <2>2, <2>3, <3>2
  <2>4. CASE Faults' = Faults + 1
    BY <1>3, <1>4, <1>a, <1>6, <2>2, <2>4
  <2> QED BY <2>3, <2>4
<1> QED BY <1>7, <1>8

-----------------------------------------------------------------------------
(* What a step of an execution w changes of the Instagram rows, of who is  *)
(* at work on them, and of the faults.                                     *)

NoneSent == \A t \in Instagram : Len(subs'[t]) = Len(subs[t])
SameRows(R) == \A t \in R : status'[t] = status[t]
NoFault == Faults' = Faults

\* It works on a TikTok row, ...
Aside(w) == /\ target[w] \notin Instagram /\ target'[w] \notin Instagram
            /\ NoneSent /\ SameRows(Instagram) /\ NoFault

\* ... leaves the try and catch blocks, or is outside of them, ...
Leaves(w) == /\ pc[w] # "commit" /\ pc'[w] \notin Early
             /\ NoneSent /\ SameRows(Instagram) /\ NoFault

\* ... goes on towards the end of its catch block, ...
Proceeds(w) ==
    /\ target'[w] = target[w]
    /\ \/ pc[w] \in Sending /\ pc'[w] \in Sending \cup Catching
       \/ pc[w] \in Catching /\ pc'[w] \in Catching
       \/ target[w] \in erased /\ pc'[w] \in Catching
    /\ NoneSent /\ SameRows(Instagram) /\ NoFault

\* ... claims its row, ...
Claims(w) ==
    /\ target[w] \in Instagram /\ Claimable(target[w]) /\ target'[w] = target[w]
    /\ pc[w] = "read" /\ pc'[w] = "claimed"
    /\ status'[target[w]] = "PUBLISHING"
    /\ NoneSent /\ SameRows(Instagram \ {target[w]}) /\ NoFault

\* ... submits it, ...
Submits(w) ==
    /\ target[w] \in Instagram /\ target'[w] = target[w]
    /\ pc[w] \in Sending
    /\ Len(subs'[target[w]]) = Len(subs[target[w]]) + 1
    /\ \A t \in Instagram \ {target[w]} : subs'[t] = subs[t]
    /\ \/ pc'[w] = "commit" /\ NoFault
       \/ pc'[w] = "catch" /\ Faults' = Faults + 1
    /\ SameRows(Instagram)

\* ... records its success or gives it back, if it is still there, ...
Records(w) ==
    /\ target[w] \in Instagram \ erased /\ target'[w] = target[w]
    /\ pc[w] = "commit" /\ pc'[w] = "notify"
    /\ status'[target[w]] = "PUBLISHED"
    /\ NoneSent /\ SameRows(Instagram \ {target[w]}) /\ NoFault

Returns(w) ==
    /\ target[w] \in Instagram \ erased /\ target'[w] = target[w]
    /\ pc[w] = "release" /\ pc'[w] \notin Early
    /\ status'[target[w]] \in {"FAILED", "PENDING"}
    /\ NoneSent /\ SameRows(Instagram \ {target[w]}) /\ NoFault

\* ... or meets a fault.
Breaks(w) ==
    /\ \/ pc'[w] = "idle"
       \/ pc'[w] = "catch" /\ target'[w] = target[w]
    /\ Faults' = Faults + 1
    /\ NoneSent /\ SameRows(Instagram)

Turn(w) ==
    /\ \A v \in Workers \ {w} : pc'[v] = pc[v] /\ target'[v] = target[v] /\ path'[v] = path[v]
    /\ Owns(w)' => target'[w] = target[w] /\ (Owns(w) \/ Claims(w) \/ target[w] \notin Instagram)
    /\ \/ Aside(w) \/ Leaves(w) \/ Proceeds(w) \/ Claims(w) \/ Submits(w)
       \/ Records(w) \/ Returns(w) \/ Breaks(w)

\* No execution moves.
Pause == NoneSent /\ SameRows(Instagram) /\ NoFault /\ UNCHANGED <<pc, target, path>>

LEMMA MoverTurn ==
    ASSUME NEW w \in Workers, Mover(w),
           \/ Aside(w) \/ Leaves(w) \/ Proceeds(w) \/ Submits(w) \/ Records(w) \/ Breaks(w)
    PROVE  Turn(w)
BY DEF Mover, Turn

LEMMA EngineTurn ==
    ASSUME BasicInv, Engine
    PROVE  Pause \/ \E w \in Workers : Turn(w)
<1>t. /\ RunType /\ WorldType /\ WorkersPlaced /\ NoAttaching /\ PostsHaveRows
      /\ \A t \in erased : t \in Targets /\ status[t] = "ABSENT"
  BY UserHalf DEF BasicInv, UserType, Engine
<1>w. \A w \in Workers : pc[w] # "idle" => target[w] \in Targets
  BY <1>t, TargetsAssumption DEF RunType, WorkersPlaced, Placed
<1>u. Undisturbed => \A w \in Workers : Bereft(w) => pc'[w] \in {pc[w], "idle"}
  BY DEF Undisturbed
<1>n. NoTarget \notin Instagram
  BY TargetsAssumption DEF Instagram
<1> USE <1>t
<1>1. ASSUME NEW p \in Posts, BecomeDue(p) \/ AgePost(p) PROVE Pause
  BY <1>1 DEF BecomeDue, AgePost, runVars, targetVars, faultVars, Pause, NoneSent, SameRows,
     NoFault, Faults
<1>2. ASSUME NEW t \in Targets, ExpireClaim(t) PROVE Pause
  BY <1>2 DEF ExpireClaim, runVars, faultVars, Pause, NoneSent, SameRows, NoFault, Faults
<1>3. ASSUME NEW t \in Targets, SettleJob(t) PROVE Pause
  <2>1. \A u \in Targets : Len(subs'[u]) = Len(subs[u])
    BY <1>3 DEF SettleJob, WorldType
  <2> QED BY <1>3, <2>1 DEF SettleJob, runVars, targetVars, faultVars, Pause, NoneSent,
       SameRows, NoFault, Faults, Instagram
<1>4. ASSUME Sweep \/ DropHanded PROVE Pause
  BY <1>4 DEF Sweep, DropHanded, runVars, targetVars, faultVars, Pause, NoneSent, SameRows,
     NoFault, Faults
<1>5. ASSUME NEW w \in Workers, FindBare(w) PROVE FALSE
  BY <1>5, TargetsAssumption DEF FindBare, PostsHaveRows, Rows
<1>6. ASSUME NEW w \in Workers, NEW t \in Targets, Read(w, t) \/ Track(w, t)
      PROVE  Turn(w)
  <2>1. Mover(w)
    BY <1>6 DEF Read, Track, Begin, At, RunType, Mover, Owns, PreCommit, Catching,
       Finalizing, Reconciling
  <2>2. pc[w] = "idle" /\ pc'[w] \in {"read", "poll"}
    BY <1>6 DEF Read, Track, Begin, At, RunType
  <2>3. Leaves(w)
    BY <1>6, <2>2 DEF Read, Track, worldVars, targetVars, faultVars, Leaves, Early, PreCommit,
       Catching, NoneSent, SameRows, NoFault, Faults
  <2> QED BY <2>1, <2>3, MoverTurn
<1>7. ASSUME NEW w \in Workers, Crash(w) \/ DbFailure(w)
      PROVE  Turn(w)
  <2>1. CASE Crash(w)
    <3>1. Mover(w)
      BY <2>1, ExitMover DEF Crash
    <3>2. pc'[w] = "idle" /\ Faults' = Faults + 1
      BY <2>1 DEF Crash, Exit, Begin, RunType, Faults, WorldType
    <3> QED BY <2>1, <3>1, <3>2, MoverTurn DEF Crash, targetVars, Breaks, NoneSent, SameRows
  <2>2. CASE DbFailure(w)
    <3>1. Mover(w)
      BY <2>2, GotoMover DEF DbFailure, Follows, Steps, PreCommit, Catching, Finalizing
    <3>2. pc'[w] = "catch" /\ target'[w] = target[w] /\ Faults' = Faults + 1
      BY <2>2 DEF DbFailure, Goto, RunType, Faults, WorldType
    <3> QED BY <2>2, <3>1, <3>2, MoverTurn DEF DbFailure, targetVars, Breaks, NoneSent, SameRows
  <2> QED BY <1>7, <2>1, <2>2
<1>8. ASSUME NEW w \in Workers, MissRow(w) PROVE Turn(w)
  <2>1. NoneSent /\ SameRows(Instagram) /\ NoFault
    BY <1>8 DEF MissRow, worldVars, targetVars, faultVars, NoneSent, SameRows, NoFault, Faults
  <2>2. CASE At(w, "commit") /\ Goto(w, "catch")
    <3>1. Mover(w)
      BY <2>2, GotoMover DEF At, Follows, Steps, PreCommit, Catching, Finalizing
    <3>2. pc'[w] = "catch" /\ target'[w] = target[w] /\ target[w] \in erased
      BY <1>8, <2>2 DEF MissRow, Bereft, Goto, RunType
    <3> QED BY <2>1, <3>1, <3>2, MoverTurn DEF Proceeds, Catching
  <2>3. CASE ~At(w, "commit") /\ Exit(w)
    <3>1. Mover(w) /\ pc'[w] = "idle" /\ pc[w] # "commit"
      BY <2>3, ExitMover DEF At, Exit, Begin, RunType
    <3> QED BY <2>1, <3>1, MoverTurn DEF Leaves, Early, PreCommit, Catching
  <2> QED BY <1>8, <2>2, <2>3 DEF MissRow
<1>9. ASSUME NEW w \in Workers, Attach(w) \/ FailBare(w) PROVE FALSE
  BY <1>9 DEF Attach, FailBare, At, NoAttaching, Attaching
<1>10. ASSUME Undisturbed, NEW w \in Workers, Step(w) PROVE Turn(w)
  <2> DEFINE t == target[w]
  <2>t. pc[w] # "idle" /\ t \in Targets
    BY <1>10, <1>w DEF Step, Attach, FailBare, Claim, MarkPost, Preflight, CallPlatform,
       RefreshAndRetry, Commit, Notify, ReadAttempts, Release, ReleaseAs, GiveUp,
       CountPublished, Revert, CountRemaining, Tally, Settle, CountFailed, Purge, Poll,
       ConfirmRead, ConfirmWrite, FailRead, FailWrite, At
  <2>s. ASSUME UNCHANGED <<status, subs, faultVars>>
        PROVE  NoneSent /\ SameRows(Instagram) /\ NoFault
    BY <2>s DEF faultVars, NoneSent, SameRows, NoFault, Faults
  <2>1. CASE \/ Notify(w) \/ GiveUp(w) \/ CountPublished(w) \/ Revert(w)
             \/ CountRemaining(w) \/ Settle(w) \/ CountFailed(w) \/ Purge(w)
             \/ Poll(w) \/ ConfirmRead(w) \/ FailRead(w)
    <3>1. Mover(w)
      BY <2>1, GotoMover, ExitMover
         DEF Notify, GiveUp, CountPublished, Revert, CountRemaining, Settle, CountFailed,
         Purge, Poll, ConfirmRead, FailRead, At, Follows, Steps, PreCommit, Catching,
         Released, Finalizing, Reconciling
    <3>2. pc[w] # "commit" /\ pc'[w] \notin Early
      BY <2>1 DEF Notify, GiveUp, CountPublished, Revert, CountRemaining, Settle, CountFailed,
         Purge, Poll, ConfirmRead, FailRead, At, Exit, Begin, Goto, RunType, Early, PreCommit,
         Catching
    <3>3. UNCHANGED <<status, subs, faultVars>>
      BY <2>1 DEF Notify, GiveUp, CountPublished, Revert, CountRemaining, Settle, CountFailed,
         Purge, Poll, ConfirmRead, FailRead, worldVars, targetVars
    <3> QED BY <2>s, <3>1, <3>2, <3>3, MoverTurn DEF Leaves
  <2>2. CASE Tally(w)
    <3>1. Mover(w) /\ pc[w] # "commit" /\ pc'[w] \notin Early
      BY <2>2 DEF Tally, At, RunType, WorkersPlaced, Placed, Mover, Follows, Owns, Steps,
         Early, PreCommit, Catching, Released, Finalizing, Reconciling, Attaching
    <3>2. UNCHANGED <<status, subs, faultVars>>
      BY <2>2 DEF Tally, worldVars, targetVars
    <3> QED BY <2>s, <3>1, <3>2, MoverTurn DEF Leaves
  <2>3. CASE MarkPost(w) \/ Preflight(w) \/ RefreshAndRetry(w)
    <3>1. Mover(w)
      BY <2>3, GotoMover
         DEF MarkPost, Preflight, RefreshAndRetry, At, Follows, Steps, PreCommit, Catching,
         Finalizing
    <3>2. /\ pc[w] \in Sending /\ pc'[w] \in Sending \cup Catching /\ target'[w] = target[w]
          /\ UNCHANGED <<status, subs, faultVars>>
      BY <2>3 DEF MarkPost, Preflight, RefreshAndRetry, At, Goto, RunType, worldVars,
         targetVars, Sending, PreCommit, Catching
    <3> QED BY <2>s, <3>1, <3>2, MoverTurn DEF Proceeds
  <2>4. CASE ReadAttempts(w)
    <3>1. Mover(w) /\ pc[w] \in Catching /\ pc'[w] \in Catching /\ target'[w] = target[w]
      BY <2>4 DEF ReadAttempts, At, RunType, WorkersPlaced, Placed, Mover, Follows, Owns,
         Steps, PreCommit, Catching, Finalizing
    <3>2. UNCHANGED <<status, subs, faultVars>>
      BY <2>4 DEF ReadAttempts, worldVars, targetVars
    <3> QED BY <2>s, <3>1, <3>2, MoverTurn DEF Proceeds
  <2>5. CASE CallPlatform(w)
    <3>1. Mover(w)
      BY <2>5 DEF CallPlatform, Submit, Goto, RunType, WorkersPlaced, Placed, Mover, Follows,
         Owns, Steps, PreCommit, Catching, Finalizing
    <3>2. pc[w] \in Sending /\ target'[w] = target[w] /\ UNCHANGED <<status, crashes, dbFailures>>
      BY <2>5 DEF CallPlatform, Submit, Goto, targetVars, Sending, PreCommit
    <3>3. CASE Goto(w, "catch") /\ UNCHANGED <<subs, lostAcks>>
      <4>1. pc'[w] \in Catching
        BY <3>3 DEF Goto, RunType, Catching
      <4> QED BY <2>s, <3>1, <3>2, <3>3, <4>1, MoverTurn DEF Proceeds, faultVars
    <3>4. ASSUME NEW l, Submit(w, l),
                 \/ l = "commit" /\ lostAcks' = lostAcks
                 \/ l = "catch" /\ lostAcks' = lostAcks + 1
          PROVE  Turn(w)
      <4>1. pc'[w] = l /\ \A u \in Targets \ {t} : subs'[u] = subs[u]
        BY <3>4 DEF Submit, RunType, WorldType
      <4>2. Len(subs'[t]) = Len(subs[t]) + 1
        BY <3>4, <2>t, LenAppend DEF Submit, WorldType
      <4>3. l = "commit" => NoFault
        BY <3>2, <3>4 DEF NoFault, Faults
      <4>4. l = "catch" => Faults' = Faults + 1
        BY <3>2, <3>4 DEF Faults, WorldType
      <4>5. CASE t \in Instagram
        BY <3>1, <3>2, <3>4, <4>1, <4>2, <4>3, <4>4, <4>5, MoverTurn
           DEF Submits, SameRows, Instagram
      <4>6. CASE t \notin Instagram
        <5>1. NoneSent /\ SameRows(Instagram)
          BY <3>2, <4>1, <4>6 DEF NoneSent, SameRows, Instagram
        <5>2. CASE l = "commit"
          BY <3>1, <3>2, <4>3, <4>6, <5>1, <5>2, MoverTurn DEF Aside
        <5>3. CASE l = "catch"
          BY <3>1, <3>2, <4>1, <4>4, <5>1, <5>3, MoverTurn DEF Breaks
        <5> QED BY <3>4, <5>2, <5>3
      <4> QED BY <4>5, <4>6
    <3> QED BY <2>5, <3>3, <3>4 DEF CallPlatform
  <2>6. CASE Claim(w)
    <3>1. CASE ~Claimable(t)
      <4>1. Mover(w) /\ pc[w] # "commit" /\ pc'[w] \notin Early
        BY <2>6, <3>1, ExitMover DEF Claim, At, Exit, Begin, RunType, Early, PreCommit, Catching
      <4>2. UNCHANGED <<status, subs, faultVars>>
        BY <2>6, <3>1 DEF Claim
      <4> QED BY <2>s, <4>1, <4>2, MoverTurn DEF Leaves
    <3>2. CASE Claimable(t)
      <4>1. /\ pc[w] = "read" /\ pc'[w] = "claimed" /\ target'[w] = target[w]
            /\ \A v \in Workers \ {w} : /\ pc'[v] = pc[v] /\ target'[v] = target[v]
                                        /\ path'[v] = path[v]
        BY <2>6, <3>2 DEF Claim, At, Goto, RunType
      <4>2. /\ status'[t] = "PUBLISHING" /\ \A u \in Targets \ {t} : status'[u] = status[u]
            /\ UNCHANGED <<subs, faultVars>>
        BY <2>6, <3>2, <2>t DEF Claim, WorldType
      <4>3. NoneSent /\ NoFault /\ SameRows(Instagram \ {t})
        BY <4>2 DEF NoneSent, NoFault, SameRows, Faults, faultVars, Instagram
      <4>4. CASE t \in Instagram
        <5>1. Claims(w)
          BY <3>2, <4>1, <4>2, <4>3, <4>4 DEF Claims
        <5> QED BY <4>1, <5>1 DEF Turn
      <4>5. CASE t \notin Instagram
        <5>1. SameRows(Instagram)
          BY <4>3, <4>5 DEF SameRows
        <5>2. Aside(w)
          BY <4>1, <4>3, <4>5, <5>1 DEF Aside
        <5> QED BY <4>1, <4>5, <5>2 DEF Turn
      <4> QED BY <4>4, <4>5
    <3> QED BY <3>1, <3>2
  <2>7. CASE Commit(w)
    <3>1. /\ Owns(w) /\ target'[w] = target[w]
          /\ \A v \in Workers \ {w} : pc'[v] = pc[v] /\ target'[v] = target[v] /\ path'[v] = path[v]
      BY <2>7 DEF Commit, At, Goto, RunType, WorkersPlaced, Placed, Owns, PreCommit
    <3>2. /\ pc[w] = "commit" /\ pc'[w] = "notify" /\ target'[w] = target[w]
          /\ \A u \in Targets \ {t} : status'[u] = status[u]
          /\ status'[t] = IF t \in TikTok THEN "PUBLISHING" ELSE "PUBLISHED"
          /\ UNCHANGED <<subs, faultVars>>
      BY <2>7, <2>t DEF Commit, At, Goto, RunType, WorldType
    <3>3. t \notin erased
      BY <1>10, <1>u, <3>2 DEF Bereft, OnItsRow
    <3>4. NoneSent /\ NoFault /\ SameRows(Instagram \ {t})
      BY <3>2 DEF NoneSent, NoFault, SameRows, Faults, faultVars, Instagram
    <3>5. CASE t \in Instagram
      <4>1. Records(w)
        BY <3>1, <3>2, <3>3, <3>4, <3>5 DEF Records, Instagram
      <4> QED BY <3>1, <4>1 DEF Turn
    <3>6. CASE t \notin Instagram
      <4>1. Aside(w)
        BY <3>1, <3>4, <3>6 DEF Aside, SameRows
      <4> QED BY <3>1, <4>1 DEF Turn
    <3> QED BY <3>5, <3>6
  <2>8. CASE Release(w)
    <3>1. /\ pc[w] = "release" /\ pc'[w] \in {"giveup", "bounce"} /\ target'[w] = target[w]
          /\ \A u \in Targets \ {t} : status'[u] = status[u]
          /\ status'[t] \in {"FAILED", "PENDING"}
          /\ UNCHANGED <<subs, faultVars>>
      BY <2>8, <2>t DEF Release, ReleaseAs, At, RunType, WorldType
    <3>2. /\ ~Owns(w)'
          /\ \A v \in Workers \ {w} : pc'[v] = pc[v] /\ target'[v] = target[v] /\ path'[v] = path[v]
      BY <2>8 DEF Release, ReleaseAs, RunType, Owns
    <3>3. t \notin erased
      BY <1>10, <1>u, <3>1 DEF Bereft, OnItsRow
    <3>4. NoneSent /\ NoFault /\ SameRows(Instagram \ {t})
      BY <3>1 DEF NoneSent, NoFault, SameRows, Faults, faultVars, Instagram
    <3>5. CASE t \in Instagram
      <4>1. Returns(w)
        BY <3>1, <3>3, <3>4, <3>5 DEF Returns, Early, PreCommit, Catching, Instagram
      <4> QED BY <3>2, <4>1 DEF Turn
    <3>6. CASE t \notin Instagram
      <4>1. Aside(w)
        BY <3>1, <3>4, <3>6 DEF Aside, SameRows
      <4> QED BY <3>2, <4>1 DEF Turn
    <3> QED BY <3>5, <3>6
  <2>9. CASE ConfirmWrite(w) \/ FailWrite(w)
    <3>1. t \in TikTok /\ path[w] = "reconcile"
      BY <2>9 DEF ConfirmWrite, FailWrite, At, WorkersPlaced, Placed, Reconciling
    <3>2. Mover(w) /\ target'[w] = target[w]
      BY <2>9, <3>1 DEF ConfirmWrite, FailWrite, Goto, RunType, Mover, Owns
    <3>3. /\ \A u \in Instagram : status'[u] = status[u]
          /\ UNCHANGED <<subs, faultVars>>
      BY <2>9, <3>1 DEF ConfirmWrite, FailWrite, Instagram, WorldType
    <3>4. NoneSent /\ NoFault /\ SameRows(Instagram)
      BY <3>3 DEF NoneSent, NoFault, SameRows, Faults, faultVars
    <3> QED BY <3>1, <3>2, <3>4, MoverTurn DEF Aside, Instagram
  <2> QED BY <1>9, <1>10, <2>1, <2>2, <2>3, <2>4, <2>5, <2>6, <2>7, <2>8, <2>9
       DEF Step
<1> QED BY <1>1, <1>2, <1>3, <1>4, <1>5, <1>6, <1>7, <1>8, <1>10 DEF Engine, Undisturbed, Next

\* A step of w keeps the row spent, unless w begins to submit it, fails or
\* takes back its success.
LEMMA SpentKept ==
    ASSUME NEW w \in Workers, NEW t \in Instagram, Spent(t), UNCHANGED <<erased, torn>>,
           \A v \in Workers \ {w} : pc'[v] = pc[v] /\ target'[v] = target[v],
           target'[w] = t /\ pc'[w] \in Sending => target[w] = t /\ pc[w] \in Sending,
           /\ t \notin erased /\ status[t] = "PUBLISHED"
           /\ target[w] = t => pc[w] \notin Catching
           => /\ status'[t] = "PUBLISHED"
              /\ target'[w] = t => pc'[w] \notin Catching,
           t \notin erased /\ target[w] = t /\ pc[w] = "commit" =>
              \/ target'[w] = t /\ pc'[w] = "commit"
              \/ /\ status'[t] = "PUBLISHED"
                 /\ \A v \in Workers : target'[v] = t => pc'[v] \notin Catching
    PROVE  Spent(t)'
<1>1. CASE t \in torn /\ ~\E v \in Workers : target[v] = t /\ pc[v] \in Sending
  <2>1. \A v \in Workers : target'[v] = t => pc'[v] \notin Sending
    BY <1>1
  <2> QED BY <1>1, <2>1 DEF Spent
<1>2. CASE /\ t \notin erased /\ status[t] = "PUBLISHED"
           /\ ~\E v \in Workers : target[v] = t /\ pc[v] \in Catching
  <2>1. \A v \in Workers : target'[v] = t => pc'[v] \notin Catching
    BY <1>2
  <2> QED BY <1>2, <2>1 DEF Spent
<1>3. CASE t \notin erased /\ \E v \in Workers : target[v] = t /\ pc[v] = "commit"
  <2>1. PICK v \in Workers : target[v] = t /\ pc[v] = "commit"
    BY <1>3
  <2>2. CASE v # w
    <3>1. target'[v] = t /\ pc'[v] = "commit"
      BY <2>1, <2>2
    <3> QED BY <1>3, <3>1 DEF Spent
  <2>3. CASE v = w
    BY <1>3, <2>1, <2>3 DEF Spent
  <2> QED BY <2>2, <2>3
<1> QED BY <1>1, <1>2, <1>3 DEF Spent

\* An execution that may still submit its row, or give it back, has it neither
\* spent nor in other hands.
LEMMA OwnRow ==
    ASSUME BasicInv, ClaimsHeld, NEW w \in Workers, target[w] \in Instagram,
           pc[w] \in Early
    PROVE  /\ pc[w] \in PreCommit /\ target[w] \notin erased => status[target[w]] = "PUBLISHING"
           /\ status[target[w]] = "ABSENT" => target[w] \in erased
           /\ \A v \in Workers \ {w} : target[v] = target[w] => pc[v] \notin Early
<1>1. WorkersPlaced
  BY DEF BasicInv
<1>2. Owns(w)
  BY <1>1 DEF WorkersPlaced, Placed, Owns, Early, PreCommit, Catching
<1>3. OwnedRow(w)
  BY <1>2 DEF ClaimsHeld
<1>4. \A v \in Workers \ {w} : target[v] = target[w] => pc[v] \notin Early
  BY <1>1, OnlyOwner DEF Early
<1> QED BY <1>3, <1>4 DEF OwnedRow, PreCommit, Catching, Finalizing

LEMMA EngineRows ==
    ASSUME BasicInv, ClaimsHeld, RowsHeld, Engine
    PROVE  RowsHeld'
<1>t. /\ \A t \in erased : status[t] = "ABSENT"
      /\ UNCHANGED <<erased, torn>>
      /\ \A t \in Instagram : Len(subs[t]) \in Nat
  BY UserHalf, FaultsNat DEF BasicInv, UserType, Engine, userVars
<1>1. CASE Pause
  BY <1>1, <1>t DEF Pause, NoneSent, SameRows, RowsHeld, OneRowEach, Owns, Instagram
<1>2. ASSUME NEW w \in Workers, Turn(w) PROVE RowsHeld'
  <2>1. \A t \in Instagram : /\ status[t] = "ABSENT" => status'[t] = "ABSENT"
                             /\ Len(subs'[t]) >= Len(subs[t])
    <3>1. CASE Aside(w) \/ Leaves(w) \/ Proceeds(w) \/ Breaks(w)
      BY <3>1, <1>t DEF Aside, Leaves, Proceeds, Breaks, NoneSent, SameRows
    <3>2. CASE Claims(w)
      BY <3>2, <1>t DEF Claims, Claimable, StaleClaim, NoneSent, SameRows
    <3>3. CASE Submits(w)
      BY <3>3, <1>t DEF Submits, SameRows
    <3>4. CASE Records(w) \/ Returns(w)
      <4>1. target[w] \in Instagram \ erased /\ pc[w] \in Early
        BY <3>4 DEF Records, Returns, Early, PreCommit, Catching
      <4>2. status[target[w]] # "ABSENT"
        BY <4>1, OwnRow
      <4> QED BY <3>4, <4>2, <1>t DEF Records, Returns, NoneSent, SameRows
    <3> QED BY <1>2, <3>1, <3>2, <3>3, <3>4 DEF Turn
  <2>2. OneRowEach'
    BY <2>1 DEF RowsHeld, OneRowEach, Instagram
  <2>3. ASSUME NEW t \in Instagram,
               \/ status'[t] = "PUBLISHED"
               \/ \E v \in Workers : target'[v] = t /\ pc'[v] = "commit"
        PROVE  Len(subs'[t]) > 0
    <3>1. CASE Len(subs[t]) > 0
      BY <2>1, <3>1, <1>t
    <3>2. CASE Submits(w) /\ target[w] = t
      BY <3>2, <1>t DEF Submits
    <3>3. CASE ~(Len(subs[t]) > 0) /\ ~(Submits(w) /\ target[w] = t)
      <4>1. status[t] # "PUBLISHED" /\ \A v \in Workers : target[v] = t => pc[v] # "commit"
        BY <3>3 DEF RowsHeld
      <4>2. status'[t] # "PUBLISHED"
        BY <1>2, <4>1 DEF Turn, Aside, Leaves, Proceeds, Claims, Submits, Records, Returns,
           Breaks, SameRows
      <4>3. target'[w] = t => pc'[w] # "commit"
        BY <1>2, <3>3 DEF Turn, Aside, Leaves, Proceeds, Claims, Submits, Records, Returns,
           Breaks, Early, Sending, PreCommit, Catching
      <4>4. \A v \in Workers : target'[v] = t => pc'[v] # "commit"
        BY <1>2, <4>1, <4>3 DEF Turn
      <4> QED BY <2>3, <4>2, <4>4
    <3> QED BY <3>1, <3>2, <3>3
  <2>4. ASSUME NEW v \in Workers, Owns(v)', target'[v] \in Instagram, target'[v] \in erased
        PROVE  target'[v] \in torn
    <3>1. target'[v] = target[v] /\ (Owns(v) \/ Claims(v))
      BY <1>2, <2>4 DEF Turn, Owns
    <3>2. ~Claims(v)
      BY <2>4, <3>1, <1>t DEF Claims, Claimable, StaleClaim
    <3> QED BY <2>4, <3>1, <3>2 DEF RowsHeld
  <2> QED BY <1>t, <2>2, <2>3, <2>4 DEF RowsHeld, Instagram
<1> QED BY <1>1, <1>2, EngineTurn

LEMMA EngineAccounts ==
    ASSUME BasicInv, ClaimsHeld, RowsHeld, AccountsPaid, Engine
    PROVE  AccountsPaid'
<1>t. /\ WorldType /\ WorldType' /\ WorkersPlaced
      /\ \A t \in erased : status[t] = "ABSENT"
      /\ torn \subseteq erased /\ UNCHANGED <<erased, torn>>
  <2>1. TypeOK'
    BY EngineBasic DEF BasicInv, ApprovalTypeOK
  <2> QED BY <2>1, UserHalf DEF BasicInv, UserType, Engine, userVars, TypeOK, WorldType
<1>1. CASE Pause
  <2>1. \A t \in Instagram : Spent(t) => Spent(t)'
    BY <1>1, <1>t DEF Pause, SameRows, Spent
  <2> QED BY <1>1, <1>t, <2>1, NothingSubmitted DEF Pause, NoneSent, NoFault
<1>2. ASSUME NEW w \in Workers, Turn(w) PROVE AccountsPaid'
  <2> DEFINE x == target[w]
  <2>o. \A v \in Workers \ {w} : pc'[v] = pc[v] /\ target'[v] = target[v]
    BY <1>2 DEF Turn
  <2>1. CASE Aside(w) \/ Leaves(w)
    <3>1. ASSUME NEW t \in Instagram, Spent(t) PROVE Spent(t)'
      BY <1>t, <2>o, <2>1, <3>1, SpentKept
         DEF Aside, Leaves, SameRows, Early, Sending, PreCommit, Catching
    <3> QED BY <1>t, <2>1, <3>1, NothingSubmitted DEF Aside, Leaves, NoneSent, NoFault
  <2>2. CASE Proceeds(w)
    <3>1. ASSUME NEW t \in Instagram, Spent(t) PROVE Spent(t)'
      <4>1. target[w] = t /\ t \notin erased /\ pc[w] \in Sending => status[t] # "PUBLISHED"
        BY OwnRow DEF Early, Sending
      <4>2. target[w] = t /\ t \notin erased => pc[w] # "commit"
        BY <2>2 DEF Proceeds, Sending, PreCommit, Catching
      <4> QED BY <1>t, <2>o, <2>2, <3>1, <4>1, <4>2, SpentKept
           DEF Proceeds, SameRows, Sending, PreCommit, Catching
    <3> QED BY <1>t, <2>2, <3>1, NothingSubmitted DEF Proceeds, NoneSent, NoFault
  <2>3. CASE Claims(w)
    <3>1. x \in Instagram /\ x \notin erased /\ status[x] # "PUBLISHED"
      BY <1>t, <2>3 DEF Claims, Claimable, StaleClaim
    <3>2. \A v \in Workers : target[v] = x => pc[v] # "commit"
      BY <1>t, <2>3, <3>1 DEF Claims, Claimable, StaleClaim, ClaimsHeld, OwnedRow, Owns,
         WorkersPlaced, Placed, PreCommit
    <3>3. ~Spent(x)
      BY <1>t, <3>1, <3>2 DEF Spent
    <3>4. ASSUME NEW t \in Instagram, Spent(t) PROVE Spent(t)'
      <4>1. t # x
        BY <3>3, <3>4
      <4> QED BY <1>t, <2>o, <2>3, <3>4, <4>1, SpentKept DEF Claims, SameRows
    <3> QED BY <1>t, <2>3, <3>4, NothingSubmitted DEF Claims, NoneSent, NoFault
  <2>4. CASE Submits(w)
    <3>1. x \in Instagram /\ pc[w] \in Sending /\ pc[w] \in PreCommit /\ pc[w] \in Early
      BY <2>4 DEF Submits, Sending, Early
    <3>2. \A v \in Workers \ {w} : target[v] = x => pc[v] \notin Early
      BY <3>1, OwnRow
    <3>3. ~Spent(x)
      <4>1. x \notin erased => status[x] # "PUBLISHED"
        BY <3>1, OwnRow
      <4>2. \A v \in Workers : target[v] = x => pc[v] # "commit"
        BY <3>1, <3>2 DEF Early, Sending, PreCommit
      <4> QED BY <3>1, <4>1, <4>2 DEF Spent
    <3>4. ASSUME NEW t \in Instagram, Spent(t) PROVE Spent(t)'
      <4>1. t # x
        BY <3>3, <3>4
      <4> QED BY <1>t, <2>o, <2>4, <3>4, <4>1, SpentKept DEF Submits, SameRows
    <3>y. PICK y : y = x
      OBVIOUS
    <3>5. CASE pc'[w] = "commit" /\ NoFault
      <4>1. target'[w] = y /\ y \in Instagram
        BY <2>4, <3>1, <3>y DEF Submits
      <4>2. y \notin erased => Spent(y)'
        BY <1>t, <3>5, <4>1 DEF Spent
      <4>3. y \in erased => y \in torn
        BY <1>t, <3>1, <3>y DEF RowsHeld, WorkersPlaced, Placed, Owns
      <4>4. \A v \in Workers : target'[v] = y => pc'[v] \notin Sending
        BY <2>o, <3>2, <3>5, <3>y DEF Early, Sending
      <4>5. Spent(y)'
        BY <1>t, <4>2, <4>3, <4>4 DEF Spent
      <4>6. /\ ~Spent(y) /\ Len(subs'[y]) = Len(subs[y]) + 1
            /\ \A t \in Instagram \ {y} : subs'[t] = subs[t]
        BY <2>4, <3>3, <3>y DEF Submits
      <4> QED BY <1>t, <3>4, <3>5, <4>1, <4>5, <4>6, OneSubmitted DEF NoFault
    <3>6. CASE Faults' = Faults + 1
      BY <1>t, <2>4, <3>1, <3>3, <3>4, <3>6, OneSubmitted DEF Submits
    <3> QED BY <2>4, <3>5, <3>6 DEF Submits
  <2>5. CASE Records(w)
    <3>1. \A v \in Workers : target'[v] = x => pc'[v] \notin Catching
      <4>1. \A v \in Workers \ {w} : target[v] = x => pc[v] \notin Early
        BY <2>5, OwnRow DEF Records, Early, PreCommit
      <4> QED BY <2>o, <2>5, <4>1 DEF Records, Early, Catching
    <3>2. ASSUME NEW t \in Instagram, Spent(t) PROVE Spent(t)'
      BY <1>t, <2>o, <2>5, <3>1, <3>2, SpentKept DEF Records, SameRows, Sending, PreCommit,
         Catching
    <3> QED BY <1>t, <2>5, <3>2, NothingSubmitted DEF Records, NoneSent, NoFault
  <2>6. CASE Returns(w)
    <3>1. x \in Instagram /\ x \notin erased /\ pc[w] \in Catching /\ pc[w] \in Early
      BY <2>6 DEF Returns, Early, Catching
    <3>2. \A v \in Workers : target[v] = x => pc[v] # "commit"
      <4>1. \A v \in Workers \ {w} : target[v] = x => pc[v] \notin Early
        BY <3>1, OwnRow
      <4> QED BY <3>1, <4>1 DEF Early, PreCommit, Catching
    <3>3. ~Spent(x)
      BY <1>t, <3>1, <3>2 DEF Spent
    <3>4. ASSUME NEW t \in Instagram, Spent(t) PROVE Spent(t)'
      <4>1. t # x
        BY <3>3, <3>4
      <4> QED BY <1>t, <2>o, <2>6, <3>4, <4>1, SpentKept DEF Returns, SameRows
    <3> QED BY <1>t, <2>6, <3>4, NothingSubmitted DEF Returns, NoneSent, NoFault
  <2>7. CASE Breaks(w)
    <3>1. ASSUME NEW t \in Instagram \ {x}, Spent(t) PROVE Spent(t)'
      <4>1. target'[w] = t => pc'[w] = "idle"
        BY <2>7 DEF Breaks
      <4> QED BY <1>t, <2>o, <2>7, <3>1, <4>1, SpentKept DEF Breaks, SameRows, Sending,
           PreCommit, Catching
    <3> QED BY <1>t, <2>7, <3>1, NothingSubmitted DEF Breaks, NoneSent
  <2> QED BY <1>2, <2>1, <2>2, <2>3, <2>4, <2>5, <2>6, <2>7 DEF Turn
<1> QED BY <1>1, <1>2, EngineTurn

-----------------------------------------------------------------------------
(* What a request changes: rows D go, rows N come, failed rows are revived. *)

\* New rows are about different accounts.
LEMMA NewRowsDiffer ==
    ASSUME NEW p, NEW A, NEW N \in NewRows(p, A), NEW s \in N, NEW t \in N,
           AccountOf[s] = AccountOf[t]
    PROVE  s = t
<1> DEFINE f == [x \in N |-> AccountOf[x]]
<1>1. /\ N \subseteq Targets
      /\ {AccountOf[x] : x \in N} = A /\ Cardinality(N) = Cardinality(A)
  BY DEF NewRows, TargetsOf
<1>2. IsFiniteSet(N)
  BY <1>1, TargetsAssumption, FS_Subset
<1>3. f \in Surjection(N, A)
  BY <1>1 DEF Surjection
<1>4. f \in Injection(N, A)
  BY <1>1, <1>2, <1>3, FS_Surjection
<1>5. f[s] = f[t]
  OBVIOUS
<1>6. \A x, y \in N : f[x] = f[y] => x = y
  BY <1>4 DEF Injection, IsInjective
<1> QED BY <1>5, <1>6

Replaced(D, N) ==
    /\ D \subseteq Targets /\ erased' = erased \cup D
    /\ torn' = torn \cup {t \in D : Worked(t)}
    /\ \A t \in D : status'[t] = "ABSENT"
    /\ \A t \in N : status[t] = "ABSENT" /\ status'[t] = "PENDING" /\ t \notin erased'
    /\ \A t \in Targets \ (D \cup N) :
          status'[t] = status[t] \/ (status[t] = "FAILED" /\ status'[t] = "PENDING")
    /\ \A s \in N, t \in Targets :
          PostOf[s] = PostOf[t] /\ AccountOf[s] = AccountOf[t] /\ status'[t] # "ABSENT"
          => s = t

LEMMA ReplaceTurn ==
    ASSUME BasicInv, NEW u \in Requests, NEW l, ReplaceTargets(u, l)
    PROVE  \E D, N : Replaced(D, N)
<1>1. PICK keep \in (SUBSET Accounts) \ {{}} :
        LET D == {t \in Rows(req[u].post) : AccountOf[t] \notin keep}
            A == keep \ {AccountOf[t] : t \in Rows(req[u].post)}
        IN \E N \in NewRows(req[u].post, A) :
             /\ SwapRows(D, N)
             /\ torn' = torn \cup {t \in D : Worked(t)}
  BY DEF ReplaceTargets
<1>p. PICK p : p = req[u].post
  OBVIOUS
<1>2. PICK D, A :
        /\ D = {t \in Rows(p) : AccountOf[t] \notin keep}
        /\ A = keep \ {AccountOf[t] : t \in Rows(p)}
        /\ \E N \in NewRows(p, A) : SwapRows(D, N) /\ torn' = torn \cup {t \in D : Worked(t)}
  BY <1>1, <1>p
<1>3. PICK N \in NewRows(p, A) : SwapRows(D, N) /\ torn' = torn \cup {t \in D : Worked(t)}
  BY <1>2
<1>4. /\ N \subseteq TargetsOf(p) \ erased /\ N \subseteq Targets
      /\ \A t \in N : status[t] = "ABSENT"
      /\ {AccountOf[t] : t \in N} = A
  BY DEF NewRows, TargetsOf
<1>5. D \subseteq Targets /\ \A t \in D : status[t] # "ABSENT"
  BY <1>2 DEF Rows, TargetsOf
<1>6. /\ \A t \in Targets : status'[t] = IF t \in D THEN "ABSENT"
                                         ELSE IF t \in N THEN "PENDING" ELSE status[t]
      /\ erased' = erased \cup D
  BY <1>3 DEF SwapRows
<1>7. ASSUME NEW s \in N, NEW t \in Targets, PostOf[s] = PostOf[t],
             AccountOf[s] = AccountOf[t], status'[t] # "ABSENT"
      PROVE  s = t
  <2>1. CASE t \in N
    BY <1>7, <2>1, NewRowsDiffer
  <2>2. CASE t \notin N
    <3>1. status[t] # "ABSENT" /\ PostOf[t] = p
      BY <1>4, <1>6, <1>7, <2>2 DEF TargetsOf
    <3>2. t \in Rows(p)
      BY <3>1 DEF Rows, TargetsOf
    <3>3. AccountOf[s] \in A
      BY <1>4
    <3> QED BY <1>2, <1>7, <3>2, <3>3
  <2> QED BY <2>1, <2>2
<1>8. \A t \in N : t \notin D /\ t \notin erased'
  BY <1>4, <1>5, <1>6
<1> QED BY <1>3, <1>4, <1>5, <1>6, <1>7, <1>8 DEF Replaced

LEMMA RequestTurn ==
    ASSUME BasicInv, RequestNext
    PROVE  NoFault /\ \E D, N : Replaced(D, N)
<1> PICK u \in Requests :
      \/ \E p \in Posts :
            ApproveRead(u, p) \/ RejectRead(u, p) \/ RetryRead(u, p) \/ EditRead(u, p)
      \/ SelectTargets(u) \/ Reserve(u) \/ ApproveWrite(u) \/ Hand(u)
      \/ RejectWrite(u) \/ RetryTargets(u) \/ RetryPost(u)
      \/ ReselectTargets(u) \/ EditWrite(u)
  BY DEF RequestNext
<1>0. ASSUME UNCHANGED <<erased, torn>>,
             \A t \in Targets : \/ status'[t] = status[t]
                                \/ status[t] = "FAILED" /\ status'[t] = "PENDING"
      PROVE  Replaced({}, {})
  BY <1>0 DEF Replaced
<1>1. CASE \/ \E p \in Posts :
                 ApproveRead(u, p) \/ RejectRead(u, p) \/ RetryRead(u, p) \/ EditRead(u, p)
           \/ Reserve(u) \/ ApproveWrite(u) \/ Hand(u) \/ RejectWrite(u)
           \/ RetryPost(u) \/ EditWrite(u)
  <2>1. UNCHANGED <<status, erased, torn, faultVars>>
    BY <1>1 DEF ApproveRead, RejectRead, RetryRead, EditRead, Open, Reserve, ApproveWrite,
       Hand, RejectWrite, RetryPost, EditWrite, vars, targetVars, rowHistory, faultVars
  <2> QED BY <1>0, <2>1 DEF NoFault, Faults, faultVars
<1>2. CASE RetryTargets(u)
  <2>1. /\ UNCHANGED <<erased, torn, faultVars>>
        /\ \A t \in Targets : \/ status'[t] = status[t]
                              \/ status[t] = "FAILED" /\ status'[t] = "PENDING"
    BY <1>2 DEF RetryTargets, rowHistory
  <2> QED BY <1>0, <2>1 DEF NoFault, Faults, faultVars
<1>3. CASE SelectTargets(u) \/ ReselectTargets(u)
  <2>1. NoFault
    BY <1>3 DEF SelectTargets, ReselectTargets, Select, NoFault, Faults, faultVars
  <2>2. CASE \E l : ReplaceTargets(u, l)
    BY <2>1, <2>2, ReplaceTurn
  <2>3. CASE UNCHANGED <<status, rowHistory>>
    BY <1>0, <2>1, <2>3 DEF rowHistory
  <2> QED BY <1>3, <2>2, <2>3 DEF SelectTargets, ReselectTargets, Select
<1> QED BY <1>1, <1>2, <1>3

LEMMA RequestRows ==
    ASSUME BasicInv, RowsHeld, RequestNext
    PROVE  RowsHeld'
<1>t. UNCHANGED <<pc, target, path, subs>>
  BY RequestBasic DEF runVars
<1>1. PICK D, N : Replaced(D, N)
  BY RequestTurn
<1>2. ASSUME NEW s \in Instagram, NEW t \in Instagram,
             PostOf[s] = PostOf[t], AccountOf[s] = AccountOf[t],
             status'[s] # "ABSENT", status'[t] # "ABSENT"
      PROVE  s = t
  <2>0. s \in Targets /\ t \in Targets
    BY DEF Instagram
  <2>1. CASE s \in N \/ t \in N
    BY <1>1, <1>2, <2>0, <2>1 DEF Replaced
  <2>2. CASE s \notin N /\ t \notin N
    <3>1. status[s] # "ABSENT" /\ status[t] # "ABSENT"
      BY <1>1, <1>2, <2>0, <2>2 DEF Replaced
    <3> QED BY <1>2, <3>1 DEF RowsHeld, OneRowEach
  <2> QED BY <2>1, <2>2
<1>3. \A t \in Instagram : status'[t] = "PUBLISHED" => status[t] = "PUBLISHED"
  BY <1>1 DEF Replaced, Instagram
<1>4. ASSUME NEW w \in Workers, Owns(w), target[w] \in Instagram, target[w] \in erased'
      PROVE  target[w] \in torn'
  <2>1. CASE target[w] \in D
    BY <1>1, <1>4, <2>1 DEF Replaced, Worked
  <2>2. CASE target[w] \notin D
    BY <1>1, <1>4, <2>2 DEF Replaced, RowsHeld
  <2> QED BY <2>1, <2>2
<1> QED BY <1>t, <1>2, <1>3, <1>4 DEF RowsHeld, OneRowEach, Instagram, Owns

LEMMA RequestAccounts ==
    ASSUME BasicInv, ClaimsHeld, RowsHeld, AccountsPaid, RequestNext
    PROVE  AccountsPaid'
<1>t. /\ WorldType /\ WorldType' /\ WorkersPlaced /\ torn \subseteq erased
      /\ UNCHANGED <<pc, target, subs>>
  <2>1. TypeOK' /\ UNCHANGED <<pc, target, subs>>
    BY RequestBasic DEF BasicInv, ApprovalTypeOK, runVars
  <2> QED BY <2>1, UserHalf DEF BasicInv, UserType, TypeOK, WorldType
<1>1. PICK D, N : Replaced(D, N) /\ NoFault
  BY RequestTurn
<1>2. ASSUME NEW t \in Instagram, Spent(t) PROVE Spent(t)'
  <2>1. CASE t \in torn /\ ~\E w \in Workers : target[w] = t /\ pc[w] \in Sending
    BY <1>t, <1>1, <2>1 DEF Spent, Replaced
  <2>2. CASE t \in D /\ t \notin erased
    <3>1. ASSUME NEW w \in Workers, target[w] = t, pc[w] \in Sending PROVE FALSE
      <4>1. pc[w] \in Early /\ pc[w] \in PreCommit
        BY <3>1 DEF Early, Sending
      <4>2. status[t] # "PUBLISHED"
        BY <2>2, <3>1, <4>1, OwnRow
      <4>3. \A v \in Workers : target[v] = t => pc[v] # "commit"
        BY <3>1, <4>1, OwnRow DEF Early, Sending, PreCommit
      <4> QED BY <1>2, <1>t, <2>2, <4>2, <4>3 DEF Spent
    <3>2. Worked(t)
      <4>1. CASE status[t] = "PUBLISHED"
        <5>1. Len(subs[t]) > 0
          BY <4>1 DEF RowsHeld
        <5> QED BY <5>1 DEF Worked
      <4>2. CASE \E w \in Workers : target[w] = t /\ pc[w] = "commit"
        BY <1>t, <4>2 DEF Worked, WorkersPlaced, Placed, Owns, PreCommit
      <4> QED BY <1>2, <1>t, <2>2, <4>1, <4>2 DEF Spent
    <3> QED BY <1>t, <1>1, <2>2, <3>1, <3>2 DEF Spent, Replaced
  <2>3. CASE t \notin D /\ t \notin erased
    <3>1. t \notin erased' /\ (status[t] = "PUBLISHED" => status'[t] = "PUBLISHED")
      BY <1>1, <2>3 DEF Replaced, Instagram
    <3> QED BY <1>2, <1>t, <2>3, <3>1 DEF Spent
  <2> QED BY <1>2, <2>1, <2>2, <2>3 DEF Spent
<1> QED BY <1>t, <1>1, <1>2, NothingSubmitted DEF NoFault

LEMMA InitAccounts == ApprovalInit => RowsHeld /\ AccountsPaid
<1> SUFFICES ASSUME ApprovalInit PROVE RowsHeld /\ AccountsPaid
  OBVIOUS
<1>1. /\ \A t \in Targets : /\ status[t] = IF t \in FirstRows THEN "PENDING" ELSE "ABSENT"
                            /\ subs[t] = <<>>
      /\ \A w \in Workers : pc[w] = "idle"
      /\ erased = {} /\ Faults = 0
  BY DEF ApprovalInit, InitialPosts, Faults
<1>2. OneRowEach
  BY <1>1, ApprovalAssumption DEF OneRowEach, Instagram
<1>3. RowsHeld
  BY <1>1, <1>2 DEF RowsHeld, Instagram
<1>4. ASSUME NEW R \in SUBSET Instagram
      PROVE  Cardinality(Accepted(R)) <= Faults + Cardinality(SpentOf(R))
  <2>1. \A t \in R : DOMAIN subs[t] = {}
    BY <1>1 DEF Instagram
  <2>2. Accepted(R) = {}
    BY <2>1 DEF Accepted
  <2> QED BY <1>1, <2>2, FS_EmptySet, SpentFinite
<1> QED BY <1>3, <1>4 DEF AccountsPaid

\* Edits and approvals replace the rows of a post under the passes that publish
\* them, and still an account is posted to once, plus once per fault and per row
\* that the user took off the post after an execution had begun with it.
THEOREM AccountsOnce == ApprovalSpec => []AccountsPostedOnce
<1>1. /\ BasicInv /\ ClaimsHeld /\ RowsHeld /\ AccountsPaid /\ [ApprovalNext]_allVars
      => RowsHeld' /\ AccountsPaid'
  <2>1. ASSUME UNCHANGED allVars
        PROVE  (RowsHeld' <=> RowsHeld) /\ (AccountsPaid' <=> AccountsPaid)
    BY <2>1 DEF allVars, vars, userVars, RowsHeld, OneRowEach, Owns, AccountsPaid, Accepted,
       Faults, SpentOf, Spent
  <2> QED BY <2>1, EngineRows, EngineAccounts, RequestRows, RequestAccounts
       DEF ApprovalNext, Engine
<1>2. BasicInv /\ ClaimsHeld /\ RowsHeld /\ AccountsPaid => AccountsPostedOnce
  <2> SUFFICES ASSUME BasicInv, ClaimsHeld, RowsHeld, AccountsPaid,
                      NEW p \in Posts, NEW a \in Accounts
               PROVE  Cardinality(Accepted(RowsOf(p, a)))
                         <= 1 + Faults + Cardinality(RowsOf(p, a) \cap torn)
    BY DEF AccountsPostedOnce
  <2> DEFINE R == RowsOf(p, a)
             T == R \cap torn
  <2>1. /\ R \in SUBSET Instagram /\ IsFiniteSet(T)
        /\ \A s, t \in R : PostOf[s] = PostOf[t] /\ AccountOf[s] = AccountOf[t]
    <3>1. R \in SUBSET Instagram /\ \A s, t \in R : PostOf[s] = PostOf[t] /\ AccountOf[s] = AccountOf[t]
      BY DEF RowsOf, TargetsOf
    <3>2. T \in SUBSET Targets
      BY <3>1 DEF Instagram
    <3> QED BY <3>1, <3>2, TargetsAssumption, FS_Subset
  <2>2. /\ Faults \in Nat /\ Cardinality(T) \in Nat /\ Cardinality(SpentOf(R)) \in Nat
        /\ IsFiniteSet(Accepted(R)) /\ Cardinality(Accepted(R)) \in Nat
    <3>1. WorldType
      BY UserHalf DEF BasicInv
    <3>2. IsFiniteSet(Accepted(R))
      BY <2>1, <3>1, SubmissionsFinite DEF WorldType, Accepted
    <3> HIDE DEF R, T
    <3> QED BY <2>1, <3>1, <3>2, FaultsNat, SpentFinite, FS_CardinalityType
  <2>3. Cardinality(Accepted(R)) <= Faults + Cardinality(SpentOf(R))
    BY <2>1 DEF AccountsPaid
\* Of the rows that are spent and were not taken off, only one is there.
  <2>4. ASSUME NEW t \in SpentOf(R), t \notin torn
        PROVE  t \in R /\ status[t] # "ABSENT"
    <3>1. t \in R /\ t \in Instagram /\ Spent(t)
      BY <2>1 DEF SpentOf
    <3>2. ASSUME NEW w \in Workers, target[w] = t, pc[w] = "commit", t \notin erased
          PROVE  status[t] # "ABSENT"
      BY <3>1, <3>2, OwnRow DEF Early, PreCommit
    <3> QED BY <2>4, <3>1, <3>2 DEF Spent
  <2>5. \A s, t \in SpentOf(R) : s \notin torn /\ t \notin torn => s = t
    BY <2>1, <2>4 DEF RowsHeld, OneRowEach
  <2>6. \E y : SpentOf(R) \in SUBSET (T \cup {y})
    <3>1. SpentOf(R) \subseteq R
      BY DEF SpentOf
    <3>2. CASE \E y \in SpentOf(R) : y \notin torn
      BY <2>5, <3>1, <3>2
    <3>3. CASE \A y \in SpentOf(R) : y \in torn
      BY <3>1, <3>3
    <3> QED BY <3>2, <3>3
  <2>7. Cardinality(SpentOf(R)) <= Cardinality(T) + 1
    <3> HIDE DEF R, T
    <3> QED BY <2>1, <2>6, OneMore
  <2> HIDE DEF T
  <2>8. Cardinality(Accepted(R)) <= 1 + Faults + Cardinality(T)
    <3> HIDE DEF R
    <3> QED BY <2>2, <2>3, <2>7
  <2> QED BY <2>8 DEF T
<1> QED BY <1>1, <1>2, InitAccounts, BasicInvariant, ClaimsInvariant, PTL DEF ApprovalSpec

=============================================================================
