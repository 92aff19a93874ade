--------------------------- MODULE ConnectionsProofs ---------------------------
(***************************************************************************)
(* Proofs about module Connections: a consent screen is used once, an      *)
(* identity keeps its user, an account sits with its identity, the stored  *)
(* refresh token is the one TikTok accepts, and a brand keeps near its     *)
(* limit, for any number of users, accounts, consent screens and requests. *)
(***************************************************************************)
EXTENDS Connections, FiniteSetTheorems, TLAPS

\* The phases between a grant and the row it is for.
Granting == {"identifying", "creating", "linking", "looking", "counting", "upserting"}

\* A request in a phase holds what the phase works on; only a refresh holds a
\* row, and the row is there.
Placed(r) ==
  /\ ~At(r, "idle") /\ ~At(r, "refreshing") /\ ~At(r, "storing") => req[r].auth # None
  /\ req[r].auth # None => auth[req[r].auth].intent # "NONE"
  /\ At(r, "found") \/ At(r, "exchanging") => req[r].id = None
  /\ req[r].phase \in {"identifying", "creating", "linking", "refreshing", "storing"}
       => req[r].id \in TikToks
  /\ req[r].phase \in Granting => req[r].id \in Accounts
  /\ req[r].phase \in {"looking", "counting", "upserting"} => req[r].user \in Users
  /\ At(r, "linking") => auth[req[r].auth].intent = "LINK"
  /\ req[r].row => /\ req[r].phase \in {"refreshing", "storing"}
                   /\ Connected(req[r].id)
PlacedInv == /\ \A r \in Requests : Placed(r)
             /\ \A a \in Auths : auth[a].intent \in {"LINK", "INSTAGRAM"} => auth[a].user \in Users

\* Whoever is past the consumption of a transaction has used it up.
Consumed(r) ==
  ~At(r, "found") /\ req[r].auth # None /\ auth[req[r].auth].intent # "INSTAGRAM"
    => auth[req[r].auth].used

\* Unless two users met at an account, the user a request goes on with is the
\* one the account signs in as, or will be.
Agreed(r) ==
  req[r].id \in TikToks \ contested =>
    /\ At(r, "linking") => identity[req[r].id] \in {None, auth[req[r].auth].user}
    /\ req[r].phase \in {"looking", "counting", "upserting"}
         => req[r].user = identity[req[r].id]

\* The tokens of account t that requests and the row hold are no newer than
\* TikTok's.
TokensIssued(t) ==
  /\ \A r \in Requests : req[r].id = t => req[r].token <= current[t]
  /\ Connected(t) => account[t].token <= current[t]

\* A grant that is not stored yet has left the row out of date.
GrantsMislaid(t) ==
  \A r \in Requests : req[r].id = t /\ req[r].phase \in Granting => t \in mislaid

\* The newest token, until it is stored, is with the request that was given it.
Fetched(r) == req[r].phase \in Granting \/ (Rotates /\ At(r, "storing"))
OneHolder(t) ==
  \A r \in Requests :
    req[r].id = t /\ Fetched(r) /\ req[r].token = current[t] =>
      /\ Connected(t) => account[t].token # current[t]
      /\ \A s \in Requests \ {r} : req[s].id = t => req[s].token # current[t]

\* A refresh whose row was deleted holds a token of no use, or nothing is
\* claimed of the row.
SeveredRefresh(t) ==
  \A r \in Requests :
    req[r].id = t /\ At(r, "refreshing") /\ ~req[r].row /\ req[r].token = current[t]
      => ~Connected(t) \/ t \in mislaid

\* What a refresh is about to store is current, or nothing is claimed of it.
RefreshedIsCurrent(t) ==
  \A r \in Requests :
    req[r].id = t /\ At(r, "storing") /\ req[r].row /\ t \notin mislaid
      => req[r].token = current[t]

\* The row of account t, unless something is known to be out of date.
StoredIsCurrent(t) ==
  Connected(t) /\ t \notin mislaid /\ ~HeldToken(t) => account[t].token = current[t]

TokensInOrder(t) ==
  /\ TokensIssued(t) /\ GrantsMislaid(t) /\ OneHolder(t)
  /\ SeveredRefresh(t) /\ RefreshedIsCurrent(t) /\ StoredIsCurrent(t)
TokenInv == \A t \in TikToks : TokensInOrder(t)

ConsumedInv == TransactionUsedOnce /\ \A r \in Requests : Consumed(r)
AgreedInv   == AccountsFollowIdentity /\ \A r \in Requests : Agreed(r)

IInv == ConnectionsTypeOK /\ PlacedInv /\ ConsumedInv /\ AgreedInv /\ TokenInv

-----------------------------------------------------------------------------
\* Types.

\* A record given to one request changes that request only.
LEMMA OneRequest ==
  ASSUME ConnectionsTypeOK, NEW r \in Requests, NEW q \in ReqRec,
         req' = [req EXCEPT ![r] = q]
  PROVE  /\ req' \in [Requests -> ReqRec]
         /\ req'[r] = q
         /\ \A s \in Requests \ {r} : req'[s] = req[s]
BY DEF ConnectionsTypeOK

\* Advancing or finishing a request keeps it a request.
LEMMA GotoRequest ==
  ASSUME ConnectionsTypeOK, NEW r \in Requests, NEW p \in Phases, Goto(r, p)
  PROVE  /\ req' \in [Requests -> ReqRec]
         /\ req'[r] = [req[r] EXCEPT !.phase = p]
         /\ \A s \in Requests \ {r} : req'[s] = req[s]
<1>1. [req[r] EXCEPT !.phase = p] \in ReqRec
  BY DEF ConnectionsTypeOK, ReqRec
<1>2. req' = [req EXCEPT ![r] = [req[r] EXCEPT !.phase = p]]
  BY DEF Goto
<1> QED BY <1>1, <1>2, OneRequest

LEMMA FinishRequest ==
  ASSUME ConnectionsTypeOK, NEW r \in Requests, Finish(r)
  PROVE  /\ req' \in [Requests -> ReqRec]
         /\ req'[r] = Idle
         /\ \A s \in Requests \ {r} : req'[s] = req[s]
<1>1. Idle \in ReqRec
  BY ConnectionsAssumption DEF Idle, ReqRec, Phases
<1> QED BY <1>1, OneRequest DEF Finish

LEMMA InitType == ConnectionsInit => ConnectionsTypeOK
<1> SUFFICES ASSUME ConnectionsInit PROVE ConnectionsTypeOK
  OBVIOUS
<1>1. NoAuth \in AuthRec
  BY DEF NoAuth, AuthRec
<1>2. Idle \in ReqRec
  BY ConnectionsAssumption DEF Idle, ReqRec, Phases
<1> QED BY <1>1, <1>2, ConnectionsAssumption DEF ConnectionsInit, ConnectionsTypeOK

\* What a step may do to the consent screens: the intent and the user of one
\* that is open stay, and a transaction that is used up stays used.
ConsentsKept ==
  /\ auth' \in [Auths -> AuthRec]
  /\ \A a \in Auths :
       /\ auth[a].intent # "NONE" =>
            auth'[a].intent = auth[a].intent /\ auth'[a].user = auth[a].user
       /\ auth[a].intent # "INSTAGRAM" /\ auth[a].used => auth'[a].used
       /\ auth'[a].intent \in {"LINK", "INSTAGRAM"} =>
            auth'[a].user \in Users \/ (auth[a].intent # "NONE" /\ auth'[a].user = auth[a].user)

\* A consent screen that is opened stays one.
LEMMA ConsentOpened ==
  ASSUME NEW q \in AuthRec, NEW i \in {"LOGIN", "LINK", "INSTAGRAM"},
         NEW u \in Users \cup {None}
  PROVE  [q EXCEPT !.intent = i, !.user = u] \in AuthRec
BY DEF AuthRec

LEMMA ConsentStep ==
  ASSUME ConnectionsTypeOK, PlacedInv, [ConnectionsNext]_vars
  PROVE  ConsentsKept
<1> USE DEF ConnectionsTypeOK
<1>0. CASE UNCHANGED auth
  BY <1>0 DEF ConsentsKept, PlacedInv
<1>1. ASSUME NEW a \in Auths, NEW u \in Users \cup {None},
             NEW i \in {"LOGIN", "LINK", "INSTAGRAM"}, OpenConsent(a, i, u)
      PROVE  ConsentsKept
  <2>1. auth[a].intent = "NONE" /\ ~auth[a].used
    BY <1>1 DEF OpenConsent, NoAuth
  <2>2. i # "LOGIN" => u \in Users
    BY <1>1 DEF OpenConsent
  <2>3. auth' = [auth EXCEPT ![a] = [auth[a] EXCEPT !.intent = i, !.user = u]]
    BY <1>1 DEF OpenConsent
  <2>4. [auth[a] EXCEPT !.intent = i, !.user = u] \in AuthRec
    <3>1. auth[a] \in AuthRec
      OBVIOUS
    <3> HIDE DEF ConnectionsTypeOK
    <3> QED BY <3>1, ConsentOpened
  <2> QED BY <2>1, <2>2, <2>3, <2>4 DEF ConsentsKept, PlacedInv, AuthRec
<1>2. ASSUME NEW a \in Auths, Expire(a)
      PROVE  ConsentsKept
  <2>1. auth' = [auth EXCEPT ![a] = [auth[a] EXCEPT !.expired = TRUE]]
    BY <1>2 DEF Expire
  <2>2. [auth[a] EXCEPT !.expired = TRUE] \in AuthRec
    BY DEF AuthRec
  <2> QED BY <2>1, <2>2 DEF ConsentsKept, PlacedInv, AuthRec
<1>3. ASSUME NEW a \in Auths, ForgetCode(a)
      PROVE  ConsentsKept
  <2>1. auth' = [auth EXCEPT ![a] = [auth[a] EXCEPT !.used = FALSE]]
    BY <1>3 DEF ForgetCode
  <2>2. [auth[a] EXCEPT !.used = FALSE] \in AuthRec
    BY DEF AuthRec
  <2> QED BY <1>3, <2>1, <2>2 DEF ConsentsKept, PlacedInv, AuthRec, ForgetCode
<1>4. ASSUME NEW a \in Auths, auth' = [auth EXCEPT ![a].used = TRUE]
      PROVE  ConsentsKept
  <2>1. auth' = [auth EXCEPT ![a] = [auth[a] EXCEPT !.used = TRUE]]
    BY <1>4
  <2>2. [auth[a] EXCEPT !.used = TRUE] \in AuthRec
    BY DEF AuthRec
  <2> QED BY <2>1, <2>2 DEF ConsentsKept, PlacedInv, AuthRec
<1>5. ASSUME NEW a \in Auths, auth' = [auth EXCEPT ![a].granted = TRUE]
      PROVE  ConsentsKept
  <2>1. auth' = [auth EXCEPT ![a] = [auth[a] EXCEPT !.granted = TRUE]]
    BY <1>5
  <2>2. [auth[a] EXCEPT !.granted = TRUE] \in AuthRec
    BY DEF AuthRec
  <2> QED BY <2>1, <2>2 DEF ConsentsKept, PlacedInv, AuthRec
<1>6. ASSUME NEW r \in Requests, ~At(r, "idle"), ~At(r, "refreshing"), ~At(r, "storing")
      PROVE  req[r].auth \in Auths
  BY <1>6 DEF PlacedInv, Placed, ReqRec
<1>7. ASSUME NEW r \in Requests, Callback(r) PROVE ConsentsKept
  <2>1. CASE Consume(r)
    BY <2>1, <1>0, <1>4, <1>6 DEF Consume, At
  <2>2. ASSUME NEW i \in TikToks, NEW p \in BOOLEAN, ExchangeTikTok(r, i, p)
        PROVE  ConsentsKept
    BY <2>2, <1>5, <1>6 DEF ExchangeTikTok, At
  <2>3. ASSUME NEW i \in Instagrams, ExchangeInstagram(r, i) PROVE ConsentsKept
    BY <2>3, <1>5, <1>6 DEF ExchangeInstagram, At
  <2>4. CASE \/ ExchangeRefused(r) \/ ResolveLogin(r) \/ CreateUser(r) \/ CheckIdentity(r)
             \/ LinkIdentity(r) \/ LookForRow(r) \/ CountAccounts(r) \/ UpsertAccount(r)
    BY <2>4, <1>0 DEF ExchangeRefused, ResolveLogin, CreateUser, CheckIdentity,
                      LinkIdentity, LookForRow, CountAccounts, UpsertAccount
  <2> QED BY <1>7, <2>1, <2>2, <2>3, <2>4 DEF Callback
<1>8. ASSUME NEW r \in Requests, NEW a \in Auths, Receive(r, a) \/ ReceiveInstagram(r, a)
      PROVE  ConsentsKept
  BY <1>8, <1>0, <1>4 DEF Receive, ReceiveInstagram
<1>9. ASSUME NEW r \in Requests,
             (\E i \in TikToks : StartRefresh(r, i)) \/ Refresh(r) \/ RequestDies(r)
      PROVE  ConsentsKept
  BY <1>9, <1>0 DEF StartRefresh, Refresh, AskRefresh, StoreRefresh, RequestDies
<1>10. ASSUME NEW i \in Accounts, Disconnect(i) PROVE ConsentsKept
  BY <1>10, <1>0 DEF Disconnect
<1>11. CASE UNCHANGED vars
  BY <1>11, <1>0 DEF vars
<1> QED BY <1>1, <1>2, <1>3, <1>7, <1>8, <1>9, <1>10, <1>11 DEF ConnectionsNext

-----------------------------------------------------------------------------
\* What each step does to the request that takes it.

\* A request that has finished, or has not begun, is idle again.
LEMMA IdleType == Idle \in ReqRec
BY ConnectionsAssumption DEF Idle, ReqRec, Phases

\* What a step writes into a request keeps it a request.
LEMMA WithUser ==
  ASSUME NEW q \in ReqRec, NEW p \in Phases, NEW u \in Users
  PROVE  [q EXCEPT !.phase = p, !.user = u] \in ReqRec
BY DEF ReqRec

LEMMA WithToken ==
  ASSUME NEW q \in ReqRec, NEW p \in Phases, NEW n \in 0..MaxTokens
  PROVE  [q EXCEPT !.phase = p, !.token = n] \in ReqRec
BY DEF ReqRec

LEMMA WithAuth ==
  ASSUME NEW q \in ReqRec, NEW p \in Phases, NEW a \in Auths
  PROVE  [q EXCEPT !.phase = p, !.auth = a] \in ReqRec
BY DEF ReqRec

LEMMA WithTikTokGrant ==
  ASSUME NEW q \in ReqRec, NEW p \in Phases, NEW i \in Accounts,
         NEW n \in 0..MaxTokens, NEW b \in BOOLEAN
  PROVE  [q EXCEPT !.phase = p, !.id = i, !.token = n, !.publish = b] \in ReqRec
BY DEF ReqRec

LEMMA WithInstagramGrant ==
  ASSUME NEW q \in ReqRec, NEW p \in Phases, NEW i \in Accounts, NEW u \in Users
  PROVE  [q EXCEPT !.phase = p, !.id = i, !.user = u, !.publish = TRUE] \in ReqRec
BY DEF ReqRec

LEMMA WithRow ==
  ASSUME NEW q \in ReqRec, NEW p \in Phases, NEW i \in Accounts, NEW n \in 0..MaxTokens
  PROVE  [q EXCEPT !.phase = p, !.id = i, !.token = n, !.row = TRUE] \in ReqRec
BY DEF ReqRec

LEMMA PhaseNames ==
  {"found", "exchanging", "identifying", "looking", "refreshing", "storing"} \subseteq Phases
BY DEF Phases

\* The request of a step that touches one request holds q afterwards.
Becomes(r, q) ==
  /\ req' \in [Requests -> ReqRec]
  /\ req'[r] = q
  /\ \A s \in Requests \ {r} : req'[s] = req[s]

LEMMA ReceiveEffect ==
  ASSUME ConnectionsTypeOK, NEW r \in Requests, NEW a \in Auths,
         Receive(r, a) \/ ReceiveInstagram(r, a)
  PROVE  \/ Receive(r, a) /\ Becomes(r, [Idle EXCEPT !.phase = "found", !.auth = a])
         \/ ReceiveInstagram(r, a)
              /\ Becomes(r, [Idle EXCEPT !.phase = "exchanging", !.auth = a])
<1>1. CASE Receive(r, a)
  <2>1. [Idle EXCEPT !.phase = "found", !.auth = a] \in ReqRec
    BY IdleType, PhaseNames, WithAuth
  <2> QED BY <1>1, <2>1, OneRequest DEF Receive, Becomes
<1>2. CASE ReceiveInstagram(r, a)
  <2>1. [Idle EXCEPT !.phase = "exchanging", !.auth = a] \in ReqRec
    BY IdleType, PhaseNames, WithAuth
  <2> QED BY <1>2, <2>1, OneRequest DEF ReceiveInstagram, Becomes
<1> QED BY <1>1, <1>2

LEMMA ExchangeTikTokEffect ==
  ASSUME ConnectionsTypeOK, NEW r \in Requests, NEW i \in TikToks, NEW p \in BOOLEAN,
         ExchangeTikTok(r, i, p)
  PROVE  /\ Becomes(r, [req[r] EXCEPT !.phase = "identifying", !.id = i,
                                      !.token = current[i] + 1, !.publish = p])
         /\ current' \in [TikToks -> 0..MaxTokens]
         /\ current'[i] = current[i] + 1
         /\ \A t \in TikToks \ {i} : current'[t] = current[t]
<1>1. /\ current[i] \in 0..MaxTokens /\ current[i] + 1 \in 0..MaxTokens
      /\ current' = [current EXCEPT ![i] = current[i] + 1]
  BY ConnectionsAssumption DEF ConnectionsTypeOK, ExchangeTikTok
<1>2. /\ current' \in [TikToks -> 0..MaxTokens]
      /\ current'[i] = current[i] + 1
      /\ \A t \in TikToks \ {i} : current'[t] = current[t]
  BY <1>1 DEF ConnectionsTypeOK
<1>3. [req[r] EXCEPT !.phase = "identifying", !.id = i, !.token = current[i] + 1,
                     !.publish = p] \in ReqRec
  <2>1. req[r] \in ReqRec /\ i \in Accounts
    BY DEF ConnectionsTypeOK, Accounts
  <2> QED BY <1>1, <2>1, PhaseNames, WithTikTokGrant
<1>4. req' = [req EXCEPT ![r] = [req[r] EXCEPT !.phase = "identifying", !.id = i,
                                 !.token = current[i] + 1, !.publish = p]]
  BY <1>2 DEF ExchangeTikTok
<1> QED BY <1>2, <1>3, <1>4, OneRequest DEF Becomes

LEMMA ExchangeInstagramEffect ==
  ASSUME ConnectionsTypeOK, PlacedInv, NEW r \in Requests, NEW i \in Instagrams,
         ExchangeInstagram(r, i)
  PROVE  /\ Becomes(r, [req[r] EXCEPT !.phase = "looking", !.id = i,
                          !.user = auth[req[r].auth].user, !.publish = TRUE])
         /\ auth[req[r].auth].user \in Users
<1>1. auth[req[r].auth].user \in Users
  BY DEF ConnectionsTypeOK, PlacedInv, Placed, ReqRec, ExchangeInstagram, At
<1>2. [req[r] EXCEPT !.phase = "looking", !.id = i, !.user = auth[req[r].auth].user,
                     !.publish = TRUE] \in ReqRec
  <2>1. req[r] \in ReqRec /\ i \in Accounts
    BY DEF ConnectionsTypeOK, Accounts
  <2> QED BY <1>1, <2>1, PhaseNames, WithInstagramGrant
<1>3. req' = [req EXCEPT ![r] = [req[r] EXCEPT !.phase = "looking", !.id = i,
                                 !.user = auth[req[r].auth].user, !.publish = TRUE]]
  BY DEF ExchangeInstagram
<1> QED BY <1>1, <1>2, <1>3, OneRequest DEF Becomes

LEMMA ConsumeEffect ==
  ASSUME ConnectionsTypeOK, NEW r \in Requests, Consume(r)
  PROVE  \/ auth[req[r].auth].used /\ UNCHANGED auth /\ Becomes(r, Idle)
         \/ /\ ~auth[req[r].auth].used /\ auth' = [auth EXCEPT ![req[r].auth].used = TRUE]
            /\ Becomes(r, [req[r] EXCEPT !.phase = "exchanging"])
BY GotoRequest, FinishRequest DEF Consume, Becomes, Phases

LEMMA ResolveLoginEffect ==
  ASSUME ConnectionsTypeOK, PlacedInv, NEW r \in Requests, ResolveLogin(r)
  PROVE  \/ Becomes(r, [req[r] EXCEPT !.phase = "creating"])
         \/ /\ identity[req[r].id] \in Users
            /\ Becomes(r, [req[r] EXCEPT !.phase = "looking", !.user = identity[req[r].id]])
<1>1. req[r].id \in TikToks
  BY DEF PlacedInv, Placed, ResolveLogin, At
<1>2. CASE identity[req[r].id] = None
  BY <1>2, GotoRequest DEF ResolveLogin, Becomes, Phases
<1>3. CASE identity[req[r].id] # None
  <2>1. identity[req[r].id] \in Users
    BY <1>1, <1>3 DEF ConnectionsTypeOK
  <2>2. [req[r] EXCEPT !.phase = "looking", !.user = identity[req[r].id]] \in ReqRec
    <3>1. req[r] \in ReqRec
      BY DEF ConnectionsTypeOK
    <3> QED BY <2>1, <3>1, PhaseNames, WithUser
  <2>3. req' = [req EXCEPT ![r] = [req[r] EXCEPT !.phase = "looking",
                                                 !.user = identity[req[r].id]]]
    BY <1>3 DEF ResolveLogin
  <2> QED BY <2>1, <2>2, <2>3, OneRequest DEF Becomes
<1> QED BY <1>2, <1>3

\* The identity of account i is u from now on.
Signs(i, u) ==
  /\ identity' \in [TikToks -> Users \cup {None}]
  /\ identity'[i] = u
  /\ \A t \in TikToks \ {i} : identity'[t] = identity[t]

LEMMA CreateUserEffect ==
  ASSUME ConnectionsTypeOK, PlacedInv, NEW r \in Requests, CreateUser(r)
  PROVE  \E u \in Users :
           /\ req[r].id \in TikToks
           /\ u = IF identity[req[r].id] = None THEN req[r].id ELSE identity[req[r].id]
           /\ Signs(req[r].id, u)
           /\ Becomes(r, [req[r] EXCEPT !.phase = "looking", !.user = u])
           /\ contested' = Contested(r, req[r].id)
<1> DEFINE i == req[r].id
           u == IF identity[i] = None THEN i ELSE identity[i]
<1>1. i \in TikToks
  BY DEF PlacedInv, Placed, CreateUser, At
<1>2. u \in Users
  BY <1>1 DEF ConnectionsTypeOK, Users
<1>3. [req[r] EXCEPT !.phase = "looking", !.user = u] \in ReqRec
  <2>1. req[r] \in ReqRec
    BY DEF ConnectionsTypeOK
  <2> QED BY <1>2, <2>1, PhaseNames, WithUser
<1>4. req' = [req EXCEPT ![r] = [req[r] EXCEPT !.phase = "looking", !.user = u]]
  BY DEF CreateUser
<1>5. identity' = [identity EXCEPT ![i] = u] /\ contested' = Contested(r, i)
  BY DEF CreateUser
<1>6. Signs(i, u)
  BY <1>1, <1>2, <1>5 DEF Signs, ConnectionsTypeOK
<1>7. Becomes(r, [req[r] EXCEPT !.phase = "looking", !.user = u])
  BY <1>3, <1>4, OneRequest DEF Becomes
<1> QED BY <1>1, <1>2, <1>5, <1>6, <1>7

LEMMA CheckIdentityEffect ==
  ASSUME ConnectionsTypeOK, NEW r \in Requests, CheckIdentity(r)
  PROVE  \/ /\ identity[req[r].id] \in {None, auth[req[r].auth].user}
            /\ Becomes(r, [req[r] EXCEPT !.phase = "linking"])
         \/ Becomes(r, Idle)
BY GotoRequest, FinishRequest DEF CheckIdentity, Becomes, Phases

LEMMA LinkIdentityEffect ==
  ASSUME ConnectionsTypeOK, PlacedInv, NEW r \in Requests, LinkIdentity(r)
  PROVE  LET i == req[r].id
             u == auth[req[r].auth].user
         IN  /\ i \in TikToks /\ u \in Users
             /\ Signs(i, IF identity[i] = None THEN u ELSE identity[i])
             /\ Becomes(r, [req[r] EXCEPT !.phase = "looking", !.user = u])
             /\ contested' = Contested(r, i)
<1> DEFINE i == req[r].id
           u == auth[req[r].auth].user
<1>1. i \in TikToks /\ req[r].auth \in Auths /\ auth[req[r].auth].intent = "LINK"
  BY DEF ConnectionsTypeOK, PlacedInv, Placed, LinkIdentity, At, ReqRec
<1>2. u \in Users
  BY <1>1 DEF PlacedInv
<1>3. [req[r] EXCEPT !.phase = "looking", !.user = u] \in ReqRec
  <2>1. req[r] \in ReqRec
    BY DEF ConnectionsTypeOK
  <2> QED BY <1>2, <2>1, PhaseNames, WithUser
<1>4. req' = [req EXCEPT ![r] = [req[r] EXCEPT !.phase = "looking", !.user = u]]
  BY DEF LinkIdentity
<1>5. identity' = [identity EXCEPT ![i] = IF identity[i] = None THEN u ELSE identity[i]]
      /\ contested' = Contested(r, i)
  BY DEF LinkIdentity, OwnerAfterLink
<1>6. Signs(i, IF identity[i] = None THEN u ELSE identity[i])
  BY <1>1, <1>2, <1>5 DEF Signs, ConnectionsTypeOK
<1>7. Becomes(r, [req[r] EXCEPT !.phase = "looking", !.user = u])
  BY <1>3, <1>4, OneRequest DEF Becomes
<1> QED BY <1>1, <1>2, <1>5, <1>6, <1>7

LEMMA LookForRowEffect ==
  ASSUME ConnectionsTypeOK, NEW r \in Requests, LookForRow(r) \/ CountAccounts(r)
  PROVE  \/ Becomes(r, [req[r] EXCEPT !.phase = "upserting"])
         \/ At(r, "looking") /\ Becomes(r, [req[r] EXCEPT !.phase = "counting"])
         \/ Becomes(r, Idle)
<1>1. CASE LookForRow(r)
  BY <1>1, GotoRequest DEF LookForRow, Becomes, Phases
<1>2. CASE CountAccounts(r)
  BY <1>2, GotoRequest, FinishRequest DEF CountAccounts, Becomes, Phases
<1> QED BY <1>1, <1>2

\* Account i has the row w from now on, and no other row changes.
Holds(i, w) ==
  /\ account' \in [Accounts -> RowRec \cup {None}]
  /\ account'[i] = w
  /\ \A t \in Accounts \ {i} : account'[t] = account[t]

LEMMA UpsertAccountEffect ==
  ASSUME ConnectionsTypeOK, PlacedInv, NEW r \in Requests, UpsertAccount(r)
  PROVE  /\ req[r].id \in Accounts
         /\ req[r].user \in Users
         /\ RowAfterConnect(req[r].id, req[r]) \in RowRec
         /\ Holds(req[r].id, RowAfterConnect(req[r].id, req[r]))
         /\ Becomes(r, Idle)
<1>1. req[r].id \in Accounts /\ req[r].user \in Users
  BY DEF PlacedInv, Placed, UpsertAccount, At, Granting
<1>2. RowAfterConnect(req[r].id, req[r]) \in RowRec
  BY <1>1 DEF RowAfterConnect, RowRec, Connected, ConnectionsTypeOK, ReqRec
<1>3. Holds(req[r].id, RowAfterConnect(req[r].id, req[r]))
  BY <1>1, <1>2 DEF UpsertAccount, Holds, ConnectionsTypeOK
<1> QED BY <1>1, <1>2, <1>3, FinishRequest DEF UpsertAccount, Becomes

LEMMA StartRefreshEffect ==
  ASSUME ConnectionsTypeOK, NEW r \in Requests, NEW i \in TikToks, StartRefresh(r, i)
  PROVE  /\ account[i] \in RowRec
         /\ Becomes(r, [Idle EXCEPT !.phase = "refreshing", !.id = i,
                          !.token = account[i].token, !.row = TRUE])
<1>1. account[i] \in RowRec
  BY DEF ConnectionsTypeOK, StartRefresh, Connected, Accounts
<1>2. [Idle EXCEPT !.phase = "refreshing", !.id = i, !.token = account[i].token,
                   !.row = TRUE] \in ReqRec
  <2>1. account[i].token \in 0..MaxTokens /\ i \in Accounts
    BY <1>1 DEF RowRec, Accounts
  <2> QED BY <2>1, IdleType, PhaseNames, WithRow
<1> QED BY <1>1, <1>2, OneRequest DEF StartRefresh, Becomes

LEMMA AskRefreshEffect ==
  ASSUME ConnectionsTypeOK, PlacedInv, NEW r \in Requests, AskRefresh(r)
  PROVE  /\ req[r].id \in TikToks
         /\ \/ req[r].token # current[req[r].id] /\ UNCHANGED current /\ Becomes(r, Idle)
            \/ /\ req[r].token = current[req[r].id]
               /\ current' \in [TikToks -> 0..MaxTokens]
               /\ current'[req[r].id] = IF Rotates THEN current[req[r].id] + 1
                                                   ELSE current[req[r].id]
               /\ \A t \in TikToks \ {req[r].id} : current'[t] = current[t]
               /\ Becomes(r, [req[r] EXCEPT !.phase = "storing",
                                            !.token = current'[req[r].id]])
<1> DEFINE i == req[r].id
           n == IF Rotates THEN current[i] + 1 ELSE current[i]
<1>1. i \in TikToks
  BY DEF PlacedInv, Placed, AskRefresh, At
<1>2. CASE req[r].token # current[i]
  BY <1>1, <1>2, FinishRequest DEF AskRefresh, Becomes
<1>3. CASE req[r].token = current[i]
  <2>1. current' = [current EXCEPT ![i] = n] /\ n \in 0..MaxTokens
    BY <1>1, <1>3, ConnectionsAssumption DEF AskRefresh, ConnectionsTypeOK
  <2>2. /\ current' \in [TikToks -> 0..MaxTokens] /\ current'[i] = n
        /\ \A t \in TikToks \ {i} : current'[t] = current[t]
    BY <1>1, <2>1 DEF ConnectionsTypeOK
  <2>3. [req[r] EXCEPT !.phase = "storing", !.token = current'[i]] \in ReqRec
    <3>1. current'[i] \in 0..MaxTokens
      BY <1>1, <2>2
    <3>2. req[r] \in ReqRec
      BY DEF ConnectionsTypeOK
    <3> QED BY <3>1, <3>2, PhaseNames, WithToken
  <2>4. req' = [req EXCEPT ![r] = [req[r] EXCEPT !.phase = "storing", !.token = current'[i]]]
    BY <1>3 DEF AskRefresh
  <2>5. Becomes(r, [req[r] EXCEPT !.phase = "storing", !.token = current'[i]])
    BY <2>3, <2>4, OneRequest DEF Becomes
  <2> QED BY <1>1, <1>3, <2>2, <2>5
<1> QED BY <1>2, <1>3

LEMMA StoreRefreshEffect ==
  ASSUME ConnectionsTypeOK, PlacedInv, NEW r \in Requests, StoreRefresh(r)
  PROVE  /\ req[r].id \in TikToks
         /\ Becomes(r, Idle)
         /\ \/ ~req[r].row /\ UNCHANGED account
            \/ /\ req[r].row /\ account[req[r].id] \in RowRec
               /\ [account[req[r].id] EXCEPT !.token = req[r].token] \in RowRec
               /\ Holds(req[r].id, [account[req[r].id] EXCEPT !.token = req[r].token])
<1> DEFINE i == req[r].id
<1>1. i \in TikToks /\ (req[r].row => Connected(i))
  BY DEF PlacedInv, Placed, StoreRefresh, At
<1>2. Becomes(r, Idle)
  BY FinishRequest DEF StoreRefresh, Becomes
<1>3. CASE ~req[r].row
  BY <1>1, <1>2, <1>3 DEF StoreRefresh
<1>4. CASE req[r].row
  <2>1. account[i] \in RowRec
    BY <1>1, <1>4 DEF Connected, ConnectionsTypeOK, Accounts
  <2>2. [account[i] EXCEPT !.token = req[r].token] \in RowRec
    BY <2>1 DEF RowRec, ConnectionsTypeOK, ReqRec
  <2>3. account' = [account EXCEPT ![i] = [account[i] EXCEPT !.token = req[r].token]]
    BY <1>4 DEF StoreRefresh, StoredToken
  <2>4. Holds(i, [account[i] EXCEPT !.token = req[r].token])
    BY <1>1, <2>2, <2>3 DEF Holds, ConnectionsTypeOK, Accounts
  <2> QED BY <1>1, <1>2, <1>4, <2>1, <2>2, <2>4
<1> QED BY <1>3, <1>4 DEF ConnectionsTypeOK, ReqRec

LEMMA DisconnectEffect ==
  ASSUME ConnectionsTypeOK, NEW i \in Accounts, Disconnect(i)
  PROVE  /\ Holds(i, None)
         /\ req' \in [Requests -> ReqRec]
         /\ \A r \in Requests : IF req[r].id = i THEN req'[r] = [req[r] EXCEPT !.row = FALSE]
                                                 ELSE req'[r] = req[r]
<1>1. Holds(i, None)
  BY DEF Disconnect, Holds, ConnectionsTypeOK
<1>2. ASSUME NEW r \in Requests PROVE [req[r] EXCEPT !.row = FALSE] \in ReqRec
  BY DEF ConnectionsTypeOK, ReqRec
<1> QED BY <1>1, <1>2 DEF Disconnect, ConnectionsTypeOK

-----------------------------------------------------------------------------
\* Types hold in every step.  Each effect gives the types of what it changes.

LEMMA TypeStep ==
  ASSUME ConnectionsTypeOK, PlacedInv, [ConnectionsNext]_vars
  PROVE  ConnectionsTypeOK'
<1>0. auth' \in [Auths -> AuthRec]
  BY ConsentStep DEF ConsentsKept
<1> SUFFICES /\ identity' \in [TikToks -> Users \cup {None}]
             /\ account' \in [Accounts -> RowRec \cup {None}]
             /\ current' \in [TikToks -> 0..MaxTokens]
             /\ req' \in [Requests -> ReqRec]
             /\ mislaid' \subseteq TikToks
             /\ contested' \subseteq TikToks /\ moved' \subseteq Accounts
             /\ faults' \in 0..MaxFaults
  BY <1>0 DEF ConnectionsTypeOK
<1>1. CASE UNCHANGED <<identity, account, current, req, mislaid, contested, moved, faults>>
  BY <1>1 DEF ConnectionsTypeOK
<1>2. ASSUME NEW a \in Auths, NEW u \in Users \cup {None},
             NEW i \in {"LOGIN", "LINK", "INSTAGRAM"},
             OpenConsent(a, i, u) \/ Expire(a) \/ ForgetCode(a)
      PROVE  UNCHANGED <<identity, account, current, req, mislaid, contested, moved, faults>>
  BY <1>2 DEF OpenConsent, Expire, ForgetCode
<1>3. CASE \E r \in Requests, a \in Auths : Receive(r, a) \/ ReceiveInstagram(r, a)
  BY <1>3, ReceiveEffect DEF ConnectionsTypeOK, Becomes, Receive, ReceiveInstagram
<1>4. CASE \E r \in Requests, i \in TikToks : StartRefresh(r, i)
  BY <1>4, StartRefreshEffect DEF ConnectionsTypeOK, Becomes, StartRefresh
<1>5. ASSUME NEW r \in Requests, Callback(r)
      PROVE  /\ identity' \in [TikToks -> Users \cup {None}]
             /\ account' \in [Accounts -> RowRec \cup {None}]
             /\ current' \in [TikToks -> 0..MaxTokens]
             /\ req' \in [Requests -> ReqRec]
             /\ mislaid' \subseteq TikToks
             /\ contested' \subseteq TikToks /\ moved' \subseteq Accounts
             /\ faults' \in 0..MaxFaults
  <2>1. CASE Consume(r)
    BY <2>1, ConsumeEffect DEF ConnectionsTypeOK, Becomes, Consume
  <2>2. CASE ExchangeRefused(r)
    BY <2>2, FinishRequest DEF ConnectionsTypeOK, ExchangeRefused
  <2>3. CASE \E i \in TikToks, p \in BOOLEAN : ExchangeTikTok(r, i, p)
    BY <2>3, ExchangeTikTokEffect DEF ConnectionsTypeOK, Becomes, ExchangeTikTok
  <2>4. CASE \E i \in Instagrams : ExchangeInstagram(r, i)
    BY <2>4, ExchangeInstagramEffect DEF ConnectionsTypeOK, Becomes, ExchangeInstagram
  <2>5. CASE ResolveLogin(r)
    BY <2>5, ResolveLoginEffect DEF ConnectionsTypeOK, Becomes, ResolveLogin
  <2>6. CASE CreateUser(r)
    <3>1. req[r].id \in TikToks /\ contested' = Contested(r, req[r].id)
      BY <2>6, CreateUserEffect
    <3>2. identity' \in [TikToks -> Users \cup {None}] /\ req' \in [Requests -> ReqRec]
      BY <2>6, CreateUserEffect DEF Signs, Becomes
    <3>3. UNCHANGED <<account, current, mislaid, moved, faults>>
      BY <2>6 DEF CreateUser
    <3> QED BY <3>1, <3>2, <3>3 DEF ConnectionsTypeOK, Contested
  <2>7. CASE CheckIdentity(r)
    BY <2>7, CheckIdentityEffect DEF ConnectionsTypeOK, Becomes, CheckIdentity
  <2>8. CASE LinkIdentity(r)
    <3>1. req[r].id \in TikToks /\ contested' = Contested(r, req[r].id)
      BY <2>8, LinkIdentityEffect
    <3>2. identity' \in [TikToks -> Users \cup {None}] /\ req' \in [Requests -> ReqRec]
      BY <2>8, LinkIdentityEffect DEF Signs, Becomes
    <3>3. UNCHANGED <<account, current, mislaid, moved, faults>>
      BY <2>8 DEF LinkIdentity
    <3> QED BY <3>1, <3>2, <3>3 DEF ConnectionsTypeOK, Contested
  <2>9. CASE LookForRow(r) \/ CountAccounts(r)
    BY <2>9, LookForRowEffect DEF ConnectionsTypeOK, Becomes, LookForRow, CountAccounts
  <2>10. CASE UpsertAccount(r)
    BY <2>10, UpsertAccountEffect DEF ConnectionsTypeOK, Becomes, UpsertAccount, Holds
  <2> QED BY <1>5, <2>1, <2>2, <2>3, <2>4, <2>5, <2>6, <2>7, <2>8, <2>9, <2>10
          DEF Callback
<1>6. CASE \E r \in Requests : AskRefresh(r)
  BY <1>6, AskRefreshEffect DEF ConnectionsTypeOK, Becomes, AskRefresh
<1>7. CASE \E r \in Requests : StoreRefresh(r)
  BY <1>7, StoreRefreshEffect DEF ConnectionsTypeOK, Becomes, StoreRefresh, Holds
<1>8. ASSUME NEW r \in Requests, RequestDies(r)
      PROVE  /\ req' \in [Requests -> ReqRec]
             /\ mislaid' \subseteq TikToks
             /\ faults' \in 0..MaxFaults
             /\ UNCHANGED <<identity, account, current, contested, moved>>
  <2>1. At(r, "storing") => req[r].id \in TikToks
    BY DEF PlacedInv, Placed, At
  <2>2. faults' \in 0..MaxFaults
    BY <1>8, ConnectionsAssumption DEF RequestDies, ConnectionsTypeOK
  <2> QED BY <1>8, <2>1, <2>2, FinishRequest DEF RequestDies, ConnectionsTypeOK
<1>9. CASE \E i \in Accounts : Disconnect(i)
  BY <1>9, DisconnectEffect DEF ConnectionsTypeOK, Disconnect, Holds, Moved
<1>10. CASE UNCHANGED vars
  BY <1>10, <1>1 DEF vars
<1> QED BY <1>1, <1>2, <1>3, <1>4, <1>5, <1>6, <1>7, <1>8, <1>9, <1>10
        DEF ConnectionsNext, Refresh, ConnectionsTypeOK

\* A request that a step leaves alone stays placed, as long as no row it is
\* at work on is deleted.
LEMMA OthersPlaced ==
  ASSUME ConnectionsTypeOK, PlacedInv, ConsentsKept, NEW s \in Requests, req'[s] = req[s],
         req[s].row => account'[req[s].id] # None
  PROVE  Placed(s)'
<1>1. req[s].auth # None => req[s].auth \in Auths
  BY DEF ConnectionsTypeOK, ReqRec
<1> QED BY <1>1 DEF PlacedInv, Placed, ConsentsKept, At, Connected

LEMMA IdlePlaced ==
  ASSUME NEW s \in Requests, req'[s] = Idle
  PROVE  Placed(s)'
BY DEF Placed, Idle, At, Granting

\* A request that goes on with the consent screen it holds is placed when the
\* account and the user it goes on with are.
LEMMA MovedPlaced ==
  ASSUME ConnectionsTypeOK, PlacedInv, ConsentsKept, NEW s \in Requests,
         ~At(s, "idle"), ~At(s, "refreshing"), ~At(s, "storing"),
         req'[s].auth = req[s].auth, req'[s].row = req[s].row,
         req'[s].phase \in Granting \cup {"exchanging"},
         req'[s].phase = "exchanging" => req'[s].id = None,
         req'[s].phase \in {"identifying", "creating", "linking"} => req'[s].id \in TikToks,
         req'[s].phase \in Granting => req'[s].id \in Accounts,
         req'[s].phase \in {"looking", "counting", "upserting"} => req'[s].user \in Users,
         req'[s].phase = "linking" => auth[req[s].auth].intent = "LINK"
  PROVE  Placed(s)'
<1>1. req[s].auth \in Auths /\ auth[req[s].auth].intent # "NONE"
  BY DEF ConnectionsTypeOK, ReqRec, PlacedInv, Placed
<1>2. auth'[req[s].auth].intent = auth[req[s].auth].intent
  BY <1>1 DEF ConsentsKept
<1>3. ~req[s].row
  BY DEF PlacedInv, Placed, At
<1> QED BY <1>1, <1>2, <1>3, ConnectionsAssumption DEF Placed, At, Granting

LEMMA PlacedStep ==
  ASSUME ConnectionsTypeOK, PlacedInv, [ConnectionsNext]_vars
  PROVE  PlacedInv'
<1>0. ConsentsKept
  BY ConsentStep
<1>t. ConnectionsTypeOK'
  BY TypeStep
<1>a. (\A a \in Auths : auth[a].intent \in {"LINK", "INSTAGRAM"} => auth[a].user \in Users)'
  BY <1>0 DEF ConsentsKept, PlacedInv
<1> SUFFICES ASSUME NEW s \in Requests PROVE Placed(s)'
  BY <1>a DEF PlacedInv
<1>1. CASE UNCHANGED <<account, req>>
  BY <1>0, <1>1, OthersPlaced DEF PlacedInv, Placed, Connected
<1>2. ASSUME NEW a \in Auths, NEW u \in Users \cup {None},
             NEW i \in {"LOGIN", "LINK", "INSTAGRAM"},
             OpenConsent(a, i, u) \/ Expire(a) \/ ForgetCode(a)
      PROVE  UNCHANGED <<account, req>>
  BY <1>2 DEF OpenConsent, Expire, ForgetCode
\* A step of request r that deletes no row leaves the others placed.
<1>o. ASSUME NEW r \in Requests, r # s, req'[s] = req[s],
             \A i \in Accounts : account[i] # None => account'[i] # None
      PROVE  Placed(s)'
  <2>1. req[s].row => req[s].id \in Accounts /\ account[req[s].id] # None
    BY DEF PlacedInv, Placed, Connected, Accounts
  <2> QED BY <1>0, <1>o, <2>1, OthersPlaced
<1>3. ASSUME NEW r \in Requests, NEW a \in Auths, Receive(r, a) \/ ReceiveInstagram(r, a)
      PROVE  Placed(s)'
  <2>1. account' = account
    BY <1>3 DEF Receive, ReceiveInstagram
  <2>2. CASE s = r
    <3>0. \/ Becomes(r, [Idle EXCEPT !.phase = "found", !.auth = a])
          \/ Becomes(r, [Idle EXCEPT !.phase = "exchanging", !.auth = a])
      BY <1>3, ReceiveEffect
    <3>1. /\ req'[s].phase \in {"found", "exchanging"} /\ req'[s].auth = a
          /\ req'[s].id = None /\ req'[s].row = FALSE
      BY <2>2, <3>0 DEF Becomes, Idle
    <3>2. auth'[a].intent # "NONE"
      BY <1>0, <1>3 DEF Receive, ReceiveInstagram, ConsentsKept
    <3> QED BY <3>1, <3>2, ConnectionsAssumption DEF Placed, At, Granting
  <2>3. CASE s # r
    BY <1>3, <1>o, <2>1, <2>3, ReceiveEffect DEF Becomes
  <2> QED BY <2>2, <2>3
<1>4. ASSUME NEW r \in Requests, NEW i \in TikToks, StartRefresh(r, i)
      PROVE  Placed(s)'
  <2>1. account' = account /\ Connected(i)
    BY <1>4 DEF StartRefresh
  <2>2. CASE s = r
    <3>1. /\ req'[s].phase = "refreshing" /\ req'[s].auth = None /\ req'[s].id = i
      <4>1. Becomes(r, [Idle EXCEPT !.phase = "refreshing", !.id = i,
                          !.token = account[i].token, !.row = TRUE])
        BY <1>4, StartRefreshEffect
      <4> QED BY <2>2, <4>1 DEF Becomes, Idle
    <3> QED BY <2>1, <3>1 DEF Placed, At, Granting, Connected
  <2>3. CASE s # r
    BY <1>4, <1>o, <2>1, <2>3, StartRefreshEffect DEF Becomes
  <2> QED BY <2>2, <2>3
<1>5. ASSUME NEW r \in Requests, Callback(r)
      PROVE  Placed(s)'
  <2>r. req[r] \in ReqRec
    BY DEF ConnectionsTypeOK
  <2>1. CASE Consume(r)
    <3>1. account' = account /\ At(r, "found")
      BY <2>1 DEF Consume
    <3>2. CASE s = r
      <4>1. CASE Becomes(r, Idle)
        BY <3>2, <4>1, IdlePlaced DEF Becomes
      <4>2. CASE Becomes(r, [req[r] EXCEPT !.phase = "exchanging"])
        <5>1. /\ req'[s].phase = "exchanging" /\ req'[s].id = req[s].id
              /\ req'[s].auth = req[s].auth /\ req'[s].row = req[s].row
          BY <2>r, <3>2, <4>2 DEF Becomes, ReqRec
        <5>2. req[s].id = None
          BY <3>1, <3>2 DEF PlacedInv, Placed
        <5> QED BY <1>0, <3>1, <3>2, <5>1, <5>2, MovedPlaced DEF At, Granting
      <4> QED BY <2>1, <4>1, <4>2, ConsumeEffect
    <3>3. CASE s # r
      BY <1>o, <2>1, <3>1, <3>3, ConsumeEffect DEF Becomes
    <3> QED BY <3>2, <3>3
  <2>2. CASE ExchangeRefused(r)
    BY <1>o, <2>2, FinishRequest, IdlePlaced DEF ExchangeRefused
  <2>3. ASSUME NEW i \in TikToks, NEW p \in BOOLEAN, ExchangeTikTok(r, i, p)
        PROVE  Placed(s)'
    <3>1. account' = account /\ At(r, "exchanging")
      BY <2>3 DEF ExchangeTikTok
    <3>2. CASE s = r
      <4>1. /\ req'[s].phase = "identifying" /\ req'[s].id = i
            /\ req'[s].auth = req[s].auth /\ req'[s].row = req[s].row
        <5>1. Becomes(r, [req[r] EXCEPT !.phase = "identifying", !.id = i,
                                        !.token = current[i] + 1, !.publish = p])
          BY <2>3, ExchangeTikTokEffect
        <5> QED BY <2>r, <3>2, <5>1 DEF Becomes, ReqRec
      <4> QED BY <1>0, <3>1, <3>2, <4>1, MovedPlaced DEF At, Granting, Accounts
    <3>3. CASE s # r
      <4>1. Becomes(r, [req[r] EXCEPT !.phase = "identifying", !.id = i,
                                      !.token = current[i] + 1, !.publish = p])
        BY <2>3, ExchangeTikTokEffect
      <4>2. req'[s] = req[s]
        BY <3>3, <4>1 DEF Becomes
      <4> QED BY <1>o, <3>1, <3>3, <4>2
    <3> QED BY <3>2, <3>3
  <2>4. ASSUME NEW i \in Instagrams, ExchangeInstagram(r, i)
        PROVE  Placed(s)'
    <3>1. account' = account /\ At(r, "exchanging")
      BY <2>4 DEF ExchangeInstagram
    <3>2. CASE s = r
      <4>1. /\ req'[s].phase = "looking" /\ req'[s].id = i /\ req'[s].user \in Users
            /\ req'[s].auth = req[s].auth /\ req'[s].row = req[s].row
        <5>1. /\ Becomes(r, [req[r] EXCEPT !.phase = "looking", !.id = i,
                                !.user = auth[req[r].auth].user, !.publish = TRUE])
              /\ auth[req[r].auth].user \in Users
          BY <2>4, ExchangeInstagramEffect
        <5> QED BY <2>r, <3>2, <5>1 DEF Becomes, ReqRec
      <4> QED BY <1>0, <3>1, <3>2, <4>1, MovedPlaced DEF At, Granting, Accounts
    <3>3. CASE s # r
      BY <1>o, <2>4, <3>1, <3>3, ExchangeInstagramEffect DEF Becomes
    <3> QED BY <3>2, <3>3
  <2>5. ASSUME At(r, "identifying") \/ At(r, "creating") \/ At(r, "linking"),
               account' = account,
               \/ Becomes(r, Idle)
               \/ Becomes(r, [req[r] EXCEPT !.phase = "creating"])
               \/ /\ auth[req[r].auth].intent = "LINK"
                  /\ Becomes(r, [req[r] EXCEPT !.phase = "linking"])
               \/ \E u \in Users : Becomes(r, [req[r] EXCEPT !.phase = "looking", !.user = u])
        PROVE  Placed(s)'
    <3>1. CASE s = r
      <4>1. req[r].id \in TikToks
        BY <2>5 DEF PlacedInv, Placed, At
      <4>2. CASE Becomes(r, Idle)
        BY <3>1, <4>2, IdlePlaced DEF Becomes
      <4>3. CASE \/ Becomes(r, [req[r] EXCEPT !.phase = "creating"])
                 \/ /\ auth[req[r].auth].intent = "LINK"
                    /\ Becomes(r, [req[r] EXCEPT !.phase = "linking"])
        <5>1. /\ req'[s].phase \in {"creating", "linking"} /\ req'[s].id = req[s].id
              /\ req'[s].auth = req[s].auth /\ req'[s].row = req[s].row
              /\ req'[s].phase = "linking" => auth[req[s].auth].intent = "LINK"
          BY <2>r, <3>1, <4>3 DEF Becomes, ReqRec
        <5> QED BY <1>0, <2>5, <3>1, <4>1, <5>1, MovedPlaced DEF At, Granting, Accounts
      <4>4. CASE \E u \in Users : Becomes(r, [req[r] EXCEPT !.phase = "looking", !.user = u])
        <5>1. /\ req'[s].phase = "looking" /\ req'[s].id = req[s].id
              /\ req'[s].auth = req[s].auth /\ req'[s].row = req[s].row
              /\ req'[s].user \in Users
          BY <2>r, <3>1, <4>4 DEF Becomes, ReqRec
        <5> QED BY <1>0, <2>5, <3>1, <4>1, <5>1, MovedPlaced DEF At, Granting, Accounts
      <4> QED BY <2>5, <4>2, <4>3, <4>4
    <3>2. CASE s # r
      <4>1. req'[s] = req[s]
        BY <2>5, <3>2 DEF Becomes
      <4> QED BY <1>o, <2>5, <3>2, <4>1
    <3> QED BY <3>1, <3>2
  <2>6. CASE ResolveLogin(r)
    BY <2>5, <2>6, ResolveLoginEffect DEF ResolveLogin
  <2>7. CASE CreateUser(r)
    BY <2>5, <2>7, CreateUserEffect DEF CreateUser
  <2>8. CASE CheckIdentity(r)
    BY <2>5, <2>8, CheckIdentityEffect DEF CheckIdentity
  <2>9. CASE LinkIdentity(r)
    BY <2>5, <2>9, LinkIdentityEffect DEF LinkIdentity
  <2>10. CASE LookForRow(r) \/ CountAccounts(r)
    <3>1. account' = account /\ (At(r, "looking") \/ At(r, "counting"))
      BY <2>10 DEF LookForRow, CountAccounts
    <3>2. CASE s = r
      <4>1. CASE Becomes(r, Idle)
        BY <3>2, <4>1, IdlePlaced DEF Becomes
      <4>2. CASE \/ Becomes(r, [req[r] EXCEPT !.phase = "upserting"])
                 \/ Becomes(r, [req[r] EXCEPT !.phase = "counting"])
        <5>1. /\ req'[s].phase \in {"counting", "upserting"} /\ req'[s].id = req[s].id
              /\ req'[s].auth = req[s].auth /\ req'[s].row = req[s].row
              /\ req'[s].user = req[s].user
          BY <2>r, <3>2, <4>2 DEF Becomes, ReqRec
        <5>2. req[s].id \in Accounts /\ req[s].user \in Users
          BY <3>1, <3>2 DEF PlacedInv, Placed, At, Granting
        <5> QED BY <1>0, <3>1, <3>2, <5>1, <5>2, MovedPlaced DEF At, Granting
      <4> QED BY <2>10, <4>1, <4>2, LookForRowEffect
    <3>3. CASE s # r
      <4>1. req'[s] = req[s]
        BY <2>10, <3>3, LookForRowEffect DEF Becomes
      <4> QED BY <1>o, <3>1, <3>3, <4>1
    <3> QED BY <3>2, <3>3
  <2>11. CASE UpsertAccount(r)
    <3>1. \A i \in Accounts : account[i] # None => account'[i] # None
      BY <2>11, UpsertAccountEffect, NoneIsNoRow DEF Holds
    <3> QED BY <1>o, <2>11, <3>1, UpsertAccountEffect, IdlePlaced DEF Becomes
  <2> QED BY <1>5, <2>1, <2>2, <2>3, <2>4, <2>6, <2>7, <2>8, <2>9, <2>10, <2>11 DEF Callback
<1>6. ASSUME NEW r \in Requests, AskRefresh(r)
      PROVE  Placed(s)'
  <2>1. account' = account /\ At(r, "refreshing") /\ req[r] \in ReqRec
    BY <1>6 DEF AskRefresh, ConnectionsTypeOK
  <2>2. CASE s = r
    <3>1. CASE Becomes(r, Idle)
      BY <2>2, <3>1, IdlePlaced DEF Becomes
    <3>2. CASE Becomes(r, [req[r] EXCEPT !.phase = "storing", !.token = current'[req[r].id]])
      <4>1. /\ req'[s].phase = "storing" /\ req'[s].id = req[s].id
            /\ req'[s].auth = req[s].auth /\ req'[s].row = req[s].row
        BY <2>1, <2>2, <3>2 DEF Becomes, ReqRec
      <4>2. /\ req[s].id \in TikToks /\ (req[s].row => Connected(req[s].id))
            /\ req[s].auth # None =>
                 req[s].auth \in Auths /\ auth[req[s].auth].intent # "NONE"
        BY <2>1, <2>2 DEF PlacedInv, Placed, At, ReqRec
      <4>3. req[s].auth # None => auth'[req[s].auth].intent # "NONE"
        BY <1>0, <4>2 DEF ConsentsKept
      <4> QED BY <2>1, <4>1, <4>2, <4>3 DEF Placed, At, Granting, Connected
    <3> QED BY <1>6, <3>1, <3>2, AskRefreshEffect
  <2>3. CASE s # r
    <3>1. req'[s] = req[s]
      BY <1>6, <2>3, AskRefreshEffect DEF Becomes
    <3> QED BY <1>o, <2>1, <2>3, <3>1
  <2> QED BY <2>2, <2>3
<1>7. ASSUME NEW r \in Requests, StoreRefresh(r)
      PROVE  Placed(s)'
  <2>1. \A i \in Accounts : account[i] # None => account'[i] # None
    BY <1>7, StoreRefreshEffect, NoneIsNoRow DEF Holds
  <2>2. Becomes(r, Idle)
    BY <1>7, StoreRefreshEffect
  <2>3. CASE s = r
    BY <2>2, <2>3, IdlePlaced DEF Becomes
  <2>4. CASE s # r
    <3>1. req'[s] = req[s]
      BY <2>2, <2>4 DEF Becomes
    <3> QED BY <1>o, <2>1, <2>4, <3>1
  <2> QED BY <2>3, <2>4
<1>8. ASSUME NEW r \in Requests, RequestDies(r)
      PROVE  Placed(s)'
  BY <1>8, <1>o, FinishRequest, IdlePlaced DEF RequestDies
<1>9. ASSUME NEW i \in Accounts, Disconnect(i)
      PROVE  Placed(s)'
  <2>1. CASE req[s].id = i
    <3>1. req'[s] = [req[s] EXCEPT !.row = FALSE] /\ req[s] \in ReqRec
      BY <1>9, <2>1, DisconnectEffect DEF ConnectionsTypeOK
    <3>2. /\ req'[s].phase = req[s].phase /\ req'[s].auth = req[s].auth
          /\ req'[s].id = req[s].id /\ req'[s].user = req[s].user /\ req'[s].row = FALSE
      BY <3>1 DEF ReqRec
    <3>3. auth' = auth
      BY <1>9 DEF Disconnect
    <3>4. Placed(s)
      BY DEF PlacedInv
    <3> QED BY <3>2, <3>3, <3>4 DEF Placed, At
  <2>2. CASE req[s].id # i
    <3>1. req'[s] = req[s]
      BY <1>9, <2>2, DisconnectEffect
    <3>2. req[s].row => account'[req[s].id] # None
      BY <1>9, <2>2, DisconnectEffect DEF Holds, PlacedInv, Placed, Connected, Accounts
    <3> QED BY <1>0, <3>1, <3>2, OthersPlaced
  <2> QED BY <2>1, <2>2
<1>10. CASE UNCHANGED vars
  BY <1>10, <1>1 DEF vars
<1> QED BY <1>1, <1>2, <1>3, <1>4, <1>5, <1>6, <1>7, <1>8, <1>9, <1>10
        DEF ConnectionsNext, Refresh

-----------------------------------------------------------------------------
\* A consent screen grants once.

\* What a step may do to the consent screen that request s holds: it is the
\* one it held, or one it has just found; leaving "found" uses it up.
Holding(s) ==
  req'[s].auth # None =>
    \/ /\ req'[s].auth = req[s].auth
       /\ req'[s].phase = "found" <=> req[s].phase = "found"
    \/ req'[s].phase = "found"
    \/ /\ req'[s].auth = req[s].auth /\ At(s, "found")
       /\ ~auth[req[s].auth].used /\ auth'[req[s].auth].used
       /\ \A x \in Requests \ {s} : req'[x] = req[x]
    \/ auth'[req'[s].auth].intent = "INSTAGRAM"

LEMMA HoldingStep ==
  ASSUME ConnectionsTypeOK, PlacedInv, [ConnectionsNext]_vars, NEW s \in Requests
  PROVE  Holding(s)
<1>s. CASE req'[s] = req[s]
  BY <1>s DEF Holding, At
<1>i. CASE req'[s] = Idle
  BY <1>i DEF Holding, Idle
<1>1. ASSUME NEW r \in Requests, NEW a \in Auths, Receive(r, a) \/ ReceiveInstagram(r, a)
      PROVE  Holding(s)
  <2>1. CASE s # r
    BY <1>1, <1>s, <2>1, ReceiveEffect DEF Becomes
  <2>2. CASE s = r /\ Becomes(r, [Idle EXCEPT !.phase = "found", !.auth = a])
    BY <2>2 DEF Becomes, Idle, Holding
  <2>3. CASE /\ s = r /\ ReceiveInstagram(r, a)
             /\ Becomes(r, [Idle EXCEPT !.phase = "exchanging", !.auth = a])
    <3>1. req'[s].auth = a
      BY <2>3 DEF Becomes, Idle
    <3>2. auth'[a].intent = "INSTAGRAM"
      BY <2>3, ConsentStep DEF ReceiveInstagram, ConsentsKept
    <3> QED BY <3>1, <3>2 DEF Holding
  <2> QED BY <1>1, <2>1, <2>2, <2>3, ReceiveEffect
<1>2. ASSUME NEW r \in Requests, NEW i \in TikToks, StartRefresh(r, i)
      PROVE  Holding(s)
  <2>1. Becomes(r, [Idle EXCEPT !.phase = "refreshing", !.id = i,
                      !.token = account[i].token, !.row = TRUE])
    BY <1>2, StartRefreshEffect
  <2>2. CASE s = r
    <3>1. req'[s].auth = None
      BY <2>1, <2>2 DEF Becomes, Idle
    <3> QED BY <3>1 DEF Holding
  <2>3. CASE s # r
    BY <1>s, <2>1, <2>3 DEF Becomes
  <2> QED BY <2>2, <2>3
<1>3. ASSUME NEW r \in Requests, Consume(r)
      PROVE  Holding(s)
  <2>1. CASE Becomes(r, Idle)
    BY <1>s, <1>i, <2>1 DEF Becomes
  <2>2. CASE /\ ~auth[req[r].auth].used /\ auth' = [auth EXCEPT ![req[r].auth].used = TRUE]
             /\ Becomes(r, [req[r] EXCEPT !.phase = "exchanging"])
    <3>1. At(r, "found") /\ req[r].auth \in Auths
      BY <1>3 DEF Consume, PlacedInv, Placed, At, ConnectionsTypeOK, ReqRec
    <3>2. auth'[req[r].auth].used
      BY <2>2, <3>1 DEF ConnectionsTypeOK, AuthRec
    <3>3. CASE s = r
      <4>1. req'[s].auth = req[s].auth
        BY <2>2, <3>3 DEF Becomes, ConnectionsTypeOK, ReqRec
      <4> QED BY <2>2, <3>1, <3>2, <3>3, <4>1 DEF Becomes, Holding
    <3>4. CASE s # r
      BY <1>s, <2>2, <3>4 DEF Becomes
    <3> QED BY <3>3, <3>4
  <2> QED BY <1>3, <2>1, <2>2, ConsumeEffect
\* Any other step of a callback or a refresh keeps the consent screen.
<1>4. ASSUME NEW r \in Requests, req[r].phase \notin {"idle", "found"},
             \A x \in Requests \ {r} : req'[x] = req[x],
             \/ req'[r] = Idle
             \/ req'[r].auth = req[r].auth /\ req'[r].phase # "found"
      PROVE  Holding(s)
  <2>1. CASE s # r
    BY <1>s, <1>4, <2>1
  <2>2. CASE s = r /\ req'[r] = Idle
    BY <1>i, <2>2
  <2>3. CASE s = r /\ req'[r].auth = req[r].auth /\ req'[r].phase # "found"
    BY <1>4, <2>3 DEF Holding
  <2> QED BY <1>4, <2>1, <2>2, <2>3
<1>5. ASSUME NEW r \in Requests, Callback(r), ~Consume(r)
      PROVE  Holding(s)
  <2>r. req[r] \in ReqRec
    BY DEF ConnectionsTypeOK
  <2>1. CASE ExchangeRefused(r)
    BY <1>4, <2>1, FinishRequest DEF ExchangeRefused, At
  <2>2. ASSUME NEW i \in TikToks, NEW p \in BOOLEAN, ExchangeTikTok(r, i, p)
        PROVE  Holding(s)
    <3>1. Becomes(r, [req[r] EXCEPT !.phase = "identifying", !.id = i,
                                    !.token = current[i] + 1, !.publish = p])
      BY <2>2, ExchangeTikTokEffect
    <3>2. req'[r].auth = req[r].auth /\ req'[r].phase # "found"
      BY <2>r, <3>1 DEF Becomes, ReqRec
    <3> QED BY <1>4, <2>2, <3>1, <3>2 DEF Becomes, ExchangeTikTok, At
  <2>3. ASSUME NEW i \in Instagrams, ExchangeInstagram(r, i)
        PROVE  Holding(s)
    <3>1. Becomes(r, [req[r] EXCEPT !.phase = "looking", !.id = i,
                        !.user = auth[req[r].auth].user, !.publish = TRUE])
      BY <2>3, ExchangeInstagramEffect
    <3>2. req'[r].auth = req[r].auth /\ req'[r].phase # "found"
      BY <2>r, <3>1 DEF Becomes, ReqRec
    <3> QED BY <1>4, <2>3, <3>1, <3>2 DEF Becomes, ExchangeInstagram, At
  <2>4. ASSUME req[r].phase \notin {"idle", "found"},
               \/ Becomes(r, Idle)
               \/ Becomes(r, [req[r] EXCEPT !.phase = "creating"])
               \/ Becomes(r, [req[r] EXCEPT !.phase = "linking"])
               \/ \E u \in Users : Becomes(r, [req[r] EXCEPT !.phase = "looking", !.user = u])
               \/ Becomes(r, [req[r] EXCEPT !.phase = "counting"])
               \/ Becomes(r, [req[r] EXCEPT !.phase = "upserting"])
        PROVE  Holding(s)
    <3>1. req'[r] = Idle \/ (req'[r].auth = req[r].auth /\ req'[r].phase # "found")
      BY <2>4, <2>r DEF Becomes, ReqRec
    <3>2. \A x \in Requests \ {r} : req'[x] = req[x]
      BY <2>4 DEF Becomes
    <3> QED BY <1>4, <2>4, <3>1, <3>2
  <2>5. CASE ResolveLogin(r)
    BY <2>4, <2>5, ResolveLoginEffect DEF ResolveLogin, At
  <2>6. CASE CreateUser(r)
    BY <2>4, <2>6, CreateUserEffect DEF CreateUser, At
  <2>7. CASE CheckIdentity(r)
    BY <2>4, <2>7, CheckIdentityEffect DEF CheckIdentity, At
  <2>8. CASE LinkIdentity(r)
    BY <2>4, <2>8, LinkIdentityEffect DEF LinkIdentity, At
  <2>9. CASE LookForRow(r) \/ CountAccounts(r)
    BY <2>4, <2>9, LookForRowEffect DEF LookForRow, CountAccounts, At
  <2>10. CASE UpsertAccount(r)
    BY <2>4, <2>10, UpsertAccountEffect DEF UpsertAccount, At
  <2> QED BY <1>5, <2>1, <2>2, <2>3, <2>5, <2>6, <2>7, <2>8, <2>9, <2>10 DEF Callback
<1>6. ASSUME NEW r \in Requests, AskRefresh(r)
      PROVE  Holding(s)
  <2>1. \/ Becomes(r, Idle)
        \/ Becomes(r, [req[r] EXCEPT !.phase = "storing", !.token = current'[req[r].id]])
    BY <1>6, AskRefreshEffect
  <2>2. req'[r] = Idle \/ (req'[r].auth = req[r].auth /\ req'[r].phase # "found")
    BY <2>1 DEF Becomes, ConnectionsTypeOK, ReqRec
  <2> QED BY <1>4, <1>6, <2>1, <2>2 DEF Becomes, AskRefresh, At
<1>7. ASSUME NEW r \in Requests, StoreRefresh(r) PROVE Holding(s)
  BY <1>7, <1>4, StoreRefreshEffect DEF StoreRefresh, Becomes, At
<1>8. ASSUME NEW r \in Requests, RequestDies(r) PROVE Holding(s)
  BY <1>8, <1>s, <1>i, FinishRequest DEF RequestDies
<1>9. ASSUME NEW i \in Accounts, Disconnect(i) PROVE Holding(s)
  <2>1. req'[s].auth = req[s].auth /\ req'[s].phase = req[s].phase
    BY <1>9, DisconnectEffect DEF ConnectionsTypeOK, ReqRec
  <2> QED BY <2>1 DEF Holding
<1>10. CASE UNCHANGED req
  BY <1>s, <1>10
<1>11. ASSUME NEW a \in Auths, NEW u \in Users \cup {None},
              NEW i \in {"LOGIN", "LINK", "INSTAGRAM"},
              OpenConsent(a, i, u) \/ Expire(a) \/ ForgetCode(a)
       PROVE  UNCHANGED req
  BY <1>11 DEF OpenConsent, Expire, ForgetCode
<1> QED BY <1>1, <1>2, <1>3, <1>5, <1>6, <1>7, <1>8, <1>9, <1>10, <1>11
        DEF ConnectionsNext, Refresh, vars

\* Two requests past the consumption of one transaction would both have found
\* it unused.
LEMMA ConsumedStep ==
  ASSUME ConnectionsTypeOK, PlacedInv, ConsumedInv, [ConnectionsNext]_vars
  PROVE  ConsumedInv'
<1>0. ConsentsKept /\ \A s \in Requests : Holding(s)
  BY ConsentStep, HoldingStep
<1>t. ConnectionsTypeOK'
  BY TypeStep
<1>1. ASSUME NEW s \in Requests PROVE Consumed(s)'
  <2> SUFFICES ASSUME req'[s].phase # "found", req'[s].auth # None,
                      auth'[req'[s].auth].intent # "INSTAGRAM"
               PROVE  auth'[req'[s].auth].used
    BY DEF Consumed, At
  <2>1. CASE req'[s].auth = req[s].auth /\ req[s].phase # "found"
    <3>1. req[s].auth \in Auths /\ auth[req[s].auth].intent # "NONE"
      BY <2>1 DEF ConnectionsTypeOK, ReqRec, PlacedInv, Placed
    <3>2. auth[req[s].auth].intent # "INSTAGRAM" /\ auth[req[s].auth].used
      BY <1>0, <2>1, <3>1 DEF ConsentsKept, ConsumedInv, Consumed, At
    <3> QED BY <1>0, <2>1, <3>1, <3>2 DEF ConsentsKept
  <2>2. CASE req'[s].auth = req[s].auth /\ auth'[req[s].auth].used
    BY <2>2
  <2> QED BY <1>0, <2>1, <2>2 DEF Holding
<1>2. TransactionUsedOnce'
  <2> SUFFICES ASSUME NEW r \in Requests, NEW s \in Requests, r # s,
                      req'[r].auth = req'[s].auth, req'[r].auth # None,
                      auth'[req'[r].auth].intent # "INSTAGRAM",
                      req'[r].phase # "found", req'[s].phase # "found"
               PROVE  FALSE
    BY DEF TransactionUsedOnce, At
  <2>0. Holding(r) /\ Holding(s)
    BY <1>0
  <2>1. req'[r].auth = req[r].auth /\ req'[s].auth = req[s].auth
    BY <2>0 DEF Holding
  <2>2. /\ req[r].auth \in Auths /\ auth[req[r].auth].intent # "NONE"
        /\ auth[req[r].auth].intent # "INSTAGRAM"
    BY <1>0, <2>1 DEF ConnectionsTypeOK, ReqRec, PlacedInv, Placed, ConsentsKept
  <2>3. CASE req[r].phase # "found" /\ req[s].phase # "found"
    BY <2>1, <2>2, <2>3 DEF ConsumedInv, TransactionUsedOnce, At
  <2>4. CASE req[r].phase = "found"
    <3>1. ~auth[req[r].auth].used /\ req'[s] = req[s]
      BY <2>0, <2>1, <2>4 DEF Holding
    <3> QED BY <2>1, <2>2, <3>1 DEF ConsumedInv, Consumed, At
  <2>5. CASE req[s].phase = "found"
    <3>1. ~auth[req[s].auth].used /\ req'[r] = req[r]
      BY <2>0, <2>1, <2>5 DEF Holding
    <3> QED BY <2>1, <2>2, <3>1 DEF ConsumedInv, Consumed, At
  <2> QED BY <2>3, <2>4, <2>5
<1> QED BY <1>1, <1>2 DEF ConsumedInv

-----------------------------------------------------------------------------
\* Identities, and the brands accounts sit in.

Pursuing == {"looking", "counting", "upserting"}

\* What a step may do to identities: give a user to an account that had none,
\* which contests it when another request is linking it.
IdentityStep ==
  /\ contested \subseteq contested'
  /\ \A t \in TikToks : identity'[t] # identity[t] =>
       /\ identity[t] = None
       /\ \A s \in Requests : req[s].id = t /\ At(s, "linking") /\ req'[s] = req[s]
                                => t \in contested'

\* Where the user of a request comes from.
UserStep(s) ==
  /\ req'[s].phase \in Pursuing =>
       \/ /\ req[s].phase \in Pursuing
          /\ req'[s].id = req[s].id /\ req'[s].user = req[s].user
       \/ req'[s].id \in Instagrams
       \/ req'[s].user = identity'[req'[s].id]
       \/ /\ At(s, "linking") /\ req'[s].id = req[s].id
          /\ req'[s].user = auth[req[s].auth].user
          /\ identity'[req[s].id] = IF identity[req[s].id] = None THEN req'[s].user
                                                                  ELSE identity[req[s].id]
  /\ req'[s].phase = "linking" =>
       \/ req'[s] = req[s] \/ (At(s, "linking") /\ req'[s].id = req[s].id
                                /\ req'[s].auth = req[s].auth /\ UNCHANGED identity)
       \/ /\ identity[req'[s].id] \in {None, auth[req'[s].auth].user}
          /\ UNCHANGED <<auth, identity>>

\* The brand of a row that is kept stays; a row that is added takes the brand
\* of the user its request goes on with.
BrandStep(t) ==
  account'[t] # None =>
    \/ account[t] # None /\ account'[t].brand = account[t].brand
    \/ \E r \in Requests : /\ req[r].phase \in Pursuing /\ req[r].id = t
                           /\ account'[t].brand = req[r].user /\ UNCHANGED identity

LEMMA IdentityOnly ==
  ASSUME ConnectionsTypeOK, PlacedInv, [ConnectionsNext]_vars
  PROVE  IdentityStep
<1>1. CASE UNCHANGED <<identity, contested>>
  BY <1>1 DEF IdentityStep
<1>2. ASSUME NEW r \in Requests, NEW i \in TikToks, NEW u, Signs(i, u),
             identity[i] # None => u = identity[i],
             contested' = Contested(r, i), req[r].id = i, req'[r] # req[r]
      PROVE  IdentityStep
  <2>1. contested \subseteq contested'
    BY <1>2 DEF Contested
  <2>2. ASSUME NEW t \in TikToks, identity'[t] # identity[t]
        PROVE  t = i /\ identity[t] = None
    BY <1>2, <2>2 DEF Signs
  <2>3. ASSUME NEW s \in Requests, req[s].id = i, At(s, "linking"), req'[s] = req[s],
               identity[i] = None
        PROVE  i \in contested'
    BY <1>2, <2>3 DEF Contested
  <2> QED BY <2>1, <2>2, <2>3 DEF IdentityStep
<1>3. ASSUME NEW r \in Requests, CreateUser(r) PROVE IdentityStep
  <2>1. PICK u \in Users :
           /\ req[r].id \in TikToks
           /\ u = IF identity[req[r].id] = None THEN req[r].id ELSE identity[req[r].id]
           /\ Signs(req[r].id, u)
           /\ Becomes(r, [req[r] EXCEPT !.phase = "looking", !.user = u])
           /\ contested' = Contested(r, req[r].id)
    BY <1>3, CreateUserEffect
  <2>2. req'[r].phase = "looking" /\ req[r].phase = "creating"
    BY <1>3, <2>1 DEF Becomes, ConnectionsTypeOK, ReqRec, CreateUser, At
  <2> QED BY <1>2, <2>1, <2>2
<1>4. ASSUME NEW r \in Requests, LinkIdentity(r) PROVE IdentityStep
  <2> DEFINE i == req[r].id
             u == auth[req[r].auth].user
  <2>1. /\ i \in TikToks
        /\ Signs(i, IF identity[i] = None THEN u ELSE identity[i])
        /\ Becomes(r, [req[r] EXCEPT !.phase = "looking", !.user = u])
        /\ contested' = Contested(r, i)
    BY <1>4, LinkIdentityEffect
  <2>2. req'[r].phase = "looking" /\ req[r].phase = "linking"
    BY <1>4, <2>1 DEF Becomes, ConnectionsTypeOK, ReqRec, LinkIdentity, At
  <2> QED BY <1>2, <2>1, <2>2
<1>5. ASSUME NEW a \in Auths, NEW u \in Users \cup {None},
             NEW i \in {"LOGIN", "LINK", "INSTAGRAM"},
             OpenConsent(a, i, u) \/ Expire(a) \/ ForgetCode(a)
      PROVE  UNCHANGED <<identity, contested>>
  BY <1>5 DEF OpenConsent, Expire, ForgetCode
<1>6. ASSUME NEW r \in Requests, Callback(r) PROVE IdentityStep
  BY <1>1, <1>3, <1>4, <1>6
     DEF Callback, Consume, ExchangeRefused, ExchangeTikTok, ExchangeInstagram,
         ResolveLogin, CheckIdentity, LookForRow, CountAccounts, UpsertAccount
<1>7. ASSUME NEW r \in Requests,
             \/ \E a \in Auths : Receive(r, a) \/ ReceiveInstagram(r, a)
             \/ \E i \in TikToks : StartRefresh(r, i)
             \/ Refresh(r) \/ RequestDies(r)
      PROVE  UNCHANGED <<identity, contested>>
  BY <1>7 DEF Receive, ReceiveInstagram, StartRefresh, Refresh, AskRefresh, StoreRefresh,
              RequestDies
<1>8. ASSUME NEW i \in Accounts, Disconnect(i) PROVE UNCHANGED <<identity, contested>>
  BY <1>8 DEF Disconnect
<1> QED BY <1>1, <1>5, <1>6, <1>7, <1>8 DEF ConnectionsNext, vars

\* A TikTok account keeps the user it signs in as.
LEMMA IdentityStays ==
  ASSUME ConnectionsTypeOK, PlacedInv, [ConnectionsNext]_vars, NEW t \in TikToks,
         identity[t] # None
  PROVE  identity'[t] = identity[t]
BY IdentityOnly DEF IdentityStep

LEMMA UserOnly ==
  ASSUME ConnectionsTypeOK, PlacedInv, [ConnectionsNext]_vars, NEW s \in Requests
  PROVE  UserStep(s)
<1>s. CASE req'[s] = req[s]
  BY <1>s DEF UserStep
<1>i. CASE req'[s].phase \notin Pursuing \cup {"linking"}
  BY <1>i DEF UserStep
<1>r. req[s] \in ReqRec
  BY DEF ConnectionsTypeOK
<1>1. ASSUME NEW r \in Requests, NEW a \in Auths, Receive(r, a) \/ ReceiveInstagram(r, a)
      PROVE  UserStep(s)
  <2>1. \/ Becomes(r, [Idle EXCEPT !.phase = "found", !.auth = a])
        \/ Becomes(r, [Idle EXCEPT !.phase = "exchanging", !.auth = a])
    BY <1>1, ReceiveEffect
  <2> QED BY <2>1, <1>s, <1>i DEF Becomes, Idle, Pursuing
<1>2. ASSUME NEW r \in Requests, NEW i \in TikToks, StartRefresh(r, i)
      PROVE  UserStep(s)
  <2>1. Becomes(r, [Idle EXCEPT !.phase = "refreshing", !.id = i,
                      !.token = account[i].token, !.row = TRUE])
    BY <1>2, StartRefreshEffect
  <2> QED BY <2>1, <1>s, <1>i DEF Becomes, Idle, Pursuing
<1>3. ASSUME NEW r \in Requests, Callback(r)
      PROVE  UserStep(s)
  <2>1. CASE s # r
    <3>1. req'[s] = req[s]
      <4>1. CASE Consume(r)
        BY <2>1, <4>1, ConsumeEffect DEF Becomes
      <4>2. CASE ExchangeRefused(r)
        BY <2>1, <4>2, FinishRequest DEF ExchangeRefused
      <4>3. ASSUME NEW i \in TikToks, NEW p \in BOOLEAN, ExchangeTikTok(r, i, p)
            PROVE  req'[s] = req[s]
        <5>1. Becomes(r, [req[r] EXCEPT !.phase = "identifying", !.id = i,
                                        !.token = current[i] + 1, !.publish = p])
          BY <4>3, ExchangeTikTokEffect
        <5> QED BY <2>1, <5>1 DEF Becomes
      <4>4. ASSUME NEW i \in Instagrams, ExchangeInstagram(r, i)
            PROVE  req'[s] = req[s]
        <5>1. Becomes(r, [req[r] EXCEPT !.phase = "looking", !.id = i,
                            !.user = auth[req[r].auth].user, !.publish = TRUE])
          BY <4>4, ExchangeInstagramEffect
        <5> QED BY <2>1, <5>1 DEF Becomes
      <4>5. CASE ResolveLogin(r)
        BY <2>1, <4>5, ResolveLoginEffect DEF Becomes
      <4>6. CASE CreateUser(r)
        BY <2>1, <4>6, CreateUserEffect DEF Becomes
      <4>7. CASE CheckIdentity(r)
        BY <2>1, <4>7, CheckIdentityEffect DEF Becomes
      <4>8. CASE LinkIdentity(r)
        BY <2>1, <4>8, LinkIdentityEffect DEF Becomes
      <4>9. CASE LookForRow(r) \/ CountAccounts(r)
        BY <2>1, <4>9, LookForRowEffect DEF Becomes
      <4>10. CASE UpsertAccount(r)
        BY <2>1, <4>10, UpsertAccountEffect DEF Becomes
      <4> QED BY <1>3, <4>1, <4>2, <4>3, <4>4, <4>5, <4>6, <4>7, <4>8, <4>9, <4>10
              DEF Callback
    <3> QED BY <3>1, <1>s
  <2>2. CASE s = r
    <3>i. CASE req'[s] = Idle
      BY <3>i, <1>i DEF Idle, Pursuing
    <3>1. CASE Consume(s)
      <4>1. CASE Becomes(s, [req[s] EXCEPT !.phase = "exchanging"])
        BY <4>1, <1>i, <1>r DEF Becomes, ReqRec, Pursuing
      <4> QED BY <3>1, <3>i, <4>1, ConsumeEffect DEF Becomes
    <3>2. CASE ExchangeRefused(s)
      BY <3>2, <3>i, FinishRequest DEF ExchangeRefused
    <3>3. ASSUME NEW i \in TikToks, NEW p \in BOOLEAN, ExchangeTikTok(s, i, p)
          PROVE  UserStep(s)
      <4>1. Becomes(s, [req[s] EXCEPT !.phase = "identifying", !.id = i,
                                      !.token = current[i] + 1, !.publish = p])
        BY <3>3, ExchangeTikTokEffect
      <4> QED BY <4>1, <1>i, <1>r DEF Becomes, ReqRec, Pursuing
    <3>4. ASSUME NEW i \in Instagrams, ExchangeInstagram(s, i)
          PROVE  UserStep(s)
      <4>1. Becomes(s, [req[s] EXCEPT !.phase = "looking", !.id = i,
                          !.user = auth[req[s].auth].user, !.publish = TRUE])
        BY <3>4, ExchangeInstagramEffect
      <4>2. req'[s].phase = "looking" /\ req'[s].id \in Instagrams
        BY <4>1, <1>r DEF Becomes, ReqRec
      <4> QED BY <4>2 DEF UserStep
    <3>5. CASE ResolveLogin(s)
      <4>1. CASE Becomes(s, [req[s] EXCEPT !.phase = "creating"])
        BY <4>1, <1>i, <1>r DEF Becomes, ReqRec, Pursuing
      <4>2. CASE Becomes(s, [req[s] EXCEPT !.phase = "looking", !.user = identity[req[s].id]])
        <5>1. /\ req'[s].phase = "looking" /\ req'[s].id = req[s].id
              /\ req'[s].user = identity[req[s].id]
          BY <4>2, <1>r DEF Becomes, ReqRec
        <5>2. identity' = identity
          BY <3>5 DEF ResolveLogin
        <5> QED BY <5>1, <5>2 DEF UserStep
      <4> QED BY <3>5, <4>1, <4>2, ResolveLoginEffect
    <3>6. CASE CreateUser(s)
      <4>1. PICK u \in Users :
              /\ Signs(req[s].id, u)
              /\ Becomes(s, [req[s] EXCEPT !.phase = "looking", !.user = u])
        BY <3>6, CreateUserEffect
      <4>2. req'[s].phase = "looking" /\ req'[s].id = req[s].id /\ req'[s].user = u
        BY <4>1, <1>r DEF Becomes, ReqRec
      <4> QED BY <4>1, <4>2 DEF Signs, UserStep
    <3>7. CASE CheckIdentity(s)
      <4>1. CASE /\ identity[req[s].id] \in {None, auth[req[s].auth].user}
                 /\ Becomes(s, [req[s] EXCEPT !.phase = "linking"])
        <5>1. /\ req'[s].phase = "linking" /\ req'[s].id = req[s].id
              /\ req'[s].auth = req[s].auth
          BY <4>1, <1>r DEF Becomes, ReqRec
        <5>2. UNCHANGED <<auth, identity>>
          BY <3>7 DEF CheckIdentity
        <5> QED BY <4>1, <5>1, <5>2 DEF UserStep, Pursuing
      <4> QED BY <3>7, <3>i, <4>1, CheckIdentityEffect DEF Becomes
    <3>8. CASE LinkIdentity(s)
      <4> DEFINE i == req[s].id
                 u == auth[req[s].auth].user
      <4>1. /\ i \in TikToks
            /\ Signs(i, IF identity[i] = None THEN u ELSE identity[i])
            /\ Becomes(s, [req[s] EXCEPT !.phase = "looking", !.user = u])
        BY <3>8, LinkIdentityEffect
      <4>2. req'[s].phase = "looking" /\ req'[s].id = i /\ req'[s].user = u
        BY <4>1, <1>r DEF Becomes, ReqRec
      <4>3. At(s, "linking")
        BY <3>8 DEF LinkIdentity
      <4> QED BY <4>1, <4>2, <4>3 DEF Signs, UserStep
    <3>9. CASE LookForRow(s) \/ CountAccounts(s)
      <4>1. CASE \/ Becomes(s, [req[s] EXCEPT !.phase = "upserting"])
                 \/ Becomes(s, [req[s] EXCEPT !.phase = "counting"])
        <5>1. /\ req'[s].phase \in {"counting", "upserting"} /\ req'[s].id = req[s].id
              /\ req'[s].user = req[s].user
          BY <4>1, <1>r DEF Becomes, ReqRec
        <5>2. req[s].phase \in Pursuing
          BY <3>9 DEF LookForRow, CountAccounts, At, Pursuing
        <5> QED BY <5>1, <5>2 DEF UserStep
      <4> QED BY <3>9, <3>i, <4>1, LookForRowEffect DEF Becomes
    <3>10. CASE UpsertAccount(s)
      BY <3>10, <3>i, UpsertAccountEffect DEF Becomes
    <3> QED BY <1>3, <2>2, <3>1, <3>2, <3>3, <3>4, <3>5, <3>6, <3>7, <3>8, <3>9, <3>10
            DEF Callback
  <2> QED BY <2>1, <2>2
<1>4. ASSUME NEW r \in Requests, AskRefresh(r)
      PROVE  UserStep(s)
  <2>1. \/ Becomes(r, Idle)
        \/ Becomes(r, [req[r] EXCEPT !.phase = "storing", !.token = current'[req[r].id]])
    BY <1>4, AskRefreshEffect
  <2>2. CASE s # r
    BY <2>1, <2>2, <1>s DEF Becomes
  <2>3. CASE s = r
    <3>1. req'[s].phase \in {"idle", "storing"}
      <4>1. req'[s] = Idle \/ req'[s].phase = "storing"
        BY <2>1, <2>3, <1>r DEF Becomes, ReqRec
      <4> QED BY <4>1 DEF Idle
    <3> QED BY <3>1, <1>i DEF Pursuing
  <2> QED BY <2>2, <2>3
<1>5. ASSUME NEW r \in Requests, StoreRefresh(r) \/ RequestDies(r)
      PROVE  UserStep(s)
  <2>1. req'[r] = Idle /\ \A x \in Requests \ {r} : req'[x] = req[x]
    BY <1>5, StoreRefreshEffect, FinishRequest DEF RequestDies, Becomes
  <2> QED BY <2>1, <1>s, <1>i DEF Idle, Pursuing
<1>6. ASSUME NEW i \in Accounts, Disconnect(i)
      PROVE  UserStep(s)
  <2>1. /\ req'[s].phase = req[s].phase /\ req'[s].id = req[s].id
        /\ req'[s].user = req[s].user /\ req'[s].auth = req[s].auth
    BY <1>6, <1>r, DisconnectEffect DEF ReqRec
  <2>2. identity' = identity
    BY <1>6 DEF Disconnect
  <2> QED BY <2>1, <2>2 DEF UserStep, At
<1>7. CASE UNCHANGED req
  BY <1>s, <1>7
<1>8. ASSUME NEW a \in Auths, NEW u \in Users \cup {None},
             NEW i \in {"LOGIN", "LINK", "INSTAGRAM"},
             OpenConsent(a, i, u) \/ Expire(a) \/ ForgetCode(a)
      PROVE  UNCHANGED req
  BY <1>8 DEF OpenConsent, Expire, ForgetCode
<1> QED BY <1>1, <1>2, <1>3, <1>4, <1>5, <1>6, <1>7, <1>8 DEF ConnectionsNext, Refresh, vars

LEMMA BrandOnly ==
  ASSUME ConnectionsTypeOK, PlacedInv, [ConnectionsNext]_vars, NEW t \in TikToks
  PROVE  BrandStep(t)
<1>s. CASE account'[t] = account[t]
  BY <1>s DEF BrandStep
<1>t. t \in Accounts
  BY DEF Accounts
<1>1. ASSUME NEW r \in Requests, UpsertAccount(r) PROVE BrandStep(t)
  <2>1. CASE req[r].id # t
    BY <1>1, <1>s, <1>t, <2>1, UpsertAccountEffect DEF Holds
  <2>2. CASE req[r].id = t
    <3>1. account'[t].brand = IF account[t] # None THEN account[t].brand ELSE req[r].user
      <4>1. account'[t] = RowAfterConnect(t, req[r])
        BY <1>1, <2>2, UpsertAccountEffect DEF Holds
      <4> QED BY <4>1 DEF RowAfterConnect, Connected
    <3>2. req[r].phase \in Pursuing /\ UNCHANGED identity
      BY <1>1 DEF UpsertAccount, At, Pursuing
    <3> QED BY <2>2, <3>1, <3>2 DEF BrandStep
  <2> QED BY <2>1, <2>2
<1>2. ASSUME NEW r \in Requests, StoreRefresh(r) PROVE BrandStep(t)
  <2>1. CASE /\ account[req[r].id] \in RowRec
             /\ Holds(req[r].id, [account[req[r].id] EXCEPT !.token = req[r].token])
    <3>1. CASE req[r].id # t
      BY <1>s, <1>t, <2>1, <3>1 DEF Holds
    <3>2. CASE req[r].id = t
      <4>1. account'[t].brand = account[t].brand /\ account[t] # None
        BY <2>1, <3>2, NoneIsNoRow DEF Holds, RowRec
      <4> QED BY <4>1 DEF BrandStep
    <3> QED BY <3>1, <3>2
  <2> QED BY <1>2, <1>s, <2>1, StoreRefreshEffect
<1>3. ASSUME NEW i \in Accounts, Disconnect(i) PROVE BrandStep(t)
  BY <1>3, <1>s, <1>t, DisconnectEffect DEF Holds, BrandStep
<1>4. ASSUME NEW a \in Auths, NEW u \in Users \cup {None},
             NEW i \in {"LOGIN", "LINK", "INSTAGRAM"},
             OpenConsent(a, i, u) \/ Expire(a) \/ ForgetCode(a)
      PROVE  account' = account
  BY <1>4 DEF OpenConsent, Expire, ForgetCode
<1>5. ASSUME NEW r \in Requests, Callback(r) PROVE BrandStep(t)
  BY <1>1, <1>5, <1>s
     DEF Callback, Consume, ExchangeRefused, ExchangeTikTok, ExchangeInstagram,
         ResolveLogin, CreateUser, CheckIdentity, LinkIdentity, LookForRow, CountAccounts
<1>6. ASSUME NEW r \in Requests,
             \/ \E a \in Auths : Receive(r, a) \/ ReceiveInstagram(r, a)
             \/ \E i \in TikToks : StartRefresh(r, i)
             \/ AskRefresh(r) \/ RequestDies(r)
      PROVE  account' = account
  BY <1>6 DEF Receive, ReceiveInstagram, StartRefresh, AskRefresh, RequestDies
<1> QED BY <1>2, <1>3, <1>4, <1>5, <1>6, <1>s DEF ConnectionsNext, Refresh, vars

LEMMA AgreedStep ==
  ASSUME ConnectionsTypeOK, PlacedInv, AgreedInv, [ConnectionsNext]_vars
  PROVE  AgreedInv'
<1>0. ConsentsKept /\ IdentityStep /\ \A s \in Requests : UserStep(s)
  BY ConsentStep, IdentityOnly, UserOnly
<1>t. ConnectionsTypeOK' /\ PlacedInv'
  BY TypeStep, PlacedStep
<1>1. ASSUME NEW s \in Requests PROVE Agreed(s)'
  <2> DEFINE t == req'[s].id
  <2> SUFFICES ASSUME t \in TikToks, t \notin contested'
               PROVE  /\ req'[s].phase = "linking" =>
                           identity'[t] \in {None, auth'[req'[s].auth].user}
                      /\ req'[s].phase \in Pursuing => req'[s].user = identity'[t]
    BY DEF Agreed, At, Pursuing
  <2>c. t \notin contested
    BY <1>0 DEF IdentityStep
  <2>1. ASSUME req'[s].phase = "linking"
        PROVE  identity'[t] \in {None, auth'[req'[s].auth].user}
    <3>1. CASE req'[s].id = req[s].id /\ req'[s].auth = req[s].auth /\ At(s, "linking")
               /\ (req'[s] = req[s] \/ UNCHANGED identity)
      <4>1. req[s].auth \in Auths /\ auth[req[s].auth].intent = "LINK"
        BY <3>1 DEF ConnectionsTypeOK, ReqRec, PlacedInv, Placed, At
      <4>2. auth'[req[s].auth].user = auth[req[s].auth].user
        BY <1>0, <4>1 DEF ConsentsKept
      <4>3. identity[t] \in {None, auth[req[s].auth].user}
        BY <2>c, <3>1 DEF AgreedInv, Agreed
      <4>4. identity'[t] = identity[t]
        BY <1>0, <3>1 DEF IdentityStep
      <4> QED BY <3>1, <4>2, <4>3, <4>4
    <3>2. CASE /\ identity[t] \in {None, auth[req'[s].auth].user}
               /\ UNCHANGED <<auth, identity>>
      BY <3>2
    <3> QED BY <1>0, <2>1, <3>1, <3>2 DEF UserStep, At
  <2>2. ASSUME req'[s].phase \in Pursuing
        PROVE  req'[s].user = identity'[t]
    <3>1. CASE /\ req[s].phase \in Pursuing
               /\ req'[s].id = req[s].id /\ req'[s].user = req[s].user
      <4>1. req[s].user = identity[t] /\ req[s].user \in Users
        BY <2>c, <3>1 DEF AgreedInv, Agreed, PlacedInv, Placed, Pursuing
      <4>2. identity'[t] = identity[t]
        BY <1>0, <4>1, ConnectionsAssumption DEF IdentityStep, Users
      <4> QED BY <3>1, <4>1, <4>2
    <3>2. CASE t \in Instagrams
      BY <3>2, ConnectionsAssumption
    <3>3. CASE /\ At(s, "linking") /\ req'[s].id = req[s].id
               /\ req'[s].user = auth[req[s].auth].user
               /\ identity'[t] = IF identity[t] = None THEN req'[s].user ELSE identity[t]
      <4>1. identity[t] \in {None, auth[req[s].auth].user}
        BY <2>c, <3>3 DEF AgreedInv, Agreed
      <4> QED BY <3>3, <4>1
    <3> QED BY <1>0, <2>2, <3>1, <3>2, <3>3 DEF UserStep
  <2> QED BY <2>1, <2>2
<1>2. AccountsFollowIdentity'
  <2> SUFFICES ASSUME NEW t \in TikToks, account'[t] # None, t \notin contested'
               PROVE  account'[t].brand = identity'[t]
    BY DEF AccountsFollowIdentity, Connected
  <2>c. t \notin contested /\ t \in Accounts
    BY <1>0 DEF IdentityStep, Accounts
  <2>1. CASE account[t] # None /\ account'[t].brand = account[t].brand
    <3>1. account[t].brand = identity[t] /\ account[t].brand \in Users
      BY <2>1, <2>c DEF AgreedInv, AccountsFollowIdentity, Connected, ConnectionsTypeOK, RowRec
    <3>2. identity'[t] = identity[t]
      BY <1>0, <3>1, ConnectionsAssumption DEF IdentityStep, Users
    <3> QED BY <2>1, <3>1, <3>2
  <2>2. CASE \E r \in Requests : /\ req[r].phase \in Pursuing /\ req[r].id = t
                                 /\ account'[t].brand = req[r].user /\ UNCHANGED identity
    BY <2>2, <2>c DEF AgreedInv, Agreed, Pursuing
  <2> QED BY <2>1, <2>2, BrandOnly DEF BrandStep
<1> QED BY <1>1, <1>2 DEF AgreedInv

-----------------------------------------------------------------------------
\* Refresh tokens.  What a step does to the tokens of account t is one of the
\* following; r is the request that takes the step.

\* Request s holds for t what it held, or less.
Kept(s, t) ==
  /\ req'[s].id = t =>
       /\ req[s].id = t /\ req'[s].token = req[s].token /\ req'[s].row = req[s].row
       /\ \/ req'[s].phase = req[s].phase
          \/ req'[s].phase \in Granting /\ req[s].phase \in Granting
  /\ req[s].id = t /\ At(s, "storing") /\ req[s].row => req'[s] = req[s]

OthersSame(r)  == \A s \in Requests \ {r} : req'[s] = req[s]
SameMislaid(t) == t \in mislaid' <=> t \in mislaid
SameRow(t)     == account'[t] = account[t]
SameToken(t)   == current'[t] = current[t]

NoTokens(t) == SameRow(t) /\ SameToken(t) /\ SameMislaid(t) /\ \A s \in Requests : Kept(s, t)

Grant(r, t) ==
  /\ current'[t] = current[t] + 1 /\ t \in mislaid' /\ SameRow(t)
  /\ req'[r].id = t /\ req'[r].token = current'[t] /\ req'[r].phase = "identifying"
  /\ req'[r].row = FALSE /\ OthersSame(r)

Upsert(r, t) ==
  /\ At(r, "upserting") /\ req[r].id = t /\ req'[r] = Idle /\ OthersSame(r)
  /\ SameToken(t) /\ account'[t].token = req[r].token
  /\ t \in mislaid' <=> (t \in mislaid /\ StillMislaid(r, t, req[r].token))

Start(r, t) ==
  /\ SameRow(t) /\ SameToken(t) /\ SameMislaid(t) /\ OthersSame(r) /\ Connected(t)
  /\ req'[r].id = t /\ req'[r].phase = "refreshing" /\ req'[r].token = account[t].token
  /\ req'[r].row = TRUE /\ At(r, "idle")

Fetch(r, t) ==
  /\ At(r, "refreshing") /\ req[r].id = t /\ req[r].token = current[t]
  /\ current'[t] = IF Rotates THEN current[t] + 1 ELSE current[t]
  /\ req'[r].id = t /\ req'[r].phase = "storing" /\ req'[r].token = current'[t]
  /\ req'[r].row = req[r].row /\ OthersSame(r) /\ SameRow(t) /\ SameMislaid(t)

Store(r, t) ==
  /\ At(r, "storing") /\ req[r].id = t /\ req[r].row /\ req'[r] = Idle /\ OthersSame(r)
  /\ account'[t].token = req[r].token /\ SameToken(t) /\ SameMislaid(t)

Die(r, t) ==
  /\ t \in mislaid' /\ req'[r] = Idle /\ OthersSame(r) /\ SameRow(t) /\ SameToken(t)

Sever(t) ==
  /\ account'[t] = None /\ SameToken(t) /\ SameMislaid(t)
  /\ \A s \in Requests : /\ req'[s].id = req[s].id /\ req'[s].phase = req[s].phase
                         /\ req'[s].token = req[s].token
                         /\ req[s].id = t => req'[s].row = FALSE

TokenStep(t) ==
  \/ NoTokens(t) \/ Sever(t)
  \/ \E r \in Requests : \/ Grant(r, t) \/ Upsert(r, t) \/ Start(r, t) \/ Fetch(r, t)
                         \/ Store(r, t) \/ Die(r, t)

\* Each of them keeps the tokens in order.
LEMMA NoTokensKeeps ==
  ASSUME ConnectionsTypeOK, NEW t \in TikToks, TokensInOrder(t), NoTokens(t)
  PROVE  TokensInOrder(t)'
<1>1. ASSUME NEW s \in Requests, req'[s].id = t
      PROVE  /\ req[s].id = t /\ req'[s].token = req[s].token /\ req'[s].row = req[s].row
             /\ req'[s].phase = "refreshing" => req[s].phase = "refreshing"
             /\ req'[s].phase = "storing" => req[s].phase = "storing"
             /\ req'[s].phase \in Granting => req[s].phase \in Granting
  BY <1>1 DEF NoTokens, Kept, Granting
<1>2. HeldToken(t) => HeldToken(t)'
  BY DEF HeldToken, NoTokens, Kept, At
<1> USE DEF NoTokens, SameRow, SameToken, SameMislaid, TokensInOrder
<1>3. TokensIssued(t)'
  BY <1>1 DEF TokensIssued, Connected
<1>4. GrantsMislaid(t)'
  BY <1>1 DEF GrantsMislaid
<1>5. OneHolder(t)'
  BY <1>1 DEF OneHolder, Connected, Fetched, At
<1>6. SeveredRefresh(t)'
  BY <1>1 DEF SeveredRefresh, Connected, At
<1>7. RefreshedIsCurrent(t)'
  BY <1>1 DEF RefreshedIsCurrent, At
<1>8. StoredIsCurrent(t)'
  BY <1>2 DEF StoredIsCurrent, Connected
<1> QED BY <1>3, <1>4, <1>5, <1>6, <1>7, <1>8

LEMMA SeverKeeps ==
  ASSUME ConnectionsTypeOK, NEW t \in TikToks, TokensInOrder(t), Sever(t)
  PROVE  TokensInOrder(t)'
<1> USE DEF Sever, SameToken, SameMislaid, TokensInOrder
<1>3. TokensIssued(t)'
  BY DEF TokensIssued, Connected
<1>4. GrantsMislaid(t)'
  BY DEF GrantsMislaid
<1>5. OneHolder(t)'
  BY DEF OneHolder, Connected, Fetched, At
<1>6. SeveredRefresh(t)'
  BY DEF SeveredRefresh, Connected
<1>7. RefreshedIsCurrent(t)'
  BY DEF RefreshedIsCurrent
<1>8. StoredIsCurrent(t)'
  BY DEF StoredIsCurrent, Connected
<1> QED BY <1>3, <1>4, <1>5, <1>6, <1>7, <1>8

\* The tokens of t that are about are numbers up to TikTok's.
LEMMA TokensAreNumbers ==
  ASSUME ConnectionsTypeOK, NEW t \in TikToks, TokensIssued(t)
  PROVE  /\ current[t] \in Nat
         /\ \A s \in Requests : req[s].token \in Nat
         /\ \A s \in Requests : req[s].id = t => req[s].token < current[t] + 1
         /\ Connected(t) => account[t].token \in Nat /\ account[t].token < current[t] + 1
<1>1. current[t] \in Nat /\ \A s \in Requests : req[s].token \in Nat
  BY ConnectionsAssumption DEF ConnectionsTypeOK, ReqRec
<1>2. Connected(t) => account[t].token \in Nat
  BY ConnectionsAssumption DEF ConnectionsTypeOK, Connected, RowRec, Accounts
<1> QED BY <1>1, <1>2 DEF TokensIssued

LEMMA GrantKeeps ==
  ASSUME ConnectionsTypeOK, NEW t \in TikToks, TokensInOrder(t), NEW r \in Requests, Grant(r, t)
  PROVE  TokensInOrder(t)'
<1>0. /\ current[t] \in Nat
      /\ \A s \in Requests : req[s].token \in Nat
      /\ \A s \in Requests : req[s].id = t => req[s].token < current[t] + 1
      /\ Connected(t) => account[t].token \in Nat /\ account[t].token < current[t] + 1
  BY TokensAreNumbers DEF TokensInOrder
<1>1. /\ current'[t] = current[t] + 1 /\ t \in mislaid' /\ account'[t] = account[t]
      /\ req'[r].token = current[t] + 1 /\ req'[r].phase = "identifying"
      /\ \A s \in Requests \ {r} : req'[s] = req[s]
  BY DEF Grant, SameRow, OthersSame
<1>3. TokensIssued(t)'
  BY <1>0, <1>1 DEF TokensIssued, Connected, TokensInOrder
<1>4. GrantsMislaid(t)'
  BY <1>1 DEF GrantsMislaid
<1>5. OneHolder(t)'
  BY <1>0, <1>1 DEF OneHolder, Connected
<1>6. SeveredRefresh(t)'
  BY <1>1 DEF SeveredRefresh
<1>7. RefreshedIsCurrent(t)'
  BY <1>1 DEF RefreshedIsCurrent
<1>8. StoredIsCurrent(t)'
  BY <1>1 DEF StoredIsCurrent
<1> QED BY <1>3, <1>4, <1>5, <1>6, <1>7, <1>8 DEF TokensInOrder

\* A row that takes TikTok's token while nothing else is on its way is current.
LEMMA UpsertKeeps ==
  ASSUME ConnectionsTypeOK, NEW t \in TikToks, TokensInOrder(t), NEW r \in Requests, Upsert(r, t)
  PROVE  TokensInOrder(t)'
<1>1. /\ req[r].phase \in Granting /\ req[r].id = t /\ t \in mislaid
      /\ req'[r] = Idle /\ \A s \in Requests \ {r} : req'[s] = req[s]
      /\ current'[t] = current[t] /\ account'[t].token = req[r].token
  BY DEF Upsert, OthersSame, SameToken, At, Granting, TokensInOrder, GrantsMislaid
<1>2. Idle.id # t
  BY ConnectionsAssumption DEF Idle
<1>3. ASSUME NEW s \in Requests, req'[s].id = t
      PROVE  s # r /\ req'[s] = req[s]
  BY <1>1, <1>2, <1>3
<1>4. ASSUME t \notin mislaid'
      PROVE  /\ req[r].token = current[t]
             /\ \A s \in Requests \ {r} : ~(Writing(s) /\ req[s].id = t)
  BY <1>1, <1>4 DEF Upsert, StillMislaid
<1>5. TokensIssued(t)'
  BY <1>1, <1>3 DEF TokensIssued, TokensInOrder
<1>6. GrantsMislaid(t)'
  <2> SUFFICES ASSUME NEW s \in Requests, req'[s].id = t, req'[s].phase \in Granting,
                      t \notin mislaid'
               PROVE  FALSE
    BY DEF GrantsMislaid
  <2>1. s # r /\ req[s].id = t /\ req[s].phase \in Granting
    BY <1>3
  <2> QED BY <1>4, <2>1 DEF Writing, Granting
<1>7. OneHolder(t)'
  BY <1>1, <1>3 DEF OneHolder, Fetched, At, TokensInOrder
<1>8. SeveredRefresh(t)'
  <2> SUFFICES ASSUME NEW s \in Requests, req'[s].id = t, req'[s].token = current[t],
                      t \notin mislaid'
               PROVE  FALSE
    BY <1>1 DEF SeveredRefresh
  <2>1. s # r /\ req[s].id = t /\ req[s].token = current[t]
    BY <1>3
  <2>2. Fetched(r) /\ req[r].token = current[t]
    BY <1>1, <1>4 DEF Fetched
  <2> QED BY <1>1, <2>1, <2>2 DEF TokensInOrder, OneHolder
<1>9. RefreshedIsCurrent(t)'
  <2> SUFFICES ASSUME NEW s \in Requests, req'[s].id = t, req'[s].phase = "storing",
                      req'[s].row, t \notin mislaid'
               PROVE  FALSE
    BY DEF RefreshedIsCurrent, At
  <2>1. s # r /\ req[s].id = t /\ req[s].phase = "storing" /\ req[s].row
    BY <1>3
  <2> QED BY <1>4, <2>1 DEF Writing, At
<1>10. StoredIsCurrent(t)'
  BY <1>1, <1>4 DEF StoredIsCurrent
<1> QED BY <1>5, <1>6, <1>7, <1>8, <1>9, <1>10 DEF TokensInOrder

LEMMA StartKeeps ==
  ASSUME ConnectionsTypeOK, NEW t \in TikToks, TokensInOrder(t), NEW r \in Requests, Start(r, t)
  PROVE  TokensInOrder(t)'
<1>1. /\ account'[t] = account[t] /\ current'[t] = current[t]
      /\ t \in mislaid' <=> t \in mislaid
      /\ Connected(t) /\ req[r].phase = "idle"
      /\ \A s \in Requests \ {r} : req'[s] = req[s]
      /\ req'[r].phase = "refreshing" /\ req'[r].token = account[t].token
      /\ req'[r].row = TRUE
  BY DEF Start, SameRow, SameToken, SameMislaid, OthersSame, At
<1>2. HeldToken(t) => HeldToken(t)'
  BY <1>1 DEF HeldToken, At
<1> USE DEF TokensInOrder
<1>3. TokensIssued(t)'
  BY <1>1 DEF TokensIssued, Connected
<1>4. GrantsMislaid(t)'
  BY <1>1 DEF GrantsMislaid, Granting
<1>5. OneHolder(t)'
  BY <1>1 DEF OneHolder, Fetched, Granting, At, Connected
<1>6. SeveredRefresh(t)'
  BY <1>1 DEF SeveredRefresh, Connected, At
<1>7. RefreshedIsCurrent(t)'
  BY <1>1 DEF RefreshedIsCurrent, At
<1>8. StoredIsCurrent(t)'
  BY <1>1, <1>2 DEF StoredIsCurrent, Connected
<1> QED BY <1>3, <1>4, <1>5, <1>6, <1>7, <1>8

\* TikTok's answer to a refresh: whoever else held the current token of an
\* account whose tokens rotate holds an old one now, and the row is about to
\* be written.
LEMMA FetchKeeps ==
  ASSUME ConnectionsTypeOK, NEW t \in TikToks, TokensInOrder(t), NEW r \in Requests, Fetch(r, t)
  PROVE  TokensInOrder(t)'
<1>0. /\ current[t] \in Nat
      /\ \A s \in Requests : req[s].token \in Nat
      /\ \A s \in Requests : req[s].id = t => req[s].token < current[t] + 1
      /\ Connected(t) => account[t].token \in Nat /\ account[t].token < current[t] + 1
  BY TokensAreNumbers DEF TokensInOrder
<1>1. /\ account'[t] = account[t]
      /\ t \in mislaid' <=> t \in mislaid
      /\ req[r].phase = "refreshing" /\ req[r].id = t /\ req[r].token = current[t]
      /\ \A s \in Requests \ {r} : req'[s] = req[s]
      /\ req'[r].id = t /\ req'[r].phase = "storing" /\ req'[r].token = current'[t]
      /\ req'[r].row = req[r].row
      /\ current'[t] = IF Rotates THEN current[t] + 1 ELSE current[t]
  BY DEF Fetch, SameRow, SameMislaid, OthersSame, At
<1>3. TokensIssued(t)'
  BY <1>0, <1>1 DEF TokensIssued, Connected, TokensInOrder
<1>4. GrantsMislaid(t)'
  BY <1>1 DEF GrantsMislaid, Granting, TokensInOrder
<1>5. OneHolder(t)'
  <2>1. CASE Rotates
    BY <1>0, <1>1, <2>1 DEF OneHolder, Connected
  <2>2. CASE ~Rotates
    <3> SUFFICES ASSUME NEW q \in Requests, req'[q].id = t, Fetched(q)',
                        req'[q].token = current'[t]
                 PROVE  /\ account[t] # None => account[t].token # current[t]
                        /\ \A s \in Requests \ {q} : req'[s].id = t => req'[s].token # current[t]
      BY <1>1, <2>2 DEF OneHolder, Connected
    <3>1. q # r
      BY <1>1, <2>2 DEF Fetched, At, Granting
    <3>2. req'[q] = req[q] /\ Fetched(q) /\ req[q].token = current[t] /\ req[q].id = t
      BY <1>1, <2>2, <3>1 DEF Fetched, At
    <3>3. req[r].token # current[t]
      BY <1>1, <3>1, <3>2 DEF TokensInOrder, OneHolder
    <3> QED BY <1>1, <3>3
  <2> QED BY <2>1, <2>2
<1>6. SeveredRefresh(t)'
  <2> SUFFICES ASSUME NEW q \in Requests, req'[q].id = t, req'[q].phase = "refreshing",
                      ~req'[q].row, req'[q].token = current'[t]
               PROVE  account[t] = None \/ t \in mislaid
    BY <1>1 DEF SeveredRefresh, Connected, At
  <2>1. q # r /\ req'[q] = req[q]
    BY <1>1
  <2>2. req[q].token = current[t]
    BY <1>0, <1>1, <2>1
  <2> QED BY <2>1, <2>2 DEF TokensInOrder, SeveredRefresh, Connected, At
<1>7. RefreshedIsCurrent(t)'
  <2> SUFFICES ASSUME NEW q \in Requests, req'[q].id = t, req'[q].phase = "storing",
                      req'[q].row, t \notin mislaid
               PROVE  req'[q].token = current'[t]
    BY <1>1 DEF RefreshedIsCurrent, At
  <2>1. CASE q = r
    BY <1>1, <2>1
  <2>2. CASE q # r
    <3>1. req'[q] = req[q] /\ req[q].token = current[t]
      BY <1>1, <2>2 DEF TokensInOrder, RefreshedIsCurrent, At
    <3>2. ~Rotates
      BY <1>1, <2>2, <3>1 DEF TokensInOrder, OneHolder, Fetched, At
    <3> QED BY <1>1, <3>1, <3>2
  <2> QED BY <2>1, <2>2
<1>8. StoredIsCurrent(t)'
  <2>1. CASE req[r].row
    BY <1>1, <2>1 DEF StoredIsCurrent, HeldToken, At
  <2>2. CASE ~req[r].row
    BY <1>1, <2>2 DEF StoredIsCurrent, TokensInOrder, SeveredRefresh, Connected, At
  <2> QED BY <2>1, <2>2
<1> QED BY <1>3, <1>4, <1>5, <1>6, <1>7, <1>8 DEF TokensInOrder

LEMMA StoreKeeps ==
  ASSUME ConnectionsTypeOK, NEW t \in TikToks, TokensInOrder(t), NEW r \in Requests, Store(r, t),
         Connected(t)
  PROVE  TokensInOrder(t)'
<1>1. /\ req[r].phase = "storing" /\ req[r].id = t /\ req[r].row
      /\ req'[r] = Idle /\ \A s \in Requests \ {r} : req'[s] = req[s]
      /\ current'[t] = current[t] /\ account'[t].token = req[r].token
      /\ t \in mislaid' <=> t \in mislaid
  BY DEF Store, OthersSame, SameToken, SameMislaid, At
<1>2. Idle.id # t
  BY ConnectionsAssumption DEF Idle
<1>3. ASSUME NEW s \in Requests, req'[s].id = t
      PROVE  s # r /\ req'[s] = req[s]
  BY <1>1, <1>2, <1>3
<1> USE DEF TokensInOrder
<1>5. TokensIssued(t)'
  BY <1>1, <1>3 DEF TokensIssued
<1>6. GrantsMislaid(t)'
  BY <1>1, <1>3 DEF GrantsMislaid
<1>7. OneHolder(t)'
  BY <1>1, <1>3 DEF OneHolder, Fetched, At
<1>8. SeveredRefresh(t)'
  BY <1>1, <1>3 DEF SeveredRefresh, Connected, At
<1>9. RefreshedIsCurrent(t)'
  BY <1>1, <1>3 DEF RefreshedIsCurrent, At
<1>10. StoredIsCurrent(t)'
  BY <1>1 DEF StoredIsCurrent, RefreshedIsCurrent, At
<1> QED BY <1>5, <1>6, <1>7, <1>8, <1>9, <1>10

LEMMA DieKeeps ==
  ASSUME ConnectionsTypeOK, NEW t \in TikToks, TokensInOrder(t), NEW r \in Requests, Die(r, t)
  PROVE  TokensInOrder(t)'
<1>1. /\ req'[r] = Idle /\ \A s \in Requests \ {r} : req'[s] = req[s]
      /\ current'[t] = current[t] /\ account'[t] = account[t] /\ t \in mislaid'
  BY DEF Die, OthersSame, SameToken, SameRow
<1>2. Idle.id # t
  BY ConnectionsAssumption DEF Idle
<1>3. ASSUME NEW s \in Requests, req'[s].id = t
      PROVE  s # r /\ req'[s] = req[s]
  BY <1>1, <1>2, <1>3
<1> USE DEF TokensInOrder
<1>5. TokensIssued(t)'
  BY <1>1, <1>3 DEF TokensIssued, Connected
<1>6. GrantsMislaid(t)' /\ SeveredRefresh(t)' /\ RefreshedIsCurrent(t)' /\ StoredIsCurrent(t)'
  BY <1>1 DEF GrantsMislaid, SeveredRefresh, RefreshedIsCurrent, StoredIsCurrent
<1>7. OneHolder(t)'
  BY <1>1, <1>3 DEF OneHolder, Fetched, At, Connected
<1> QED BY <1>5, <1>6, <1>7

\* Every step does one of these to the tokens of t.
LEMMA TokensOnly ==
  ASSUME ConnectionsTypeOK, PlacedInv, [ConnectionsNext]_vars, NEW t \in TikToks
  PROVE  TokenStep(t)
<1>t. t \in Accounts /\ Idle.id # t
  BY ConnectionsAssumption DEF Accounts, Idle
<1>r. \A s \in Requests : req[s] \in ReqRec
  BY DEF ConnectionsTypeOK
<1>s. ASSUME NEW s \in Requests, req'[s] = req[s] PROVE Kept(s, t)
  BY <1>s DEF Kept
<1>q. ASSUME NEW r \in Requests, OthersSame(r), Kept(r, t), SameRow(t), SameToken(t), SameMislaid(t)
      PROVE  TokenStep(t)
  BY <1>s, <1>q DEF OthersSame, NoTokens, TokenStep
<1>i. ASSUME NEW r \in Requests, req'[r] = Idle, ~At(r, "storing") \/ ~req[r].row \/ req[r].id # t
      PROVE  Kept(r, t)
  BY <1>t, <1>i DEF Kept
<1>u. ASSUME UNCHANGED <<account, current, mislaid>>
      PROVE  SameRow(t) /\ SameToken(t) /\ SameMislaid(t)
  BY <1>u DEF SameRow, SameToken, SameMislaid
\* A callback that has its account goes on with it.
<1>m. ASSUME NEW r \in Requests, req[r].phase \in Granting, OthersSame(r),
             UNCHANGED <<account, current, mislaid>>,
             \/ req'[r] = Idle
             \/ /\ req'[r].phase \in Granting /\ req'[r].id = req[r].id
                /\ req'[r].token = req[r].token /\ req'[r].row = req[r].row
      PROVE  TokenStep(t)
  <2>1. Kept(r, t)
    BY <1>m, <1>i DEF Kept, Granting, At
  <2> QED BY <1>m, <1>q, <1>u, <2>1
<1>1. CASE UNCHANGED <<account, current, req, mislaid>>
  <2>1. \A s \in Requests : Kept(s, t)
    BY <1>1, <1>s
  <2> QED BY <1>1, <1>u, <2>1 DEF NoTokens, TokenStep
<1>2. ASSUME NEW a \in Auths, NEW u \in Users \cup {None},
             NEW i \in {"LOGIN", "LINK", "INSTAGRAM"},
             OpenConsent(a, i, u) \/ Expire(a) \/ ForgetCode(a)
      PROVE  UNCHANGED <<account, current, req, mislaid>>
  BY <1>2 DEF OpenConsent, Expire, ForgetCode
<1>3. ASSUME NEW r \in Requests, NEW a \in Auths, Receive(r, a) \/ ReceiveInstagram(r, a)
      PROVE  TokenStep(t)
  <2>1. /\ At(r, "idle") /\ UNCHANGED <<account, current, mislaid>>
    BY <1>3 DEF Receive, ReceiveInstagram
  <2>2. \/ Becomes(r, [Idle EXCEPT !.phase = "found", !.auth = a])
        \/ Becomes(r, [Idle EXCEPT !.phase = "exchanging", !.auth = a])
    BY <1>3, ReceiveEffect
  <2>3. req'[r].id # t /\ OthersSame(r)
    BY <2>2, ConnectionsAssumption DEF Becomes, Idle, OthersSame
  <2> QED BY <1>q, <1>u, <2>1, <2>3 DEF Kept, At
<1>4. ASSUME NEW r \in Requests, NEW i \in TikToks, StartRefresh(r, i)
      PROVE  TokenStep(t)
  <2>1. /\ At(r, "idle") /\ UNCHANGED <<account, current, mislaid>> /\ Connected(i)
    BY <1>4 DEF StartRefresh
  <2>2. Becomes(r, [Idle EXCEPT !.phase = "refreshing", !.id = i,
                      !.token = account[i].token, !.row = TRUE])
    BY <1>4, StartRefreshEffect
  <2>3. /\ req'[r].id = i /\ req'[r].phase = "refreshing" /\ req'[r].token = account[i].token
        /\ req'[r].row = TRUE /\ OthersSame(r)
    BY <2>2 DEF Becomes, Idle, OthersSame
  <2>4. CASE i = t
    BY <1>u, <2>1, <2>3, <2>4 DEF Start, TokenStep
  <2>5. CASE i # t
    BY <1>q, <1>u, <2>1, <2>3, <2>5 DEF Kept, At
  <2> QED BY <2>4, <2>5
<1>5. ASSUME NEW r \in Requests, Callback(r)
      PROVE  TokenStep(t)
  <2>1. CASE Consume(r) \/ ExchangeRefused(r)
    <3>1. /\ At(r, "found") \/ At(r, "exchanging")
          /\ UNCHANGED <<account, current, mislaid>>
      BY <2>1 DEF Consume, ExchangeRefused
    <3>2. \/ Becomes(r, Idle)
          \/ Becomes(r, [req[r] EXCEPT !.phase = "exchanging"])
      BY <2>1, ConsumeEffect, FinishRequest DEF ExchangeRefused, Becomes
    <3>3. OthersSame(r)
      BY <3>2 DEF Becomes, OthersSame
    <3>4. CASE Becomes(r, Idle)
      BY <1>i, <1>q, <1>u, <3>1, <3>3, <3>4 DEF Becomes, At
    <3>5. CASE Becomes(r, [req[r] EXCEPT !.phase = "exchanging"])
      <4>1. /\ req'[r].phase = "exchanging" /\ req'[r].id = req[r].id
            /\ req'[r].token = req[r].token /\ req'[r].row = req[r].row
        BY <1>r, <3>5 DEF Becomes, ReqRec
      <4>2. req[r].id # t
        BY <3>1, ConnectionsAssumption DEF PlacedInv, Placed
      <4> QED BY <1>q, <1>u, <3>1, <3>3, <4>1, <4>2 DEF Kept
    <3> QED BY <3>2, <3>4, <3>5
  <2>2. ASSUME NEW i \in TikToks, NEW p \in BOOLEAN, ExchangeTikTok(r, i, p)
        PROVE  TokenStep(t)
    <3>1. /\ At(r, "exchanging") /\ account' = account /\ mislaid' = mislaid \cup {i}
          /\ ~req[r].row
      BY <2>2 DEF ExchangeTikTok, PlacedInv, Placed, At
    <3>2. /\ Becomes(r, [req[r] EXCEPT !.phase = "identifying", !.id = i,
                                       !.token = current[i] + 1, !.publish = p])
          /\ current'[i] = current[i] + 1
          /\ \A x \in TikToks \ {i} : current'[x] = current[x]
      BY <2>2, ExchangeTikTokEffect
    <3>3. /\ req'[r].id = i /\ req'[r].phase = "identifying" /\ req'[r].token = current[i] + 1
          /\ req'[r].row = FALSE /\ OthersSame(r)
      BY <1>r, <3>1, <3>2 DEF Becomes, ReqRec, OthersSame
    <3>4. CASE i = t
      BY <3>1, <3>2, <3>3, <3>4 DEF Grant, SameRow, TokenStep
    <3>5. CASE i # t
      BY <1>q, <3>1, <3>2, <3>3, <3>5 DEF Kept, At, SameRow, SameToken, SameMislaid
    <3> QED BY <3>4, <3>5
  <2>3. ASSUME NEW i \in Instagrams, ExchangeInstagram(r, i)
        PROVE  TokenStep(t)
    <3>1. At(r, "exchanging") /\ UNCHANGED <<account, current, mislaid>>
      BY <2>3 DEF ExchangeInstagram
    <3>2. Becomes(r, [req[r] EXCEPT !.phase = "looking", !.id = i,
                        !.user = auth[req[r].auth].user, !.publish = TRUE])
      BY <2>3, ExchangeInstagramEffect
    <3>3. req'[r].id = i /\ OthersSame(r)
      BY <1>r, <3>2 DEF Becomes, ReqRec, OthersSame
    <3> QED BY <1>q, <1>u, <3>1, <3>3, ConnectionsAssumption DEF Kept, At
  <2>4. ASSUME req[r].phase \in Granting, UNCHANGED <<account, current, mislaid>>,
               \/ Becomes(r, Idle)
               \/ \E p \in Granting : Becomes(r, [req[r] EXCEPT !.phase = p])
               \/ \E u \in Users : Becomes(r, [req[r] EXCEPT !.phase = "looking", !.user = u])
        PROVE  TokenStep(t)
    <3>1. OthersSame(r)
      BY <2>4 DEF Becomes, OthersSame
    <3>2. \/ req'[r] = Idle
          \/ /\ req'[r].phase \in Granting /\ req'[r].id = req[r].id
             /\ req'[r].token = req[r].token /\ req'[r].row = req[r].row
      <4>1. CASE Becomes(r, Idle)
        BY <4>1 DEF Becomes
      <4>2. ASSUME NEW p \in Granting, Becomes(r, [req[r] EXCEPT !.phase = p])
            PROVE  /\ req'[r].phase \in Granting /\ req'[r].id = req[r].id
                   /\ req'[r].token = req[r].token /\ req'[r].row = req[r].row
        BY <1>r, <4>2 DEF Becomes, ReqRec
      <4>3. ASSUME NEW u \in Users, Becomes(r, [req[r] EXCEPT !.phase = "looking", !.user = u])
            PROVE  /\ req'[r].phase \in Granting /\ req'[r].id = req[r].id
                   /\ req'[r].token = req[r].token /\ req'[r].row = req[r].row
        BY <1>r, <4>3 DEF Becomes, ReqRec, Granting
      <4> QED BY <2>4, <4>1, <4>2, <4>3
    <3> QED BY <1>m, <2>4, <3>1, <3>2
  <2>5. CASE ResolveLogin(r)
    BY <2>4, <2>5, ResolveLoginEffect DEF ResolveLogin, At, Granting
  <2>6. CASE CreateUser(r)
    BY <2>4, <2>6, CreateUserEffect DEF CreateUser, At, Granting
  <2>7. CASE CheckIdentity(r)
    BY <2>4, <2>7, CheckIdentityEffect DEF CheckIdentity, At, Granting
  <2>8. CASE LinkIdentity(r)
    BY <2>4, <2>8, LinkIdentityEffect DEF LinkIdentity, At, Granting
  <2>9. CASE LookForRow(r) \/ CountAccounts(r)
    BY <2>4, <2>9, LookForRowEffect DEF LookForRow, CountAccounts, At, Granting
  <2>10. CASE UpsertAccount(r)
    <3> DEFINE i == req[r].id
    <3>1. /\ At(r, "upserting") /\ current' = current
          /\ mislaid' = IF i \in TikToks /\ ~StillMislaid(r, i, req[r].token)
                        THEN mislaid \ {i} ELSE mislaid
      BY <2>10 DEF UpsertAccount
    <3>2. /\ Holds(i, RowAfterConnect(i, req[r])) /\ req'[r] = Idle /\ OthersSame(r)
      BY <2>10, UpsertAccountEffect DEF Becomes, OthersSame
    <3>3. CASE i = t
      <4>1. account'[t].token = req[r].token
        BY <3>2, <3>3 DEF Holds, RowAfterConnect
      <4> QED BY <3>1, <3>2, <3>3, <4>1 DEF Upsert, SameToken, TokenStep
    <3>4. CASE i # t
      <4>1. SameRow(t) /\ SameToken(t) /\ SameMislaid(t)
        BY <1>t, <3>1, <3>2, <3>4 DEF Holds, SameRow, SameToken, SameMislaid
      <4> QED BY <1>i, <1>q, <3>2, <3>4, <4>1
    <3> QED BY <3>3, <3>4
  <2> QED BY <1>5, <2>1, <2>2, <2>3, <2>5, <2>6, <2>7, <2>8, <2>9, <2>10 DEF Callback
<1>6. ASSUME NEW r \in Requests, AskRefresh(r)
      PROVE  TokenStep(t)
  <2> DEFINE i == req[r].id
  <2>1. /\ At(r, "refreshing") /\ UNCHANGED <<account, mislaid>>
    BY <1>6 DEF AskRefresh
  <2>2. CASE UNCHANGED current /\ Becomes(r, Idle)
    <3>1. OthersSame(r) /\ req'[r] = Idle
      BY <2>2 DEF Becomes, OthersSame
    <3> QED BY <1>i, <1>q, <1>u, <2>1, <2>2, <3>1 DEF At
  <2>3. CASE /\ req[r].token = current[i]
             /\ current'[i] = IF Rotates THEN current[i] + 1 ELSE current[i]
             /\ \A x \in TikToks \ {i} : current'[x] = current[x]
             /\ Becomes(r, [req[r] EXCEPT !.phase = "storing", !.token = current'[i]])
    <3>1. /\ req'[r].id = i /\ req'[r].phase = "storing" /\ req'[r].token = current'[i]
          /\ req'[r].row = req[r].row /\ OthersSame(r)
      BY <1>r, <2>3 DEF Becomes, ReqRec, OthersSame
    <3>2. CASE i = t
      BY <2>1, <2>3, <3>1, <3>2 DEF Fetch, SameRow, SameMislaid, TokenStep
    <3>3. CASE i # t
      BY <1>q, <2>1, <2>3, <3>1, <3>3 DEF Kept, SameRow, SameToken, SameMislaid
    <3> QED BY <3>2, <3>3
  <2> QED BY <1>6, <2>2, <2>3, AskRefreshEffect
<1>7. ASSUME NEW r \in Requests, StoreRefresh(r)
      PROVE  TokenStep(t)
  <2> DEFINE i == req[r].id
  <2>1. /\ At(r, "storing") /\ UNCHANGED <<current, mislaid>> /\ req'[r] = Idle /\ OthersSame(r)
    BY <1>7, StoreRefreshEffect DEF StoreRefresh, Becomes, OthersSame
  <2>2. CASE ~req[r].row /\ UNCHANGED account
    BY <1>i, <1>q, <1>u, <2>1, <2>2
  <2>3. CASE /\ req[r].row /\ account[i] \in RowRec
             /\ Holds(i, [account[i] EXCEPT !.token = req[r].token])
    <3>1. CASE i = t
      <4>1. account'[t].token = req[r].token
        BY <2>3, <3>1 DEF Holds, RowRec
      <4> QED BY <2>1, <2>3, <3>1, <4>1 DEF Store, SameToken, SameMislaid, TokenStep
    <3>2. CASE i # t
      <4>1. SameRow(t)
        BY <1>t, <2>3, <3>2 DEF Holds, SameRow
      <4> QED BY <1>i, <1>q, <2>1, <3>2, <4>1 DEF SameToken, SameMislaid
    <3> QED BY <3>1, <3>2
  <2> QED BY <1>7, <2>2, <2>3, StoreRefreshEffect
<1>8. ASSUME NEW r \in Requests, RequestDies(r)
      PROVE  TokenStep(t)
  <2>1. /\ UNCHANGED <<account, current>> /\ req'[r] = Idle /\ OthersSame(r)
        /\ mislaid' = IF At(r, "storing") THEN mislaid \cup {req[r].id} ELSE mislaid
    BY <1>8, FinishRequest DEF RequestDies, OthersSame
  <2>2. CASE At(r, "storing") /\ req[r].id = t
    BY <2>1, <2>2 DEF Die, SameRow, SameToken, TokenStep
  <2>3. CASE ~At(r, "storing") \/ req[r].id # t
    BY <1>i, <1>q, <2>1, <2>3 DEF SameRow, SameToken, SameMislaid
  <2> QED BY <2>2, <2>3
<1>9. ASSUME NEW i \in Accounts, Disconnect(i)
      PROVE  TokenStep(t)
  <2>1. UNCHANGED <<current, mislaid>>
    BY <1>9 DEF Disconnect
  <2>2. /\ Holds(i, None)
        /\ \A s \in Requests : IF req[s].id = i THEN req'[s] = [req[s] EXCEPT !.row = FALSE]
                                                ELSE req'[s] = req[s]
    BY <1>9, DisconnectEffect
  <2>3. ASSUME NEW s \in Requests
        PROVE  /\ req'[s].id = req[s].id /\ req'[s].phase = req[s].phase
               /\ req'[s].token = req[s].token
               /\ req[s].id = i => req'[s].row = FALSE
    BY <1>r, <2>2 DEF ReqRec
  <2>4. CASE i = t
    BY <2>1, <2>2, <2>3, <2>4 DEF Sever, Holds, SameToken, SameMislaid, TokenStep
  <2>5. CASE i # t
    <3>1. SameRow(t) /\ SameToken(t) /\ SameMislaid(t)
      BY <1>t, <2>1, <2>2, <2>5 DEF Holds, SameRow, SameToken, SameMislaid
    <3>2. ASSUME NEW s \in Requests PROVE Kept(s, t)
      <4>1. CASE req[s].id = i
        BY <2>3, <2>5, <4>1 DEF Kept
      <4>2. CASE req[s].id # i
        BY <1>s, <2>2, <4>2
      <4> QED BY <4>1, <4>2
    <3> QED BY <3>1, <3>2 DEF NoTokens, TokenStep
  <2> QED BY <2>4, <2>5
<1>10. CASE UNCHANGED vars
  BY <1>10, <1>1 DEF vars
<1> QED BY <1>1, <1>2, <1>3, <1>4, <1>5, <1>6, <1>7, <1>8, <1>9, <1>10
        DEF ConnectionsNext, Refresh

LEMMA TokenInvStep ==
  ASSUME ConnectionsTypeOK, PlacedInv, TokenInv, [ConnectionsNext]_vars
  PROVE  TokenInv'
<1> SUFFICES ASSUME NEW t \in TikToks PROVE TokensInOrder(t)'
  BY DEF TokenInv
<1>0. TokensInOrder(t) /\ TokenStep(t)
  BY TokensOnly DEF TokenInv
<1>1. CASE NoTokens(t)
  BY <1>0, <1>1, NoTokensKeeps
<1>2. CASE Sever(t)
  BY <1>0, <1>2, SeverKeeps
<1>3. ASSUME NEW r \in Requests, Grant(r, t) PROVE TokensInOrder(t)'
  BY <1>0, <1>3, GrantKeeps
<1>4. ASSUME NEW r \in Requests, Upsert(r, t) PROVE TokensInOrder(t)'
  BY <1>0, <1>4, UpsertKeeps
<1>5. ASSUME NEW r \in Requests, Start(r, t) PROVE TokensInOrder(t)'
  BY <1>0, <1>5, StartKeeps
<1>6. ASSUME NEW r \in Requests, Fetch(r, t) PROVE TokensInOrder(t)'
  BY <1>0, <1>6, FetchKeeps
<1>7. ASSUME NEW r \in Requests, Store(r, t) PROVE TokensInOrder(t)'
  <2>1. Connected(t)
    BY <1>7 DEF Store, PlacedInv, Placed
  <2> QED BY <1>0, <1>7, <2>1, StoreKeeps
<1>8. ASSUME NEW r \in Requests, Die(r, t) PROVE TokensInOrder(t)'
  BY <1>0, <1>8, DieKeeps
<1> QED BY <1>0, <1>1, <1>2, <1>3, <1>4, <1>5, <1>6, <1>7, <1>8 DEF TokenStep

-----------------------------------------------------------------------------
\* The limit of a brand.

\* The accounts of a brand, with those that callbacks past their check are to
\* add to it.  Of these every callback adds one at the most.
Adds(r, b, i) == At(r, "upserting") /\ req[r].user = b /\ req[r].id = i
Reach(b) == InBrand(b) \cup {i \in Accounts : ~Connected(i) /\ \E r \in Requests : Adds(r, b, i)}
BrandLimit(b) == Cardinality(Reach(b) \ moved) <= Limit + (Cardinality(Requests) - 1)
LimitInv == \A b \in Users : BrandLimit(b)

\* A set that is no larger, and the ids of the requests, are counted.
LEMMA FewerAccounts ==
  ASSUME NEW T \in SUBSET Accounts, NEW S \in SUBSET T
  PROVE  /\ Cardinality(S) \in Nat /\ Cardinality(T) \in Nat
         /\ Cardinality(S) <= Cardinality(T)
<1>1. IsFiniteSet(T)
  BY ConnectionsAssumption, FS_Subset DEF Accounts
<1> QED BY <1>1, FS_Subset, FS_CardinalityType

LEMMA CountsAreNumbers ==
  /\ IsFiniteSet(Requests) /\ Cardinality(Requests) \in Nat
  /\ Cardinality(Requests) >= 1 /\ Limit \in Nat
<1>1. Cardinality(Requests) \in Nat /\ Cardinality(Requests) # 0
  BY ConnectionsAssumption, FS_CardinalityType, FS_EmptySet
<1> QED BY <1>1, ConnectionsAssumption

LEMMA OnePerRequest ==
  ASSUME NEW f \in [Requests -> Accounts \cup {None}],
         NEW S \in SUBSET {f[r] : r \in Requests}
  PROVE  IsFiniteSet(S) /\ Cardinality(S) \in Nat /\ Cardinality(S) <= Cardinality(Requests)
<1> DEFINE T == {f[r] : r \in Requests}
<1>1. f \in Surjection(Requests, T)
  BY DEF Surjection
<1>2. IsFiniteSet(T) /\ Cardinality(T) <= Cardinality(Requests)
  BY <1>1, CountsAreNumbers, FS_Surjection
<1>3. IsFiniteSet(S) /\ Cardinality(S) <= Cardinality(T)
  BY <1>2, FS_Subset
<1>4. Cardinality(S) \in Nat /\ Cardinality(T) \in Nat
  BY <1>2, <1>3, FS_CardinalityType
<1> QED BY <1>2, <1>3, <1>4, CountsAreNumbers

\* A brand that reaches no more accounts stays within its limit.
LEMMA LimitKept ==
  ASSUME NEW b \in Users, BrandLimit(b), Reach(b)' \ moved' \subseteq Reach(b) \ moved
  PROVE  BrandLimit(b)'
<1>1. Reach(b) \ moved \subseteq Accounts
  BY DEF Reach, InBrand
<1>2. /\ Cardinality(Reach(b)' \ moved') \in Nat /\ Cardinality(Reach(b) \ moved) \in Nat
      /\ Cardinality(Reach(b)' \ moved') <= Cardinality(Reach(b) \ moved)
  BY <1>1, FewerAccounts
<1> QED BY <1>2, CountsAreNumbers DEF BrandLimit

\* A brand with room for an account has room for one of each request.
LEMMA LimitCounted ==
  ASSUME ConnectionsTypeOK', NEW b \in Users, RoomFor(b), UNCHANGED account
  PROVE  BrandLimit(b)'
<1> DEFINE S == InBrand(b)
           f == [r \in Requests |-> req'[r].id]
           T == {i \in Accounts : \E r \in Requests : Adds(r, b, i)'}
<1>1. f \in [Requests -> Accounts \cup {None}]
  BY DEF ConnectionsTypeOK, ReqRec
<1>2. T \subseteq {f[r] : r \in Requests}
  BY DEF Adds
<1>3. IsFiniteSet(T) /\ Cardinality(T) \in Nat /\ Cardinality(T) <= Cardinality(Requests)
  <2> HIDE DEF f, T
  <2> QED BY <1>1, <1>2, OnePerRequest
<1>4. S \subseteq Accounts /\ IsFiniteSet(S) /\ Cardinality(S) \in Nat
  BY ConnectionsAssumption, FS_Subset, FS_CardinalityType DEF InBrand, Accounts
<1>5. Cardinality(S) <= Limit - 1
  BY <1>4, CountsAreNumbers DEF RoomFor
<1>6. Reach(b)' \ moved' \subseteq S \cup T
  BY DEF Reach, InBrand, Connected
<1>7. IsFiniteSet(S \cup T) /\ Cardinality(S \cup T) <= Cardinality(S) + Cardinality(T)
         /\ Cardinality(S \cup T) \in Nat
  <2>1. IsFiniteSet(S \cap T)
    BY <1>3, FS_Subset
  <2>2. Cardinality(S \cap T) \in Nat /\ Cardinality(S \cup T) \in Nat
    BY <1>3, <1>4, <2>1, FS_Union, FS_CardinalityType
  <2> HIDE DEF S, T
  <2> QED BY <1>3, <1>4, <2>2, FS_Union
<1>8. S \cup T \subseteq Accounts
  BY <1>4
<1>9. Cardinality(Reach(b)' \ moved') <= Cardinality(S \cup T)
         /\ Cardinality(Reach(b)' \ moved') \in Nat
  <2> HIDE DEF S, T
  <2> QED BY <1>6, <1>8, FewerAccounts
<1> HIDE DEF S, T
<1> QED BY <1>3, <1>4, <1>5, <1>7, <1>9, CountsAreNumbers DEF BrandLimit

\* A callback that comes to write has counted, or has seen a row.
Writers ==
  \A s \in Requests :
    At(s, "upserting")' =>
      \/ At(s, "upserting") /\ req'[s].id = req[s].id /\ req'[s].user = req[s].user
      \/ Connected(req[s].id) /\ req'[s].id = req[s].id

\* Rows that keep their brand, and no new callback that adds one.
LEMMA ReachKept ==
  ASSUME NEW b \in Users, Writers, UNCHANGED moved,
         \A i \in Accounts : /\ Connected(i)' <=> Connected(i)
                             /\ Connected(i) => account'[i].brand = account[i].brand
  PROVE  Reach(b)' \ moved' \subseteq Reach(b) \ moved
<1>1. ASSUME NEW i \in Accounts, i \in InBrand(b)' PROVE i \in Reach(b)
  BY <1>1 DEF InBrand, Reach
<1>2. ASSUME NEW i \in Accounts, ~Connected(i)', NEW r \in Requests, Adds(r, b, i)'
      PROVE  i \in Reach(b)
  <2>1. At(r, "upserting") /\ req'[r].id = req[r].id /\ req'[r].user = req[r].user
    BY <1>2 DEF Writers, Adds
  <2> QED BY <1>2, <2>1 DEF Adds, Reach
<1> QED BY <1>1, <1>2 DEF Reach, InBrand

LEMMA ReachUpsert ==
  ASSUME ConnectionsTypeOK, PlacedInv, NEW b \in Users, NEW r \in Requests, UpsertAccount(r)
  PROVE  Reach(b)' \ moved' \subseteq Reach(b) \ moved
<1>i. PICK i \in Accounts : i = req[r].id
  BY UpsertAccountEffect
<1>1. /\ account'[i] = RowAfterConnect(i, req[r])
      /\ RowAfterConnect(i, req[r]) \in RowRec
      /\ \A t \in Accounts \ {i} : account'[t] = account[t]
      /\ req'[r] = Idle /\ \A s \in Requests \ {r} : req'[s] = req[s]
      /\ moved' = moved /\ At(r, "upserting")
  BY <1>i, UpsertAccountEffect DEF Holds, Becomes, UpsertAccount
<1>a. account'[i] # None
  BY <1>1, NoneIsNoRow
<1>b. RowAfterConnect(i, req[r]).brand = IF Connected(i) THEN account[i].brand ELSE req[r].user
  BY DEF RowAfterConnect
<1>2. Connected(i)' /\ account'[i].brand = IF Connected(i) THEN account[i].brand ELSE req[r].user
  BY <1>1, <1>a, <1>b DEF Connected
<1>3. ASSUME NEW s \in Requests, NEW t \in Accounts, Adds(s, b, t)' PROVE Adds(s, b, t)
  <2>1. req'[r].phase = "idle"
    BY <1>1 DEF Idle
  <2>2. s # r
    BY <1>3, <2>1 DEF Adds, At
  <2>3. req'[s] = req[s]
    BY <1>1, <2>2
  <2> QED BY <1>3, <2>3 DEF Adds, At
<1>4. ASSUME NEW t \in Accounts, t \in InBrand(b)' PROVE t \in Reach(b)
  <2>1. CASE t = i /\ ~Connected(i)
    <3>1. Adds(r, b, t)
      BY <1>i, <1>1, <1>2, <1>4, <2>1 DEF InBrand, Adds
    <3> QED BY <2>1, <3>1 DEF Reach
  <2>2. CASE t = i /\ Connected(i)
    BY <1>2, <1>4, <2>2 DEF InBrand, Reach
  <2>3. CASE t # i
    BY <1>1, <1>4, <2>3 DEF InBrand, Connected, Reach
  <2> QED BY <2>1, <2>2, <2>3
<1>5. ASSUME NEW t \in Accounts, ~Connected(t)', NEW s \in Requests, Adds(s, b, t)'
      PROVE  t \in Reach(b)
  <2>a. account'[t] = None
    BY <1>5 DEF Connected
  <2>b. t # i
    BY <2>a, <1>a
  <2>1. t # i /\ ~Connected(t)
    BY <1>1, <2>a, <2>b DEF Connected
  <2>2. Adds(s, b, t)
    BY <1>3, <1>5
  <2> QED BY <2>1, <2>2 DEF Reach
<1>6. ASSUME NEW t \in Accounts, t \in Reach(b)' PROVE t \in Reach(b)
  <2>1. CASE t \in InBrand(b)'
    BY <1>4, <2>1
  <2>2. CASE ~Connected(t)' /\ \E s \in Requests : Adds(s, b, t)'
    BY <1>5, <2>2
  <2> QED BY <1>6, <2>1, <2>2 DEF Reach
<1>7. Reach(b)' \subseteq Accounts
  BY DEF Reach, InBrand
<1>8. moved' = moved
  BY <1>1
<1> QED BY <1>6, <1>7, <1>8

LEMMA ReachDisconnect ==
  ASSUME ConnectionsTypeOK, NEW b \in Users, NEW i \in Accounts, Disconnect(i)
  PROVE  Reach(b)' \ moved' \subseteq Reach(b) \ moved
<1> DEFINE writers == {r \in Requests : At(r, "upserting") /\ req[r].id = i}
<1>1. /\ account'[i] = None /\ Connected(i) /\ moved' = Moved(i)
      /\ \A t \in Accounts \ {i} : account'[t] = account[t]
  BY DisconnectEffect DEF Holds, Disconnect
<1>2. \A r \in Requests : /\ req'[r].phase = req[r].phase /\ req'[r].id = req[r].id
                          /\ req'[r].user = req[r].user
  BY DisconnectEffect DEF ConnectionsTypeOK, ReqRec
<1>3. \A r \in Requests : \A t \in Accounts : Adds(r, b, t)' <=> Adds(r, b, t)
  BY <1>2 DEF Adds, At
<1>4. ASSUME NEW t \in Accounts, t \in Reach(b)' \ moved', t # i
      PROVE  t \in Reach(b) \ moved
  <2>1. t \notin moved
    BY <1>1, <1>4 DEF Moved
  <2>2. Connected(t)' <=> Connected(t)
    BY <1>1, <1>4 DEF Connected
  <2> QED BY <1>1, <1>3, <1>4, <2>1, <2>2 DEF Reach, InBrand
<1>5. ASSUME i \in Reach(b)' \ moved' PROVE i \in Reach(b) \ moved
  <2>1. PICK r \in Requests : Adds(r, b, i)
    BY <1>1, <1>3, <1>5 DEF Reach, InBrand, Connected
  <2>2. r \in writers /\ req[r].user = b
    BY <2>1 DEF Adds
  <2>3. account[i].brand = b
    BY <1>1, <1>5, <2>2 DEF Moved
  <2>4. i \notin moved
    BY <1>1, <1>5, <2>2 DEF Moved
  <2> QED BY <1>1, <2>3, <2>4 DEF Reach, InBrand
<1> QED BY <1>4, <1>5 DEF Reach, InBrand

\* A step of a request that comes to no write leaves the writers as they were.
Aside(r) == /\ req'[r].phase # "upserting" /\ UNCHANGED <<account, moved>>
            /\ \A s \in Requests \ {r} : req'[s] = req[s]

LEMMA AsideReach ==
  ASSUME NEW b \in Users, NEW r \in Requests, Aside(r)
  PROVE  Reach(b)' \ moved' \subseteq Reach(b) \ moved
<1>1. Writers
  BY DEF Aside, Writers, At
<1> QED BY <1>1, ReachKept DEF Aside, Connected

LEMMA CallbackAside ==
  ASSUME ConnectionsTypeOK, PlacedInv, NEW r \in Requests,
         \/ Consume(r) \/ ExchangeRefused(r)
         \/ \E i \in TikToks, p \in BOOLEAN : ExchangeTikTok(r, i, p)
         \/ \E i \in Instagrams : ExchangeInstagram(r, i)
         \/ ResolveLogin(r) \/ CreateUser(r) \/ CheckIdentity(r) \/ LinkIdentity(r)
         \/ \E a \in Auths : Receive(r, a) \/ ReceiveInstagram(r, a)
         \/ \E i \in TikToks : StartRefresh(r, i)
         \/ AskRefresh(r) \/ RequestDies(r)
  PROVE  Aside(r)
<1>r. req \in [Requests -> ReqRec] /\ req[r] \in ReqRec
  BY DEF ConnectionsTypeOK
<1>1. CASE Consume(r)
  BY <1>r, <1>1 DEF Consume, Goto, Finish, Idle, Aside, ReqRec
<1>2. CASE CheckIdentity(r)
  BY <1>r, <1>2 DEF CheckIdentity, Goto, Finish, Idle, Aside, ReqRec
<1>3. CASE ExchangeRefused(r) \/ RequestDies(r)
  BY <1>r, <1>3 DEF ExchangeRefused, RequestDies, Finish, Idle, Aside, ReqRec
<1>7. ASSUME NEW i \in TikToks, NEW p \in BOOLEAN, ExchangeTikTok(r, i, p) PROVE Aside(r)
  <2>1. Becomes(r, [req[r] EXCEPT !.phase = "identifying", !.id = i,
                                  !.token = current[i] + 1, !.publish = p])
    BY <1>7, ExchangeTikTokEffect
  <2>2. req'[r].phase # "upserting"
    BY <1>r, <2>1 DEF Becomes, ReqRec
  <2>3. UNCHANGED <<account, moved>>
    BY <1>7 DEF ExchangeTikTok
  <2> QED BY <2>1, <2>2, <2>3 DEF Aside, Becomes
<1>8. ASSUME NEW i \in Instagrams, ExchangeInstagram(r, i) PROVE Aside(r)
  <2>1. Becomes(r, [req[r] EXCEPT !.phase = "looking", !.id = i,
                                  !.user = auth[req[r].auth].user, !.publish = TRUE])
    BY <1>8, ExchangeInstagramEffect
  <2>2. req'[r].phase # "upserting"
    BY <1>r, <2>1 DEF Becomes, ReqRec
  <2>3. UNCHANGED <<account, moved>>
    BY <1>8 DEF ExchangeInstagram
  <2> QED BY <2>1, <2>2, <2>3 DEF Aside, Becomes
<1>4. CASE ResolveLogin(r) \/ CreateUser(r) \/ LinkIdentity(r)
  BY <1>r, <1>4 DEF ResolveLogin, CreateUser, LinkIdentity, Goto, Aside, ReqRec
<1>5. CASE \/ \E a \in Auths : Receive(r, a) \/ ReceiveInstagram(r, a)
           \/ \E i \in TikToks : StartRefresh(r, i)
  BY <1>r, <1>5 DEF Receive, ReceiveInstagram, StartRefresh, Idle, Aside
<1>6. CASE AskRefresh(r)
  BY <1>r, <1>6 DEF AskRefresh, Finish, Idle, Aside, ReqRec
<1> QED BY <1>1, <1>2, <1>3, <1>4, <1>5, <1>6, <1>7, <1>8

LEMMA LimitStep ==
  ASSUME ConnectionsTypeOK, ConnectionsTypeOK', PlacedInv, LimitInv, [ConnectionsNext]_vars,
         NEW b \in Users
  PROVE  BrandLimit(b)'
<1>0. BrandLimit(b)
  BY DEF LimitInv
<1>r. req \in [Requests -> ReqRec]
  BY DEF ConnectionsTypeOK
<1>1. ASSUME UNCHANGED <<account, req, moved>> PROVE BrandLimit(b)'
  BY <1>0, <1>1 DEF BrandLimit, Reach, InBrand, Connected, Adds, At
<1>2. ASSUME NEW a \in Auths, NEW u \in Users \cup {None},
             NEW i \in {"LOGIN", "LINK", "INSTAGRAM"},
             OpenConsent(a, i, u) \/ Expire(a) \/ ForgetCode(a)
      PROVE  BrandLimit(b)'
  BY <1>1, <1>2 DEF OpenConsent, Expire, ForgetCode
<1>3. ASSUME NEW r \in Requests, Aside(r) PROVE BrandLimit(b)'
  BY <1>0, <1>3, AsideReach, LimitKept
<1>4. ASSUME NEW r \in Requests, LookForRow(r) PROVE BrandLimit(b)'
  <2>1. CASE Connected(req[r].id)
    <3>1. /\ UNCHANGED <<account, moved>> /\ req'[r].id = req[r].id
          /\ \A s \in Requests \ {r} : req'[s] = req[s]
      BY <1>r, <1>4 DEF LookForRow, Goto, ReqRec
    <3>2. Writers
      BY <2>1, <3>1 DEF Writers, At
    <3> QED BY <1>0, <3>1, <3>2, ReachKept, LimitKept DEF Connected
  <2>2. CASE ~Connected(req[r].id)
    <3>1. Aside(r)
      BY <1>r, <1>4, <2>2 DEF LookForRow, Goto, Aside, ReqRec
    <3> QED BY <1>3, <3>1
  <2> QED BY <2>1, <2>2
<1>5. ASSUME NEW r \in Requests, CountAccounts(r) PROVE BrandLimit(b)'
  <2>1. CASE RoomFor(req[r].user) /\ req[r].user = b
    BY <1>5, <2>1, LimitCounted DEF CountAccounts
  <2>2. CASE ~RoomFor(req[r].user)
    <3>1. Aside(r)
      BY <1>r, <1>5, <2>2 DEF CountAccounts, Finish, Idle, Aside
    <3> QED BY <1>3, <3>1
  <2>3. CASE RoomFor(req[r].user) /\ req[r].user # b
    <3>1. /\ UNCHANGED <<account, moved>> /\ req'[r].user = req[r].user
          /\ \A s \in Requests \ {r} : req'[s] = req[s]
      BY <1>r, <1>5, <2>3 DEF CountAccounts, Goto, ReqRec
    <3>2. \A s \in Requests : \A i \in Accounts : Adds(s, b, i)' => Adds(s, b, i)
      BY <2>3, <3>1 DEF Adds, At
    <3>3. Reach(b)' \ moved' \subseteq Reach(b) \ moved
      BY <3>1, <3>2 DEF Reach, InBrand, Connected
    <3> QED BY <1>0, <3>3, LimitKept
  <2> QED BY <2>1, <2>2, <2>3
<1>6. ASSUME NEW r \in Requests, UpsertAccount(r) PROVE BrandLimit(b)'
  BY <1>0, <1>6, ReachUpsert, LimitKept
<1>7. ASSUME NEW r \in Requests, StoreRefresh(r) PROVE BrandLimit(b)'
  <2>1. CASE UNCHANGED account
    <3>1. Aside(r)
      BY <1>r, <1>7, <2>1 DEF StoreRefresh, Finish, Idle, Aside
    <3> QED BY <1>3, <3>1
  <2>2. CASE /\ account[req[r].id] \in RowRec
             /\ Holds(req[r].id, [account[req[r].id] EXCEPT !.token = req[r].token])
    <3> DEFINE i == req[r].id
    <3>1. /\ account'[i].brand = account[i].brand /\ account[i] # None /\ account'[i] # None
          /\ \A t \in Accounts \ {i} : account'[t] = account[t]
      <4>1. [account[i] EXCEPT !.token = req[r].token] # None
        BY <2>2, NoneIsNoRow, StoreRefreshEffect, <1>7 DEF Holds, RowRec, ConnectionsTypeOK, ReqRec
      <4> QED BY <2>2, <4>1, NoneIsNoRow DEF Holds, RowRec
    <3>2. Writers /\ UNCHANGED moved
      BY <1>r, <1>7 DEF StoreRefresh, Finish, Idle, Writers, At
    <3>3. \A t \in Accounts : /\ Connected(t)' <=> Connected(t)
                              /\ Connected(t) => account'[t].brand = account[t].brand
      BY <3>1 DEF Connected
    <3> QED BY <1>0, <3>2, <3>3, ReachKept, LimitKept
  <2> QED BY <1>7, <2>1, <2>2, StoreRefreshEffect
<1>8. ASSUME NEW i \in Accounts, Disconnect(i) PROVE BrandLimit(b)'
  BY <1>0, <1>8, ReachDisconnect, LimitKept
<1>9. ASSUME NEW r \in Requests,
             \/ Callback(r) \/ Refresh(r) \/ RequestDies(r)
             \/ \E a \in Auths : Receive(r, a) \/ ReceiveInstagram(r, a)
             \/ \E i \in TikToks : StartRefresh(r, i)
      PROVE  BrandLimit(b)'
  <2>1. \/ Aside(r) \/ LookForRow(r) \/ CountAccounts(r) \/ UpsertAccount(r) \/ StoreRefresh(r)
    BY <1>9, CallbackAside DEF Callback, Refresh
  <2> QED BY <2>1, <1>3, <1>4, <1>5, <1>6, <1>7
<1> QED BY <1>1, <1>2, <1>8, <1>9 DEF ConnectionsNext, vars

LEMMA LimitInit == ConnectionsInit => LimitInv
<1> SUFFICES ASSUME ConnectionsInit, NEW b \in Users PROVE BrandLimit(b)
  BY DEF LimitInv
<1>1. \A i \in Accounts : ~Connected(i)
  BY DEF ConnectionsInit, Connected, Accounts
<1>2. \A r \in Requests : ~At(r, "upserting")
  BY DEF ConnectionsInit, At, Idle
<1>3. Reach(b) \ moved = {}
  BY <1>1, <1>2 DEF Reach, InBrand, Adds
<1>4. Cardinality(Reach(b) \ moved) = 0
  BY <1>3, FS_EmptySet
<1> QED BY <1>4, CountsAreNumbers DEF BrandLimit

LEMMA LimitHolds == LimitInv => ConnectedWithinLimit
<1> SUFFICES ASSUME LimitInv, NEW b \in Users
             PROVE  Cardinality(InBrand(b) \ moved) <= Limit + (Cardinality(Requests) - 1)
  BY DEF ConnectedWithinLimit
<1>1. BrandLimit(b)
  BY DEF LimitInv
<1>2. Reach(b) \ moved \subseteq Accounts /\ InBrand(b) \ moved \subseteq Reach(b) \ moved
  BY DEF Reach, InBrand
<1>3. /\ Cardinality(InBrand(b) \ moved) \in Nat /\ Cardinality(Reach(b) \ moved) \in Nat
      /\ Cardinality(InBrand(b) \ moved) <= Cardinality(Reach(b) \ moved)
  BY <1>2, FewerAccounts
<1> QED BY <1>1, <1>3, CountsAreNumbers DEF BrandLimit

-----------------------------------------------------------------------------
\* The inductive invariant, and what follows from it.

LEMMA InitInv == ConnectionsInit => IInv
<1> SUFFICES ASSUME ConnectionsInit PROVE IInv
  OBVIOUS
<1>1. /\ \A r \in Requests : req[r] = Idle
      /\ \A a \in Auths : auth[a] = NoAuth
      /\ \A i \in Accounts : account[i] = None
      /\ TikToks \subseteq Accounts
  BY DEF ConnectionsInit, Accounts
<1>2. Idle.id = None /\ Idle.auth = None /\ Idle.phase = "idle" /\ Idle.row = FALSE
  BY DEF Idle
<1>3. PlacedInv
  BY <1>1, <1>2 DEF PlacedInv, Placed, At, Granting, NoAuth
<1>4. ConsumedInv
  BY <1>1, <1>2 DEF ConsumedInv, TransactionUsedOnce, Consumed
<1>5. AgreedInv
  BY <1>1, <1>2, ConnectionsAssumption
     DEF AgreedInv, AccountsFollowIdentity, Agreed, Connected
<1>6. ASSUME NEW t \in TikToks PROVE TokensInOrder(t)
  <2>1. ~Connected(t) /\ \A r \in Requests : req[r].id # t
    BY <1>1, <1>2, ConnectionsAssumption DEF Connected
  <2> QED BY <2>1 DEF TokensInOrder, TokensIssued, GrantsMislaid, OneHolder, SeveredRefresh,
                      RefreshedIsCurrent, StoredIsCurrent
<1> QED BY <1>3, <1>4, <1>5, <1>6, InitType DEF IInv, TokenInv

LEMMA NextInv == IInv /\ [ConnectionsNext]_vars => IInv'
<1> SUFFICES ASSUME IInv, [ConnectionsNext]_vars PROVE IInv'
  OBVIOUS
<1>1. ConnectionsTypeOK' /\ PlacedInv'
  BY TypeStep, PlacedStep DEF IInv
<1>2. ConsumedInv'
  BY ConsumedStep DEF IInv
<1>3. AgreedInv'
  BY AgreedStep DEF IInv
<1>4. TokenInv'
  BY TokenInvStep DEF IInv
<1> QED BY <1>1, <1>2, <1>3, <1>4 DEF IInv

\* Every reachable state satisfies the inductive invariant.
THEOREM ConnectionsInvariant == ConnectionsSpec => []IInv
BY InitInv, NextInv, PTL DEF ConnectionsSpec

\* The rows, the requests and the consent screens keep their types, although
\* a refresh may write to a row that another request has deleted and added.
THEOREM ConnectionsTypeCorrect == ConnectionsSpec => []ConnectionsTypeOK
<1>1. IInv => ConnectionsTypeOK
  BY DEF IInv
<1> QED BY <1>1, ConnectionsInvariant, PTL

\* Two deliveries of one redirect never both get past its transaction
\* (handleTikTokCallback's conditional update).
THEOREM OneDelivery == ConnectionsSpec => []TransactionUsedOnce
<1>1. IInv => TransactionUsedOnce
  BY DEF IInv, ConsumedInv
<1> QED BY <1>1, ConnectionsInvariant, PTL

\* The user a TikTok account signs in as never changes, whichever sign-ins and
\* links of however many users overlap.
THEOREM IdentityIsKept == ConnectionsSpec => IdentityKeepsItsUser
<1>1. IInv /\ [ConnectionsNext]_vars =>
        [\A t \in TikToks : identity[t] # None => identity'[t] = identity[t]]_vars
  BY IdentityStays DEF IInv
<1> QED BY <1>1, ConnectionsInvariant, PTL DEF ConnectionsSpec, IdentityKeepsItsUser

\* A connected TikTok account sits in the brand of the user it signs in as,
\* unless two users met at the identity check.
THEOREM AccountsSit == ConnectionsSpec => []AccountsFollowIdentity
<1>1. IInv => AccountsFollowIdentity
  BY DEF IInv, AgreedInv
<1> QED BY <1>1, ConnectionsInvariant, PTL

\* The stored refresh token is the one TikTok accepts, whether or not TikTok
\* rotates it, unless a grant or a refresh was lost or they overlapped.
THEOREM TokensAgree == ConnectionsSpec => []StoredTokenIsCurrent
<1>1. IInv => StoredTokenIsCurrent
  BY DEF IInv, TokenInv, TokensInOrder, StoredIsCurrent, StoredTokenIsCurrent
<1> QED BY <1>1, ConnectionsInvariant, PTL

\* A brand exceeds its plan by no more than the other callbacks in flight,
\* counting every account but those whose row a callback had seen elsewhere and
\* whose owner deleted it before the upsert (assertCanConnectNewAccount).
THEOREM AccountsWithinLimit == ConnectionsSpec => []ConnectedWithinLimit
<1>1. (IInv /\ IInv' /\ LimitInv /\ [ConnectionsNext]_vars) => LimitInv'
  BY LimitStep DEF IInv, LimitInv
<1> QED BY <1>1, LimitInit, LimitHolds, ConnectionsInvariant, PTL DEF ConnectionsSpec
=============================================================================
