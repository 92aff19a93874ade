---------------------------- MODULE Connections ----------------------------
(***************************************************************************)
(* Connecting, refreshing and disconnecting social accounts                 *)
(* (apps/api/src/oauth/oauth.service.ts, the TikTok sign-in of             *)
(* auth.service.ts and the token refresh of publishing.service.ts).         *)
(*                                                                         *)
(* The API runs as serverless instances over one database, so the requests *)
(* below interleave at every await: two browsers complete a consent screen *)
(* at the same time, a redirect is delivered twice, and the publisher       *)
(* refreshes a token while its owner reconnects or disconnects the account. *)
(*                                                                         *)
(* A user owns one brand, so a brand is named by its user.  A user created  *)
(* by a TikTok sign-in is named by the TikTok account it was created for    *)
(* (the e-mail and slug of the code are hashes of that account, and unique).*)
(* The platform is external: TikTok holds one current refresh token per     *)
(* account, replaced by every grant and by every refresh (Rotates).         *)
(***************************************************************************)
EXTENDS Naturals, FiniteSets

CONSTANTS
  Members,      \* users who registered with a password, one brand each
  TikToks,      \* TikTok accounts
  Instagrams,   \* Instagram accounts
  Auths,        \* consent screens opened: TikTok transactions, signed states
  Requests,     \* requests in flight
  Limit,        \* maxSocialAccountsPerBrand
  Rotates,      \* does TikTok replace the refresh token at every refresh?
  MaxTokens,    \* bound: refresh tokens TikTok issues per account
  MaxFaults,    \* bound: lost answers and failed writes
  None

ASSUME ConnectionsAssumption ==
  /\ Limit \in Nat /\ MaxTokens \in Nat /\ MaxFaults \in Nat
  /\ Rotates \in BOOLEAN
  /\ TikToks \cap Instagrams = {}
  /\ IsFiniteSet(Requests) /\ Requests # {} /\ IsFiniteSet(TikToks \cup Instagrams)
  /\ None \notin Members \cup TikToks \cup Instagrams \cup Auths

Users    == Members \cup TikToks
Accounts == TikToks \cup Instagrams
Phases   == {"idle", "found", "exchanging", "identifying", "creating", "linking",
             "looking", "counting", "upserting", "refreshing", "storing"}

VARIABLES
  auth,      \* the OAuthTransaction or signed state of a consent screen
  identity,  \* AuthIdentity: the user a TikTok account signs in as
  account,   \* SocialAccount: the brand, the stored refresh token, whether its
             \* scopes allow publishing and (ghost) whether its last link did
  current,   \* external: the refresh token TikTok accepts
  req,       \* what a request has read so far
  mislaid,   \* ghost: accounts whose newest token was never stored in turn
  contested, \* ghost: accounts given to one user while another was linking them
  moved,     \* ghost: accounts deleted from one brand before the write of a
             \* callback that had seen the row there and will create it in another
  faults     \* ghost: faults so far

vars == <<auth, identity, account, current, req, mislaid, contested, moved, faults>>

NoAuth   == [intent |-> "NONE", user |-> None, used |-> FALSE, expired |-> FALSE,
             granted |-> FALSE]
Idle     == [phase |-> "idle", auth |-> None, id |-> None, user |-> None,
             token |-> 0, publish |-> FALSE, row |-> FALSE]

AuthRec  == [intent : {"NONE", "LOGIN", "LINK", "INSTAGRAM"}, user : Users \cup {None},
             used : BOOLEAN, expired : BOOLEAN, granted : BOOLEAN]
RowRec   == [brand : Users, token : 0..MaxTokens, publish : BOOLEAN, linked : BOOLEAN]
ReqRec   == [phase : Phases, auth : Auths \cup {None}, id : Accounts \cup {None},
             user : Users \cup {None}, token : 0..MaxTokens, publish : BOOLEAN,
             row : BOOLEAN]

ASSUME NoneIsNoRow == None \notin RowRec

Connected(i)  == account[i] # None
InBrand(b)    == {i \in Accounts : Connected(i) /\ account[i].brand = b}
\* Users who exist: a sign-in creates the user with its identity in one transaction.
Exists(u)     == u \in Members \/ (u \in TikToks /\ identity[u] = u)

Goto(r, p)    == req' = [req EXCEPT ![r].phase = p]
Finish(r)     == req' = [req EXCEPT ![r] = Idle]
At(r, p)      == req[r].phase = p

ConnectionsInit ==
  /\ auth     = [a \in Auths |-> NoAuth]
  /\ identity = [t \in TikToks |-> None]
  /\ account  = [i \in Accounts |-> None]
  /\ current  = [t \in TikToks |-> 0]
  /\ req      = [r \in Requests |-> Idle]
  /\ mislaid  = {}
  /\ contested = {}
  /\ moved    = {}
  /\ faults   = 0

-----------------------------------------------------------------------------
\* Opening a consent screen.

\* getTikTokAuthUrl and getInstagramAuthUrl: a sign-in names no user; a link
\* is opened by a user for a brand it has been checked to belong to.
OpenConsent(a, intent, u) ==
  /\ auth[a] = NoAuth
  /\ intent = "LOGIN" <=> u = None
  /\ u # None => Exists(u)
  /\ auth' = [auth EXCEPT ![a].intent = intent, ![a].user = u]
  /\ UNCHANGED <<identity, account, current, req, mislaid, contested, moved, faults>>

\* A transaction is good for ten minutes; the signed state does not expire.
Expire(a) ==
  /\ auth[a].intent \in {"LOGIN", "LINK"} /\ ~auth[a].expired
  /\ auth' = [auth EXCEPT ![a].expired = TRUE]
  /\ UNCHANGED <<identity, account, current, req, mislaid, contested, moved, faults>>

-----------------------------------------------------------------------------
\* The TikTok callback.

\* The transaction is read and refused when it is used up or too old.
Receive(r, a) ==
  /\ At(r, "idle")
  /\ auth[a].intent \in {"LOGIN", "LINK"} /\ ~auth[a].used /\ ~auth[a].expired
  /\ req' = [req EXCEPT ![r] = [Idle EXCEPT !.phase = "found", !.auth = a]]
  /\ UNCHANGED <<auth, identity, account, current, mislaid, contested, moved, faults>>

\* Mutant: an unconditional update.
ConsumeUnchecked(r) ==
  /\ At(r, "found")
  /\ Goto(r, "exchanging") /\ auth' = [auth EXCEPT ![req[r].auth].used = TRUE]
  /\ UNCHANGED <<identity, account, current, mislaid, contested, moved, faults>>

\* updateMany where consumedAt is null: one of two deliveries goes on.
Consume(r) ==
  /\ At(r, "found")
  /\ LET a == req[r].auth IN
       IF auth[a].used
       THEN Finish(r) /\ UNCHANGED auth
       ELSE Goto(r, "exchanging") /\ auth' = [auth EXCEPT ![a].used = TRUE]
  /\ UNCHANGED <<identity, account, current, mislaid, contested, moved, faults>>

\* External: TikTok honours a code once, and a grant replaces the current
\* token.  Until the callback has stored it, the stored one is out of date.
\* A sign-in asks for the profile only; a link asks for publishing too, which
\* the user may decline.
ExchangeTikTok(r, i, publish) ==
  /\ At(r, "exchanging")
  /\ auth[req[r].auth].intent # "INSTAGRAM"
  /\ ~auth[req[r].auth].granted
  /\ publish => auth[req[r].auth].intent = "LINK"
  /\ current[i] < MaxTokens
  /\ current' = [current EXCEPT ![i] = @ + 1]
  /\ auth' = [auth EXCEPT ![req[r].auth].granted = TRUE]
  /\ req' = [req EXCEPT ![r].phase = "identifying", ![r].id = i,
                        ![r].token = current'[i], ![r].publish = publish]
  /\ mislaid' = mislaid \cup {i}
  /\ UNCHANGED <<identity, account, contested, moved, faults>>

\* The exchange is refused (a used or late code) and the callback throws.
ExchangeRefused(r) ==
  /\ At(r, "exchanging")
  /\ Finish(r)
  /\ UNCHANGED <<auth, identity, account, current, mislaid, contested, moved, faults>>

\* Mutant: a sign-in without an identity goes on without a user.
ResolveNobody(r) ==
  /\ At(r, "identifying") /\ auth[req[r].auth].intent = "LOGIN"
  /\ req' = [req EXCEPT ![r].phase = "looking", ![r].user = identity[req[r].id]]
  /\ UNCHANGED <<auth, identity, account, current, mislaid, contested, moved, faults>>

\* LOGIN: the user of an identity that exists, or a user to be created.
ResolveLogin(r) ==
  /\ At(r, "identifying") /\ auth[req[r].auth].intent = "LOGIN"
  /\ LET u == identity[req[r].id] IN
       IF u = None THEN Goto(r, "creating")
       ELSE req' = [req EXCEPT ![r].phase = "looking", ![r].user = u]
  /\ UNCHANGED <<auth, identity, account, current, mislaid, contested, moved, faults>>

\* Giving account i a user while another request has checked that it had none.
Contested(r, i) ==
  IF identity[i] = None /\ \E s \in Requests \ {r} : At(s, "linking") /\ req[s].id = i
  THEN contested \cup {i} ELSE contested

\* The user, its organisation, brand and identity are created in one
\* transaction; a loser of the race signs in as the winner.
CreateUser(r) ==
  /\ At(r, "creating")
  /\ LET i == req[r].id
         u == IF identity[i] = None THEN i ELSE identity[i]
     IN  /\ identity' = [identity EXCEPT ![i] = u]
         /\ contested' = Contested(r, i)
         /\ req' = [req EXCEPT ![r].phase = "looking", ![r].user = u]
  /\ UNCHANGED <<auth, account, current, mislaid, moved, faults>>

\* Mutant: the account is linked without looking.
SkipIdentityCheck(r) ==
  /\ At(r, "identifying") /\ auth[req[r].auth].intent = "LINK"
  /\ Goto(r, "linking")
  /\ UNCHANGED <<auth, identity, account, current, mislaid, contested, moved, faults>>

\* LINK: refused when the TikTok account signs in as somebody else.
CheckIdentity(r) ==
  /\ At(r, "identifying") /\ auth[req[r].auth].intent = "LINK"
  /\ IF identity[req[r].id] \in {None, auth[req[r].auth].user}
     THEN Goto(r, "linking") ELSE Finish(r)
  /\ UNCHANGED <<auth, identity, account, current, mislaid, contested, moved, faults>>

\* Mutant: the update branch sets the user as well.
OverwriteOwner(i, u) == u

\* The upsert of the identity creates it or refreshes its profile: its update
\* branch does not move it to another user.
OwnerAfterLink(i, u) == IF identity[i] = None THEN u ELSE identity[i]

LinkIdentity(r) ==
  /\ At(r, "linking")
  /\ LET i == req[r].id  u == auth[req[r].auth].user IN
       /\ identity' = [identity EXCEPT ![i] = OwnerAfterLink(i, u)]
       /\ contested' = Contested(r, i)
       /\ req' = [req EXCEPT ![r].phase = "looking", ![r].user = u]
  /\ UNCHANGED <<auth, account, current, mislaid, moved, faults>>

-----------------------------------------------------------------------------
\* The Instagram callback: the signed state is not consumed, the code is
\* remembered by the instance that saw it, and Meta honours it once.

ReceiveInstagram(r, a) ==
  /\ At(r, "idle")
  /\ auth[a].intent = "INSTAGRAM" /\ ~auth[a].used
  /\ auth' = [auth EXCEPT ![a].used = TRUE]
  /\ req' = [req EXCEPT ![r] = [Idle EXCEPT !.phase = "exchanging", !.auth = a]]
  /\ UNCHANGED <<identity, account, current, mislaid, contested, moved, faults>>

\* processedCodes is per instance and forgets a code after five minutes.
ForgetCode(a) ==
  /\ auth[a].intent = "INSTAGRAM" /\ auth[a].used
  /\ auth' = [auth EXCEPT ![a].used = FALSE]
  /\ UNCHANGED <<identity, account, current, req, mislaid, contested, moved, faults>>

ExchangeInstagram(r, i) ==
  /\ At(r, "exchanging")
  /\ auth[req[r].auth].intent = "INSTAGRAM"
  /\ ~auth[req[r].auth].granted
  /\ auth' = [auth EXCEPT ![req[r].auth].granted = TRUE]
  /\ req' = [req EXCEPT ![r].phase = "looking", ![r].id = i,
                        ![r].user = auth[req[r].auth].user, ![r].publish = TRUE]
  /\ UNCHANGED <<identity, account, current, mislaid, contested, moved, faults>>

-----------------------------------------------------------------------------
\* The limit and the row, for both platforms.

\* assertCanConnectNewAccount: a row that exists, in any brand, is a reconnect.
LookForRow(r) ==
  /\ At(r, "looking")
  /\ Goto(r, IF Connected(req[r].id) THEN "upserting" ELSE "counting")
  /\ UNCHANGED <<auth, identity, account, current, mislaid, contested, moved, faults>>

\* Mutant: the limit is not checked.
RoomForAny(b) == TRUE

\* canPerformAction, connect_social_account.
RoomFor(b) == Cardinality(InBrand(b)) < Limit

CountAccounts(r) ==
  /\ At(r, "counting")
  /\ IF RoomFor(req[r].user) THEN Goto(r, "upserting") ELSE Finish(r)
  /\ UNCHANGED <<auth, identity, account, current, mislaid, contested, moved, faults>>

\* A row that exists keeps its brand and takes the tokens and the scopes,
\* whether the callback signs in or links.
RowAfterConnect(i, q) ==
  [brand   |-> IF Connected(i) THEN account[i].brand ELSE q.user,
   token   |-> q.token,
   publish |-> q.publish,
   linked  |-> IF auth[q.auth].intent = "LOGIN"
               THEN Connected(i) /\ account[i].linked ELSE q.publish]

\* A newest token that reaches its row is no longer out of date, unless an
\* older grant or refresh is still to write over it.
Writing(r) == \/ req[r].phase \in {"identifying", "creating", "linking", "looking",
                                   "counting", "upserting"}
              \/ At(r, "storing") /\ req[r].row
StillMislaid(r, i, t) ==
  t # current[i] \/ \E s \in Requests \ {r} : Writing(s) /\ req[s].id = i

UpsertAccount(r) ==
  /\ At(r, "upserting")
  /\ LET i == req[r].id  t == req[r].token IN
       /\ account' = [account EXCEPT ![i] = RowAfterConnect(i, req[r])]
       /\ mislaid' = IF i \in TikToks /\ ~StillMislaid(r, i, t)
                     THEN mislaid \ {i} ELSE mislaid
  /\ Finish(r)
  /\ UNCHANGED <<auth, identity, current, contested, moved, faults>>

-----------------------------------------------------------------------------
\* Refreshing: POST /oauth/tiktok/refresh and the publisher's
\* ensureFreshAccessToken do the same to the row.

StartRefresh(r, i) ==
  /\ At(r, "idle") /\ i \in TikToks /\ Connected(i)
  /\ req' = [req EXCEPT ![r] = [Idle EXCEPT !.phase = "refreshing", !.id = i,
                                !.token = account[i].token, !.row = TRUE]]
  /\ UNCHANGED <<auth, identity, account, current, mislaid, contested, moved, faults>>

\* External: TikTok accepts its current token only.
AskRefresh(r) ==
  /\ At(r, "refreshing")
  /\ LET i == req[r].id IN
       IF req[r].token # current[i]
       THEN Finish(r) /\ UNCHANGED current
       ELSE /\ current[i] < MaxTokens
            /\ current' = [current EXCEPT ![i] = IF Rotates THEN @ + 1 ELSE @]
            /\ req' = [req EXCEPT ![r].phase = "storing", ![r].token = current'[i]]
  /\ UNCHANGED <<auth, identity, account, mislaid, contested, moved, faults>>

\* Mutant: the rotated token is dropped for the one the row holds.
KeptToken(r) == account[req[r].id].token

StoredToken(r) == req[r].token

\* update by the row's id: it throws when the row is gone, and both callers
\* leave it at that.
StoreRefresh(r) ==
  /\ At(r, "storing")
  /\ LET i == req[r].id IN
       account' = IF req[r].row
                  THEN [account EXCEPT ![i].token = StoredToken(r)] ELSE account
  /\ Finish(r)
  /\ UNCHANGED <<auth, identity, current, mislaid, contested, moved, faults>>

\* The answer of a refresh is lost, a write fails or the instance is stopped.
RequestDies(r) ==
  /\ req[r].phase \in Phases \ {"idle"}
  /\ faults < MaxFaults
  /\ faults' = faults + 1
  /\ mislaid' = IF At(r, "storing") THEN mislaid \cup {req[r].id} ELSE mislaid
  /\ Finish(r)
  /\ UNCHANGED <<auth, identity, account, current, contested, moved>>

\* Whoever has seen the row of account i does not count the accounts of its
\* own brand, and creates the row there if it is gone by then.
Moved(i) ==
  LET writers == {r \in Requests : At(r, "upserting") /\ req[r].id = i} IN
  IF \E r \in writers : req[r].user # account[i].brand THEN moved \cup {i}
  ELSE IF writers = {} THEN moved \ {i} ELSE moved

\* disconnectAccount deletes by id and brand; a row connected later is another
\* row, so a refresh in flight has lost its own.
Disconnect(i) ==
  /\ Connected(i)
  /\ account' = [account EXCEPT ![i] = None]
  /\ req' = [r \in Requests |->
               IF req[r].id = i THEN [req[r] EXCEPT !.row = FALSE] ELSE req[r]]
  /\ moved' = Moved(i)
  /\ UNCHANGED <<auth, identity, current, mislaid, contested, faults>>

-----------------------------------------------------------------------------
Callback(r) ==
  \/ Consume(r) \/ ExchangeRefused(r)
  \/ \E i \in TikToks, p \in BOOLEAN : ExchangeTikTok(r, i, p)
  \/ \E i \in Instagrams : ExchangeInstagram(r, i)
  \/ ResolveLogin(r) \/ CreateUser(r) \/ CheckIdentity(r) \/ LinkIdentity(r)
  \/ LookForRow(r) \/ CountAccounts(r) \/ UpsertAccount(r)

Refresh(r) == AskRefresh(r) \/ StoreRefresh(r)

ConnectionsNext ==
  \/ \E a \in Auths : \/ OpenConsent(a, "LOGIN", None)
                      \/ \E u \in Users : OpenConsent(a, "LINK", u)
                      \/ \E u \in Users : OpenConsent(a, "INSTAGRAM", u)
                      \/ Expire(a) \/ ForgetCode(a)
  \/ \E r \in Requests, a \in Auths : Receive(r, a) \/ ReceiveInstagram(r, a)
  \/ \E r \in Requests, i \in TikToks : StartRefresh(r, i)
  \/ \E r \in Requests : Callback(r) \/ Refresh(r) \/ RequestDies(r)
  \/ \E i \in Accounts : Disconnect(i)

ConnectionsSpec == ConnectionsInit /\ [][ConnectionsNext]_vars

-----------------------------------------------------------------------------
\* Types.  A request that works on a row or a consent names them.
ConnectionsTypeOK ==
  /\ auth     \in [Auths -> AuthRec]
  /\ identity \in [TikToks -> Users \cup {None}]
  /\ account  \in [Accounts -> RowRec \cup {None}]
  /\ current  \in [TikToks -> 0..MaxTokens]
  /\ req      \in [Requests -> ReqRec]
  /\ mislaid  \subseteq TikToks
  /\ contested \subseteq TikToks
  /\ moved    \subseteq Accounts
  /\ faults   \in 0..MaxFaults

(* A brand exceeds the accounts its plan allows by no more than the other
   callbacks in flight: the count and the upsert are two statements, but every
   callback that adds a row has counted the rows of its brand since it began,
   or seen the row it reconnects (assertCanConnectNewAccount).  What that check
   cannot hold is an account whose row was seen in another brand and deleted
   there before the upsert: it comes on top, uncounted. *)
ConnectedWithinLimit ==
  \A b \in Users :
    Cardinality(InBrand(b) \ moved) <= Limit + (Cardinality(Requests) - 1)

(* One consent screen grants one set of tokens: of two deliveries of the same
   redirect at most one is past the consumption of its transaction (the
   conditional updateMany of handleTikTokCallback). *)
TransactionUsedOnce ==
  \A r, s \in Requests :
    /\ r # s /\ req[r].auth = req[s].auth /\ req[r].auth # None
    /\ auth[req[r].auth].intent # "INSTAGRAM"
    => At(r, "found") \/ At(s, "found")

(* The user a TikTok account signs in as never changes, not even when two
   users link the same account at the same moment (the identity check of
   handleTikTokCallback is a read, the upsert's update branch is what holds). *)
IdentityKeepsItsUser ==
  [][\A t \in TikToks : identity[t] # None => identity'[t] = identity[t]]_vars

(* A connected TikTok account sits in the brand of the user it signs in as,
   unless a second user had passed the identity check of handleTikTokCallback
   at the moment the first one was given the account: then the row may be
   created in the brand of either. *)
AccountsFollowIdentity ==
  \A t \in TikToks :
    Connected(t) /\ t \notin contested => account[t].brand = identity[t]

(* The refresh token a row holds is the one TikTok accepts, unless a grant or
   a refresh was lost on the way or a grant overlapped a refresh: refreshes
   that overlap each other do no harm, because TikTok honours one of them and
   the other leaves the row alone (ensureFreshAccessToken, refreshTikTokToken,
   disconnectAccount). *)
HeldToken(t) == \E r \in Requests : req[r].id = t /\ At(r, "storing") /\ req[r].row
StoredTokenIsCurrent ==
  \A t \in TikToks :
    Connected(t) /\ t \notin mislaid /\ ~HeldToken(t) => account[t].token = current[t]

(* docs/architecture.md: "TikTok login identity is distinct from optional
   content-posting scopes."  A row whose owner linked it with publishing can
   publish until it is linked again or disconnected. *)
PublishingStaysApproved ==
  \A t \in TikToks : Connected(t) /\ account[t].linked => account[t].publish

=============================================================================
