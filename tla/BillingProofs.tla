----------------------------- MODULE BillingProofs -----------------------------
(***************************************************************************)
(* Theorems about module Billing, for any number of subscriptions, prices, *)
(* handlers and webhooks.  RowFollowsProvider speaks of quiet states only; *)
(* the invariant below says what holds on the way there: the newest        *)
(* webhook of a subscription is still to be applied, or the row has its    *)
(* state and nothing that is in progress will take it away.                *)
(***************************************************************************)
EXTENDS Billing, TLAPS

\* A webhook that is not answered, or that a handler still holds.
About(w) == w \in inbox \/ \E h \in Handlers : Holds(h, w)

\* Webhooks that are about: their ids are theirs alone, and none is later than
\* the last one sent.
Numbered ==
  \A w \in Webhook : About(w) =>
    /\ w.id <= sent
    /\ \A v \in Webhook : About(v) /\ v.id = w.id => v = w

\* Every price a subscription has had has a row, or a variable that names it,
\* and never loses it: no webhook is taken for one without a change of state.
PricesKnown ==
  /\ \A s \in Subs : psub[s] # NoSub => Known(psub[s].price)
  /\ \A w \in Webhook : About(w) => Known(w.state.price) /\ psub[w.sub] # NoSub
  /\ \A h \in Handlers : Step(h, "update") => Known(handler[h].state.price)
  /\ row.sub # NoSub => psub[row.sub] # NoSub

\* The newest webhook of s has not been applied yet; whoever handles it has not
\* got further than holding the state the provider reports.
Unapplied(s, w) ==
  /\ w \in inbox /\ w.sub = s /\ w.state = psub[s] /\ w.id \notin recorded
  /\ \A h \in Handlers : Holds(h, w) =>
       \/ Step(h, "extract")
       \/ Step(h, "update") /\ handler[h].state = psub[s]
  /\ s \notin PaystackSubs => \A v \in Webhook : About(v) /\ v.sub = s => v.id <= w.id

\* The state st is what the provider reports of s, or too old to be written
\* unnoticed.
NoNews(s, id, st) == st = psub[s] \/ (s \notin PaystackSubs /\ id < newest[s])

\* The row agrees about s, and nothing in progress will change that.
Applied(s) ==
  /\ row.sub = s => row.plan = Tier[psub[s].price] /\ row.status = psub[s].status
  /\ \A h \in Handlers : Step(h, "update") /\ Hook(h).sub = s =>
       NoNews(s, Hook(h).id, handler[h].state)
  /\ s \notin PaystackSubs =>
       \A v \in Webhook : About(v) /\ v.sub = s => NoNews(s, v.id, v.state)

Followed(s) == s \in muddled \/ Applied(s) \/ \E w \in Webhook : Unapplied(s, w)

\* A Stripe handler writes the state its webhook carries.
Carried ==
  \A h \in Handlers : Step(h, "update") /\ Hook(h).sub \notin PaystackSubs =>
    handler[h].state = Hook(h).state

BInv == /\ BillingTypeOK /\ Numbered /\ PricesKnown /\ Carried
        /\ \A s \in Subs : Followed(s)

-----------------------------------------------------------------------------
\* What the union of handler states means.
LEMMA HandlerShape ==
  ASSUME BillingTypeOK, NEW h \in Handlers
  PROVE  /\ handler[h].pc \in {"idle", "extract", "record", "answer", "update"}
         /\ handler[h].pc = "idle" => handler[h] = NoHandler
         /\ handler[h].pc # "idle" => handler[h].hook \in Webhook
         /\ handler[h].pc = "update" => handler[h].state \in State
<1>1. \/ handler[h] = NoHandler
      \/ handler[h] \in [pc : {"extract", "record", "answer"}, hook : Webhook]
      \/ handler[h] \in [pc : {"update"}, hook : Webhook, state : State]
  BY DEF BillingTypeOK, HandlerState
<1> QED BY <1>1 DEF NoHandler

LEMMA AdminShape ==
  ASSUME BillingTypeOK, NEW a \in Admins
  PROVE  /\ admin[a].pc \in {"idle", "create", "swap"}
         /\ admin[a].pc \in {"create", "swap"} => admin[a].previous \in Prices \cup {NoPrice}
         /\ admin[a].pc = "swap" => admin[a].price \in Prices
<1>1. \/ admin[a] = NoAdmin
      \/ admin[a] \in [pc : {"create"}, tier : PaidPlans, previous : Prices \cup {NoPrice}]
      \/ admin[a] \in [pc : {"swap"}, price : Prices, previous : Prices \cup {NoPrice}]
  BY DEF BillingTypeOK, AdminState
<1> QED BY <1>1 DEF NoAdmin

\* The progress of handler h is q afterwards.
Turns(h, q) ==
  /\ handler' \in [Handlers -> HandlerState]
  /\ handler'[h] = q
  /\ \A g \in Handlers \ {h} : handler'[g] = handler[g]

LEMMA BecomeTurns ==
  ASSUME BillingTypeOK, NEW h \in Handlers, NEW q \in HandlerState, Become(h, q)
  PROVE  Turns(h, q)
BY DEF BillingTypeOK, Become, Turns

\* A handler that moves on with its webhook, or stops.
LEMMA StateTypes ==
  /\ NoHandler \in HandlerState
  /\ \A w \in Webhook : /\ [pc |-> "extract", hook |-> w] \in HandlerState
                        /\ [pc |-> "record", hook |-> w] \in HandlerState
                        /\ [pc |-> "answer", hook |-> w] \in HandlerState
  /\ \A w \in Webhook, st \in State :
       [pc |-> "update", hook |-> w, state |-> st] \in HandlerState
BY DEF HandlerState

LEMMA InitInv == BillingInit => BInv
<1> SUFFICES ASSUME BillingInit PROVE BInv
  OBVIOUS
<1>1. BillingTypeOK
  BY BillingAssumption, StateTypes
     DEF BillingInit, BillingTypeOK, Plans, Status, NoAdmin, AdminState
<1>2. \A w : ~About(w)
  BY DEF BillingInit, About, Holds, NoHandler
<1>3. \A h \in Handlers : ~Step(h, "update")
  BY DEF BillingInit, Step, NoHandler
<1>4. row.sub = NoSub /\ \A s \in Subs : psub[s] = NoSub
  BY DEF BillingInit
<1>5. \A s \in Subs : Applied(s)
  BY <1>2, <1>3, <1>4, BillingAssumption DEF Applied
<1> QED BY <1>1, <1>2, <1>3, <1>4, <1>5 DEF BInv, Numbered, PricesKnown, Carried, Followed

-----------------------------------------------------------------------------
\* What each step does to the handler that takes it.

LEMMA CheckEffect ==
  ASSUME BInv, NEW h \in Handlers, NEW w \in inbox, CheckProcessed(h, w)
  PROVE  /\ w \in Webhook /\ Step(h, "idle")
         /\ \/ Turns(h, [pc |-> "answer", hook |-> w])
            \/ w.id \notin recorded /\ Turns(h, [pc |-> "extract", hook |-> w])
<1>1. w \in Webhook
  BY DEF BInv, BillingTypeOK
<1> QED BY <1>1, StateTypes, BecomeTurns DEF CheckProcessed, BInv

LEMMA ExtractEffect ==
  ASSUME BInv, NEW h \in Handlers, Extract(h)
  PROVE  /\ Step(h, "extract") /\ Hook(h) \in Webhook
         /\ \/ \E st \in State :
                 /\ st = IF Hook(h).sub \in PaystackSubs THEN psub[Hook(h).sub]
                                                         ELSE Hook(h).state
                 /\ Known(st.price) /\ UNCHANGED historyVars
                 /\ Turns(h, [pc |-> "update", hook |-> Hook(h), state |-> st])
            \/ /\ muddled' = muddled \cup {Hook(h).sub} /\ newest' = newest
               /\ faults < MaxFaults /\ faults' = faults + 1
               /\ Turns(h, [pc |-> "record", hook |-> Hook(h)])
<1> DEFINE w  == Hook(h)
           st == IF w.sub \in PaystackSubs THEN psub[w.sub] ELSE w.state
<1>1. Step(h, "extract") /\ w \in Webhook
  BY HandlerShape DEF BInv, Extract, Step, Hook
<1>2. About(w)
  BY <1>1 DEF About, Holds, Step
<1>3. st \in State /\ Known(st.price)
  BY <1>1, <1>2 DEF BInv, BillingTypeOK, PricesKnown, Webhook
<1>4. \/ Become(h, [pc |-> "update", hook |-> w, state |-> st]) /\ UNCHANGED historyVars
      \/ /\ Become(h, [pc |-> "record", hook |-> w])
         /\ muddled' = muddled \cup {w.sub} /\ newest' = newest
         /\ faults < MaxFaults /\ faults' = faults + 1
  BY <1>3 DEF Extract
<1> QED BY <1>1, <1>3, <1>4, StateTypes, BecomeTurns DEF BInv

LEMMA ApplyEffect ==
  ASSUME BInv, NEW h \in Handlers, Apply(h)
  PROVE  /\ Step(h, "update") /\ Hook(h) \in Webhook /\ handler[h].state \in State
         /\ Turns(h, [pc |-> "record", hook |-> Hook(h)])
BY HandlerShape, StateTypes, BecomeTurns DEF BInv, Apply, Step, Hook

LEMMA RecordEffect ==
  ASSUME BInv, NEW h \in Handlers, Record(h)
  PROVE  /\ Step(h, "record") /\ Hook(h) \in Webhook
         /\ \/ /\ recorded' = recorded \cup {Hook(h).id}
               /\ Turns(h, [pc |-> "answer", hook |-> Hook(h)])
            \/ recorded' = recorded /\ Turns(h, NoHandler)
BY HandlerShape, StateTypes, BecomeTurns DEF BInv, Record, Step, Hook

LEMMA StopEffect ==
  ASSUME BInv, NEW h \in Handlers, Answer(h) \/ CrashHandler(h)
  PROVE  Turns(h, NoHandler)
BY StateTypes, BecomeTurns DEF BInv, Answer, CrashHandler

\* A handler takes up a webhook that is about, keeps the one it has, or stops:
\* nothing is about that was not before.
LEMMA AboutTurns ==
  ASSUME BInv, NEW h \in Handlers, NEW q, Turns(h, q), inbox' \subseteq inbox,
         q.pc = "idle" \/ About(q.hook), NEW w, About(w)'
  PROVE  About(w)
<1>1. CASE w \in inbox'
  BY <1>1 DEF About
<1>2. ASSUME NEW g \in Handlers, handler'[g].pc # "idle", handler'[g].hook = w
      PROVE  About(w)
  <2>1. CASE g = h
    BY <1>2, <2>1 DEF Turns
  <2>2. CASE g # h
    BY <1>2, <2>2 DEF Turns, About, Holds, Hook
  <2> QED BY <2>1, <2>2
<1> QED BY <1>1, <1>2 DEF About, Holds, Hook

LEMMA HeldIsAbout ==
  ASSUME BInv, NEW h \in Handlers, ~Step(h, "idle")
  PROVE  Hook(h) \in Webhook /\ About(Hook(h))
BY HandlerShape DEF BInv, About, Holds, Step, Hook

-----------------------------------------------------------------------------
\* Every step keeps the types, the numbers and the prices.

LEMMA TypeStep ==
  ASSUME BInv, [BillingNext]_billingVars
  PROVE  BillingTypeOK'
<1> USE BillingAssumption
<1>t. BillingTypeOK
  BY DEF BInv
<1>1. ASSUME NEW s \in Subs, NEW st \in State, Report(s, st) PROVE BillingTypeOK'
  <2>1. [id |-> sent + 1, sub |-> s, state |-> st] \in Webhook
    <3>1. sent + 1 \in 1..MaxEvents
      BY <1>1, <1>t DEF Report, BillingTypeOK
    <3> QED BY <3>1 DEF Webhook
  <2>2. psub' \in [Subs -> State \cup {NoSub}]
    BY <1>1, <1>t DEF Report, BillingTypeOK
  <2>3. inbox' \subseteq Webhook /\ \A w \in inbox' : w.id <= sent'
    <3>1. ASSUME NEW w \in inbox' PROVE w \in Webhook /\ w.id <= sent'
      <4>1. CASE w \in inbox
        BY <1>1, <1>t, <4>1 DEF Report, BillingTypeOK, Webhook
      <4>2. CASE w = [id |-> sent + 1, sub |-> s, state |-> st]
        BY <1>1, <1>t, <2>1, <4>2 DEF Report, BillingTypeOK
      <4> QED BY <1>1, <4>1, <4>2 DEF Report
    <3> QED BY <3>1
  <2>4. sent' \in 0..MaxEvents /\ sent <= sent'
    BY <1>1, <1>t DEF Report, BillingTypeOK
  <2>5. recorded' \subseteq 1..sent' /\ newest' \in [Subs -> 0..sent']
    <3>1. 1..sent \subseteq 1..sent' /\ 0..sent \subseteq 0..sent'
      BY <1>1, <1>t DEF Report, BillingTypeOK
    <3> QED BY <1>1, <1>t, <3>1 DEF Report, BillingTypeOK, tableVars, historyVars
  <2>6. UNCHANGED <<row, prices, handler, admin, muddled, faults>>
    BY <1>1 DEF Report, tableVars, historyVars
  <2> QED BY <1>t, <2>2, <2>3, <2>4, <2>5, <2>6 DEF BillingTypeOK
<1>2. ASSUME NEW s \in Subs, NEW t \in PaidPlans, Checkout(s, t)
      PROVE  \E st \in State : Report(s, st)
  BY <1>2 DEF Checkout, Offered, Active, State, Status
<1>3. ASSUME NEW s \in Subs, NEW st \in State, Change(s, st) PROVE Report(s, st)
  BY <1>3 DEF Change
<1>4. ASSUME NEW h \in Handlers, NEW w \in inbox, CheckProcessed(h, w) PROVE BillingTypeOK'
  <2>1. handler' \in [Handlers -> HandlerState]
    BY <1>4, CheckEffect DEF Turns
  <2>2. UNCHANGED <<psub, sent, inbox, row, recorded, prices, admin, newest, muddled, faults>>
    BY <1>4 DEF CheckProcessed, providerVars, tableVars, historyVars
  <2> QED BY <1>t, <2>1, <2>2 DEF BillingTypeOK
<1>5. ASSUME NEW h \in Handlers, Extract(h) PROVE BillingTypeOK'
  <2>1. handler' \in [Handlers -> HandlerState]
    BY <1>5, ExtractEffect DEF Turns
  <2>2. UNCHANGED <<psub, sent, inbox, row, recorded, prices, admin>>
    BY <1>5 DEF Extract, providerVars, tableVars
  <2>3. newest' = newest /\ muddled' \subseteq Subs /\ faults' \in 0..MaxFaults
    <3>1. Hook(h).sub \in Subs
      BY <1>5, ExtractEffect DEF Webhook
    <3>2. \/ UNCHANGED historyVars
          \/ /\ muddled' = muddled \cup {Hook(h).sub} /\ newest' = newest
             /\ faults < MaxFaults /\ faults' = faults + 1
      BY <1>5 DEF Extract, historyVars
    <3> QED BY <1>t, <3>1, <3>2 DEF BillingTypeOK, historyVars
  <2> QED BY <1>t, <2>1, <2>2, <2>3 DEF BillingTypeOK
<1>6. ASSUME NEW h \in Handlers, Apply(h) PROVE BillingTypeOK'
  <2>1. handler' \in [Handlers -> HandlerState]
    BY <1>6, ApplyEffect DEF Turns
  <2>2. UNCHANGED <<psub, sent, inbox, recorded, prices, admin, faults>>
    BY <1>6 DEF Apply, providerVars
  <2>3. /\ Hook(h).id \in 1..MaxEvents /\ Hook(h).id <= sent /\ Hook(h).sub \in Subs
        /\ handler[h].state.status \in Status /\ handler[h].state.price \in Prices
    BY <1>6, ApplyEffect, HeldIsAbout DEF BInv, Numbered, Webhook, State, Step
  <2>4. /\ \/ /\ row' = [plan |-> Tier[handler[h].state.price],
                         status |-> handler[h].state.status, sub |-> Hook(h).sub]
              /\ newest' = [newest EXCEPT ![Hook(h).sub] = IF Hook(h).id > @ THEN Hook(h).id ELSE @]
           \/ row' = row /\ newest' = newest
        /\ muddled' = muddled \/ muddled' = muddled \cup {Hook(h).sub}
    BY <1>6 DEF Apply
  <2>5. Tier[handler[h].state.price] \in PaidPlans
    BY <2>3
  <2>6. /\ row' \in [plan : Plans, status : Status, sub : Subs \cup {NoSub}]
        /\ row'.sub = NoSub <=> row'.plan = "FREE"
    <3>1. CASE row' = row
      BY <1>t, <3>1 DEF BillingTypeOK
    <3>2. CASE row' # row
      BY <2>3, <2>4, <2>5, <3>2, BillingAssumption DEF Plans, PaidPlans
    <3> QED BY <3>1, <3>2
  <2>7. newest' \in [Subs -> 0..sent]
    BY <1>t, <2>3, <2>4 DEF BillingTypeOK
  <2>8. muddled' \subseteq Subs
    BY <1>t, <2>3, <2>4 DEF BillingTypeOK
  <2> QED BY <1>t, <2>1, <2>2, <2>6, <2>7, <2>8 DEF BillingTypeOK
<1>7. ASSUME NEW h \in Handlers, Record(h) PROVE BillingTypeOK'
  <2>1. handler' \in [Handlers -> HandlerState]
    BY <1>7, RecordEffect DEF Turns
  <2>2. UNCHANGED <<psub, sent, inbox, row, prices, admin, newest, muddled, faults>>
    BY <1>7 DEF Record, providerVars, historyVars
  <2>3. Hook(h).id \in 1..sent
    <3>1. Hook(h) \in Webhook /\ About(Hook(h))
      BY <1>7, RecordEffect, HeldIsAbout DEF Step
    <3>2. Hook(h).id <= sent /\ Hook(h).id \in 1..MaxEvents
      BY <3>1 DEF BInv, Numbered, Webhook
    <3> QED BY <1>t, <3>2 DEF BillingTypeOK
  <2>4. recorded' \subseteq 1..sent
    <3>1. recorded' = recorded \/ recorded' = recorded \cup {Hook(h).id}
      BY <1>7, RecordEffect
    <3> QED BY <1>t, <2>3, <3>1 DEF BillingTypeOK
  <2> QED BY <1>t, <2>1, <2>2, <2>4 DEF BillingTypeOK
<1>8. ASSUME NEW h \in Handlers, Answer(h) \/ CrashHandler(h) PROVE BillingTypeOK'
  <2>1. handler' \in [Handlers -> HandlerState]
    BY <1>8, StopEffect DEF Turns
  <2>2. UNCHANGED <<psub, sent, row, recorded, prices, admin, newest, muddled>>
    BY <1>8 DEF Answer, CrashHandler, providerVars, tableVars, historyVars
  <2>3. inbox' \subseteq inbox /\ faults' \in 0..MaxFaults
    BY <1>8, <1>t DEF Answer, CrashHandler, historyVars, BillingTypeOK
  <2> QED BY <1>t, <2>1, <2>2, <2>3 DEF BillingTypeOK
<1>9. ASSUME NEW w \in inbox, GiveUp(w) PROVE BillingTypeOK'
  <2>1. w.sub \in Subs
    BY <1>t DEF BillingTypeOK, Webhook
  <2>2. UNCHANGED <<psub, sent, row, recorded, prices, handler, admin, newest>>
    BY <1>9 DEF GiveUp, providerVars, tableVars
  <2>3. inbox' \subseteq inbox /\ muddled' \subseteq Subs /\ faults' \in 0..MaxFaults
    BY <1>9, <1>t, <2>1 DEF GiveUp, BillingTypeOK
  <2> QED BY <1>t, <2>2, <2>3 DEF BillingTypeOK
<1>10. ASSUME NEW a \in Admins, NEW t \in {Tier[p] : p \in Prices}, ReadPrice(a, t)
       PROVE  BillingTypeOK'
  <2>1. PICK p \in Prices \cup {NoPrice} :
           admin' = [admin EXCEPT ![a] = [pc |-> "create", tier |-> t, previous |-> p]]
    BY <1>10 DEF ReadPrice, Active
  <2>2. [pc |-> "create", tier |-> t, previous |-> p] \in AdminState
    BY DEF AdminState
  <2>3. UNCHANGED <<psub, sent, inbox, row, recorded, prices, handler, newest, muddled, faults>>
    BY <1>10 DEF ReadPrice, providerVars, tableVars, historyVars
  <2> QED BY <1>t, <2>1, <2>2, <2>3 DEF BillingTypeOK
<1>11. ASSUME NEW a \in Admins, CreatePrice(a) PROVE BillingTypeOK'
  <2>1. admin[a].previous \in Prices \cup {NoPrice}
    BY <1>11, <1>t, AdminShape DEF CreatePrice
  <2>2. PICK p \in Prices :
           admin' = [admin EXCEPT ![a] = [pc |-> "swap", price |-> p,
                                          previous |-> admin[a].previous]]
    BY <1>11 DEF CreatePrice
  <2>3. [pc |-> "swap", price |-> p, previous |-> admin[a].previous] \in AdminState
    BY <2>1 DEF AdminState
  <2>4. UNCHANGED <<psub, sent, inbox, row, recorded, prices, handler, newest, muddled, faults>>
    BY <1>11 DEF CreatePrice, providerVars, tableVars, historyVars
  <2> QED BY <1>t, <2>2, <2>3, <2>4 DEF BillingTypeOK
<1>12. ASSUME NEW a \in Admins, SwapPrices(a) PROVE BillingTypeOK'
  <2>1. prices' \in [Prices -> {"none", "active", "inactive"}]
    BY <1>12, <1>t DEF SwapPrices, BillingTypeOK
  <2>2. NoAdmin \in AdminState
    BY DEF AdminState
  <2>3. admin' \in [Admins -> AdminState]
    BY <1>12, <1>t, <2>2 DEF SwapPrices, BillingTypeOK
  <2>4. UNCHANGED <<psub, sent, inbox, row, recorded, handler, newest, muddled, faults>>
    BY <1>12 DEF SwapPrices, providerVars, historyVars
  <2> QED BY <1>t, <2>1, <2>3, <2>4 DEF BillingTypeOK
<1>13. CASE UNCHANGED billingVars
  BY <1>t, <1>13 DEF billingVars, BillingTypeOK
<1> QED BY <1>1, <1>2, <1>3, <1>4, <1>5, <1>6, <1>7, <1>8, <1>9, <1>10, <1>11, <1>12, <1>13
        DEF BillingNext

\* A step that sends no webhook leaves nothing about that was not before, and
\* leaves the subscriptions alone.
Silent ==
  /\ psub' = psub /\ sent' = sent /\ inbox' \subseteq inbox
  /\ \A w : About(w)' => About(w)

Handling(h) ==
  (\E w \in inbox : CheckProcessed(h, w)) \/ Extract(h) \/ Apply(h) \/ Record(h) \/ Answer(h)
    \/ CrashHandler(h)

Pricing(a) ==
  (\E t \in {Tier[p] : p \in Prices} : ReadPrice(a, t)) \/ CreatePrice(a) \/ SwapPrices(a)

LEMMA HandlingSilent ==
  ASSUME BInv, NEW h \in Handlers, Handling(h)
  PROVE  Silent
<1>1. psub' = psub /\ sent' = sent /\ inbox' \subseteq inbox
  BY DEF Handling, CheckProcessed, Extract, Apply, Record, Answer, CrashHandler, providerVars
<1>q. ASSUME NEW q, Turns(h, q), q.pc = "idle" \/ About(q.hook), NEW w, About(w)'
      PROVE  About(w)
  BY <1>1, <1>q, AboutTurns
<1> SUFFICES ASSUME NEW w, About(w)' PROVE About(w)
  BY <1>1 DEF Silent
<1>2. ASSUME NEW v \in inbox, CheckProcessed(h, v) PROVE About(w)
  <2>1. About(v)
    BY DEF About
  <2>2. CASE Turns(h, [pc |-> "answer", hook |-> v])
    BY <1>q, <2>1, <2>2
  <2>3. CASE Turns(h, [pc |-> "extract", hook |-> v])
    BY <1>q, <2>1, <2>3
  <2> QED BY <1>2, <2>2, <2>3, CheckEffect
<1>3. CASE Extract(h)
  <2>1. About(Hook(h))
    BY <1>3, ExtractEffect, HeldIsAbout DEF Step
  <2>2. ASSUME NEW st \in State, Turns(h, [pc |-> "update", hook |-> Hook(h), state |-> st])
        PROVE  About(w)
    BY <1>q, <2>1, <2>2
  <2>3. CASE Turns(h, [pc |-> "record", hook |-> Hook(h)])
    BY <1>q, <2>1, <2>3
  <2> QED BY <1>3, <2>2, <2>3, ExtractEffect
<1>4. CASE Apply(h)
  <2>1. About(Hook(h)) /\ Turns(h, [pc |-> "record", hook |-> Hook(h)])
    BY <1>4, ApplyEffect, HeldIsAbout DEF Step
  <2> QED BY <1>q, <2>1
<1>5. CASE Record(h)
  <2>1. About(Hook(h))
    BY <1>5, RecordEffect, HeldIsAbout DEF Step
  <2>2. CASE Turns(h, [pc |-> "answer", hook |-> Hook(h)])
    BY <1>q, <2>1, <2>2
  <2>3. CASE Turns(h, NoHandler)
    BY <1>q, <2>3 DEF NoHandler
  <2> QED BY <1>5, <2>2, <2>3, RecordEffect
<1>6. CASE Answer(h) \/ CrashHandler(h)
  BY <1>q, <1>6, StopEffect DEF NoHandler
<1> QED BY <1>2, <1>3, <1>4, <1>5, <1>6 DEF Handling

LEMMA GiveUpSilent ==
  ASSUME NEW w \in inbox, GiveUp(w)
  PROVE  Silent
BY DEF GiveUp, Silent, About, Holds, Hook, providerVars

LEMMA PricingSilent ==
  ASSUME NEW a \in Admins, Pricing(a)
  PROVE  Silent /\ UNCHANGED <<inbox, handler, row, recorded, historyVars>>
BY DEF Pricing, ReadPrice, CreatePrice, SwapPrices, Silent, About, Holds, Hook, providerVars,
       tableVars

\* A price that is known stays known: it is taken off the list, never deleted.
LEMMA KnownStays ==
  ASSUME BInv, [BillingNext]_billingVars, NEW p \in Prices, Known(p)
  PROVE  Known(p)'
<1>1. CASE prices' = prices
  BY <1>1 DEF Known
<1>2. ASSUME NEW a \in Admins, SwapPrices(a) PROVE Known(p)'
  BY <1>2 DEF SwapPrices, Known
<1>3. ASSUME NEW s \in Subs, (\E t \in PaidPlans : Checkout(s, t)) \/ (\E st \in State : Change(s, st))
      PROVE  prices' = prices
  BY <1>3 DEF Checkout, Change, Report, tableVars
<1>4. ASSUME NEW h \in Handlers, Handling(h) PROVE prices' = prices
  BY <1>4 DEF Handling, CheckProcessed, Extract, Apply, Record, Answer, CrashHandler, tableVars
<1>5. ASSUME NEW w \in inbox, GiveUp(w) PROVE prices' = prices
  BY <1>5 DEF GiveUp, tableVars
<1>6. ASSUME NEW a \in Admins,
             (\E t \in {Tier[q] : q \in Prices} : ReadPrice(a, t)) \/ CreatePrice(a)
      PROVE  prices' = prices
  BY <1>6 DEF ReadPrice, CreatePrice, tableVars
<1> QED BY <1>1, <1>2, <1>3, <1>4, <1>5, <1>6 DEF BillingNext, Handling, billingVars

\* A report is about its own webhook, which is the newest.
Reported(s, st) ==
  /\ psub' \in [Subs -> State \cup {NoSub}] /\ psub'[s] = st
  /\ \A x \in Subs \ {s} : psub'[x] = psub[x]
  /\ sent' = sent + 1
  /\ inbox' = inbox \cup {[id |-> sent + 1, sub |-> s, state |-> st]}
  /\ UNCHANGED <<row, recorded, prices, handler, newest, muddled>>
  /\ Known(st.price)

LEMMA ReportEffect ==
  ASSUME BInv, NEW s \in Subs,
         (\E t \in PaidPlans : Checkout(s, t)) \/ (\E st \in State : Change(s, st))
  PROVE  \E st \in State : Reported(s, st)
<1>0. BillingTypeOK /\ PricesKnown
  BY DEF BInv
<1>1. ASSUME NEW t, NEW p \in Offered(t) PROVE p \in Prices /\ Known(p)
  BY <1>1, BillingAssumption DEF Offered, Active, Known
<1>2. ASSUME NEW st \in State, Report(s, st), Known(st.price) PROVE Reported(s, st)
  BY <1>0, <1>2 DEF Report, Reported, BillingTypeOK, tableVars, historyVars
<1>3. ASSUME NEW t \in PaidPlans, Checkout(s, t) PROVE \E st \in State : Reported(s, st)
  <2>1. PICK p \in Offered(t) : Report(s, [status |-> "ACTIVE", price |-> p])
    BY <1>3 DEF Checkout
  <2>2. [status |-> "ACTIVE", price |-> p] \in State
    BY <1>1 DEF State, Status
  <2> QED BY <1>1, <1>2, <2>1, <2>2
<1>4. ASSUME NEW st \in State, Change(s, st) PROVE Reported(s, st)
  BY <1>0, <1>1, <1>2, <1>4 DEF Change, PricesKnown
<1> QED BY <1>3, <1>4

LEMMA ReportAbout ==
  ASSUME BInv, NEW s \in Subs, NEW st \in State, Reported(s, st), NEW w, About(w)'
  PROVE  About(w) \/ w = [id |-> sent + 1, sub |-> s, state |-> st]
BY DEF Reported, About, Holds, Hook

LEMMA NumberedStep ==
  ASSUME BInv, [BillingNext]_billingVars
  PROVE  Numbered'
<1>0. Numbered /\ sent \in 0..MaxEvents
  BY DEF BInv, BillingTypeOK
<1>1. CASE Silent
  BY <1>0, <1>1 DEF Silent, Numbered
<1>2. ASSUME NEW s \in Subs, NEW st \in State, Reported(s, st) PROVE Numbered'
  <2> DEFINE new == [id |-> sent + 1, sub |-> s, state |-> st]
  <2>1. ASSUME NEW w \in Webhook, About(w)'
        PROVE  /\ w.id \in Nat
               /\ (About(w) /\ w.id <= sent) \/ (w = new /\ w.id = sent + 1)
    <3>1. w.id \in Nat
      BY BillingAssumption DEF Webhook
    <3>2. About(w) \/ w = new
      BY <1>2, <2>1, ReportAbout
    <3> QED BY <1>0, <3>1, <3>2 DEF Numbered
  <2>2. sent' = sent + 1
    BY <1>2 DEF Reported
  <2>3. ASSUME NEW w \in Webhook, About(w)' PROVE w.id <= sent'
    BY <1>0, <2>1, <2>2, <2>3
  <2>4. ASSUME NEW w \in Webhook, About(w)', NEW v \in Webhook, About(v)', v.id = w.id
        PROVE  v = w
    <3>1. CASE About(w) /\ About(v)
      BY <1>0, <2>4, <3>1 DEF Numbered
    <3>2. CASE w = new /\ v = new
      BY <3>2
    <3> QED BY <1>0, <2>1, <2>4, <3>1, <3>2
  <2> QED BY <2>3, <2>4 DEF Numbered
<1>3. CASE UNCHANGED billingVars
  BY <1>0, <1>3 DEF Numbered, About, Holds, Hook, billingVars
<1> QED BY <1>1, <1>2, <1>3, ReportEffect, HandlingSilent, GiveUpSilent, PricingSilent
        DEF BillingNext, Handling, Pricing

\* A handler holds a state only because it has just extracted it.
Took(g, w, st) ==
  /\ Step(g, "extract") /\ w = Hook(g) /\ w \in Webhook /\ About(w)
  /\ st = IF w.sub \in PaystackSubs THEN psub[w.sub] ELSE w.state
  /\ st \in State /\ Known(st.price)
  /\ handler'[g] = [pc |-> "update", hook |-> w, state |-> st]

Keeps(g) == handler'[g] = handler[g]

LEMMA TurnsAway ==
  ASSUME NEW h \in Handlers, NEW q, Turns(h, q), q.pc # "update",
         NEW g \in Handlers, handler'[g].pc = "update"
  PROVE  Keeps(g)
BY DEF Turns, Keeps

LEMMA UpdateStep ==
  ASSUME BInv, NEW h \in Handlers, Handling(h), NEW g \in Handlers, handler'[g].pc = "update"
  PROVE  Keeps(g) \/ \E w \in Webhook, st \in State : Took(g, w, st)
<1>1. CASE \E w \in inbox : CheckProcessed(h, w)
  <2>1. PICK w \in inbox : CheckProcessed(h, w)
    BY <1>1
  <2>2. \/ Turns(h, [pc |-> "answer", hook |-> w])
        \/ Turns(h, [pc |-> "extract", hook |-> w])
    BY <2>1, CheckEffect
  <2> QED BY <2>2, TurnsAway
<1>2. CASE Extract(h)
  <2>0. Step(h, "extract") /\ Hook(h) \in Webhook /\ About(Hook(h))
    BY <1>2, ExtractEffect, HeldIsAbout DEF Step
  <2>1. CASE Turns(h, [pc |-> "record", hook |-> Hook(h)])
    BY <2>1, TurnsAway
  <2>2. ASSUME NEW st \in State, Known(st.price),
               st = IF Hook(h).sub \in PaystackSubs THEN psub[Hook(h).sub] ELSE Hook(h).state,
               Turns(h, [pc |-> "update", hook |-> Hook(h), state |-> st])
        PROVE  Keeps(g) \/ \E w \in Webhook, x \in State : Took(g, w, x)
    <3>1. CASE g # h
      BY <2>2, <3>1 DEF Turns, Keeps
    <3>2. CASE g = h
      <4>1. Took(g, Hook(h), st)
        BY <2>0, <2>2, <3>2 DEF Turns, Took
      <4> QED BY <2>0, <4>1
    <3> QED BY <3>1, <3>2
  <2> QED BY <1>2, <2>1, <2>2, ExtractEffect
<1>3. CASE Apply(h)
  <2>1. Turns(h, [pc |-> "record", hook |-> Hook(h)])
    BY <1>3, ApplyEffect
  <2> QED BY <2>1, TurnsAway
<1>4. CASE Record(h)
  <2>1. Turns(h, [pc |-> "answer", hook |-> Hook(h)]) \/ Turns(h, NoHandler)
    BY <1>4, RecordEffect
  <2> QED BY <2>1, TurnsAway DEF NoHandler
<1>5. CASE Answer(h) \/ CrashHandler(h)
  BY <1>5, StopEffect, TurnsAway DEF NoHandler
<1> QED BY <1>1, <1>2, <1>3, <1>4, <1>5 DEF Handling

\* What a silent step must do to keep PricesKnown.
LEMMA PricesStay ==
  ASSUME BInv, [BillingNext]_billingVars, Silent,
         row' = row \/ (row'.sub \in Subs /\ psub[row'.sub] # NoSub),
         \A g \in Handlers : handler'[g].pc = "update" =>
           Keeps(g) \/ \E w \in Webhook, st \in State : Took(g, w, st)
  PROVE  PricesKnown'
<1>0. PricesKnown /\ BillingTypeOK
  BY DEF BInv
<1>k. \A p \in Prices : Known(p) => Known(p)'
  BY KnownStays
<1>1. ASSUME NEW s \in Subs, psub'[s] # NoSub PROVE (Known(psub[s].price))'
  <2>1. psub'[s] = psub[s] /\ psub[s].price \in Prices /\ Known(psub[s].price)
    BY <1>0, <1>1 DEF Silent, BillingTypeOK, State, PricesKnown
  <2> DEFINE p == psub[s].price
  <2>2. PICK q \in Prices : q = p
    BY <2>1
  <2>3. Known(q)'
    BY <1>k, <2>1, <2>2
  <2> QED BY <2>1, <2>2, <2>3 DEF Known
<1>2. ASSUME NEW w \in Webhook, About(w)' PROVE Known(w.state.price)' /\ psub'[w.sub] # NoSub
  <2>1. w.state.price \in Prices /\ Known(w.state.price) /\ psub[w.sub] # NoSub
    BY <1>0, <1>2 DEF Silent, PricesKnown, Webhook, State
  <2> QED BY <1>k, <2>1 DEF Silent
<1>3. ASSUME NEW g \in Handlers, handler'[g].pc = "update"
      PROVE  (Known(handler[g].state.price))'
  <2>1. PICK q \in Prices : q = handler'[g].state.price /\ Known(q)
    <3>1. CASE Keeps(g)
      <4>1. handler[g].pc = "update" /\ handler'[g].state = handler[g].state
        BY <1>3, <3>1 DEF Keeps
      <4>2. handler[g].state.price \in Prices
        BY <1>0, <4>1, HandlerShape DEF State
      <4>3. Known(handler[g].state.price)
        BY <1>0, <4>1 DEF PricesKnown, Step
      <4> QED BY <4>1, <4>2, <4>3
    <3>2. ASSUME NEW w \in Webhook, NEW st \in State, Took(g, w, st)
          PROVE  \E q \in Prices : q = handler'[g].state.price /\ Known(q)
      BY <3>2 DEF Took, State
    <3> QED BY <1>3, <3>1, <3>2
  <2>2. Known(q)'
    BY <1>k, <2>1
  <2> QED BY <2>1, <2>2 DEF Known
<1>4. row'.sub # NoSub => (psub[row.sub] # NoSub)'
  BY <1>0 DEF Silent, PricesKnown
<1> QED BY <1>1, <1>2, <1>3, <1>4 DEF PricesKnown, Step

LEMMA PricesStep ==
  ASSUME BInv, [BillingNext]_billingVars
  PROVE  PricesKnown'
<1>0. PricesKnown /\ BillingTypeOK
  BY DEF BInv
<1>k. \A p \in Prices : Known(p) => Known(p)'
  BY KnownStays
<1>2. ASSUME NEW s \in Subs, NEW st \in State, Reported(s, st) PROVE PricesKnown'
  <2>r. /\ psub'[s] = st /\ \A x \in Subs \ {s} : psub'[x] = psub[x]
        /\ Known(st.price) /\ row' = row /\ handler' = handler /\ prices' = prices
    BY <1>2 DEF Reported
  <2>0. \A p : Known(p) <=> Known(p)'
    BY <2>r DEF Known
  <2>1. ASSUME NEW x \in Subs PROVE psub[x] # NoSub => psub'[x] # NoSub
    BY <2>r, NoSubIsNoState
  <2>2. ASSUME NEW x \in Subs, psub'[x] # NoSub PROVE (Known(psub[x].price))'
    BY <1>0, <2>r, <2>2 DEF PricesKnown, Known
  <2>3. ASSUME NEW w \in Webhook, About(w)'
        PROVE  Known(w.state.price)' /\ psub'[w.sub] # NoSub
    <3>1. CASE About(w)
      BY <1>0, <2>0, <2>1, <3>1 DEF PricesKnown, Webhook
    <3>2. CASE w = [id |-> sent + 1, sub |-> s, state |-> st]
      BY <2>0, <2>r, <3>2, NoSubIsNoState
    <3> QED BY <1>2, <2>3, <3>1, <3>2, ReportAbout
  <2>4. ASSUME NEW h \in Handlers, handler'[h].pc = "update"
        PROVE  (Known(handler[h].state.price))'
    BY <1>0, <2>r, <2>4 DEF PricesKnown, Known, Step
  <2>5. row'.sub # NoSub => (psub[row.sub] # NoSub)'
    BY <1>0, <2>r, <2>1 DEF PricesKnown, BillingTypeOK
  <2> QED BY <2>2, <2>3, <2>4, <2>5 DEF PricesKnown, Step
<1>3. ASSUME NEW h \in Handlers, Handling(h) PROVE PricesKnown'
  <2>1. row' = row \/ (row'.sub \in Subs /\ psub[row'.sub] # NoSub)
    <3>1. CASE Apply(h)
      <4>1. /\ Hook(h) \in Webhook /\ About(Hook(h))
            /\ row' = row \/ row'.sub = Hook(h).sub
        BY <3>1, ApplyEffect, HeldIsAbout DEF Step, Apply
      <4> QED BY <1>0, <4>1 DEF PricesKnown, Webhook
    <3>2. CASE ~Apply(h)
      BY <1>3, <3>2 DEF Handling, CheckProcessed, Extract, Record, Answer, CrashHandler, tableVars
    <3> QED BY <3>1, <3>2
  <2> QED BY <1>3, <2>1, HandlingSilent, UpdateStep, PricesStay
<1>4. ASSUME NEW w \in inbox, GiveUp(w) PROVE PricesKnown'
  <2>1. row' = row /\ handler' = handler
    BY <1>4 DEF GiveUp, tableVars
  <2> QED BY <1>4, <2>1, GiveUpSilent, PricesStay DEF Keeps
<1>5. ASSUME NEW a \in Admins, Pricing(a) PROVE PricesKnown'
  <2>1. row' = row /\ handler' = handler
    BY <1>5, PricingSilent
  <2> QED BY <1>5, <2>1, PricingSilent, PricesStay DEF Keeps
<1>6. CASE UNCHANGED billingVars
  BY <1>0, <1>6 DEF PricesKnown, About, Holds, Hook, Known, Step, billingVars
<1> QED BY <1>2, <1>3, <1>4, <1>5, <1>6, ReportEffect DEF BillingNext, Handling, Pricing

LEMMA CarriedStep ==
  ASSUME BInv, [BillingNext]_billingVars
  PROVE  Carried'
<1>0. Carried
  BY DEF BInv
<1>1. CASE \A g \in Handlers : handler'[g].pc = "update" =>
             Keeps(g) \/ \E w \in Webhook, st \in State : Took(g, w, st)
  <2>1. ASSUME NEW g \in Handlers, handler'[g].pc = "update",
               handler'[g].hook.sub \notin PaystackSubs
        PROVE  handler'[g].state = handler'[g].hook.state
    <3>1. CASE Keeps(g)
      BY <1>0, <2>1, <3>1 DEF Keeps, Carried, Step, Hook
    <3>2. ASSUME NEW w \in Webhook, NEW st \in State, Took(g, w, st)
          PROVE  handler'[g].state = handler'[g].hook.state
      BY <2>1, <3>2 DEF Took
    <3> QED BY <1>1, <2>1, <3>1, <3>2
  <2> QED BY <2>1 DEF Carried, Step, Hook
<1>2. ASSUME NEW h \in Handlers, Handling(h) PROVE Carried'
  BY <1>1, <1>2, UpdateStep
<1>3. ASSUME NEW s \in Subs,
             (\E t \in PaidPlans : Checkout(s, t)) \/ (\E st \in State : Change(s, st))
      PROVE  handler' = handler
  BY <1>3 DEF Checkout, Change, Report
<1>4. ASSUME NEW w \in inbox, GiveUp(w) PROVE handler' = handler
  BY <1>4 DEF GiveUp
<1>5. CASE handler' = handler
  BY <1>1, <1>5 DEF Keeps
<1> QED BY <1>2, <1>3, <1>4, <1>5, PricingSilent DEF BillingNext, Handling, Pricing, billingVars

-----------------------------------------------------------------------------
\* What becomes of the newest webhook of a subscription.

LEMMA UnappliedStays ==
  ASSUME Silent, NEW s \in Subs, NEW w \in Webhook, Unapplied(s, w),
         w \in inbox', w.id \notin recorded',
         \A h \in Handlers : handler'[h].pc # "idle" /\ handler'[h].hook = w =>
            \/ Keeps(h)
            \/ handler'[h].pc = "extract"
            \/ handler'[h].pc = "update" /\ handler'[h].state = psub[s]
  PROVE  Followed(s)'
<1>1. ASSUME NEW h \in Handlers, handler'[h].pc # "idle", handler'[h].hook = w
      PROVE  \/ handler'[h].pc = "extract"
             \/ handler'[h].pc = "update" /\ handler'[h].state = psub[s]
  BY <1>1 DEF Unapplied, Keeps, Holds, Hook, Step
<1>2. s \notin PaystackSubs => \A v \in Webhook : About(v)' /\ v.sub = s => v.id <= w.id
  BY DEF Silent, Unapplied
<1>3. w.sub = s /\ w.state = psub'[s] /\ psub' = psub
  BY DEF Silent, Unapplied
<1>4. Unapplied(s, w)'
  BY <1>1, <1>2, <1>3 DEF Unapplied, Holds, Hook, Step
<1> QED BY <1>4 DEF Followed

LEMMA AppliedStays ==
  ASSUME BInv, BillingTypeOK', Silent, NEW s \in Subs, Applied(s), newest[s] <= newest'[s],
         row'.sub = s => \/ row' = row
                         \/ row'.plan = Tier[psub[s].price] /\ row'.status = psub[s].status,
         \A g \in Handlers : handler'[g].pc = "update" =>
           Keeps(g) \/ \E w \in Webhook, st \in State : Took(g, w, st)
  PROVE  Followed(s)'
<1>0. /\ psub' = psub /\ newest[s] \in Nat /\ newest'[s] \in Nat
      /\ \A w \in Webhook : w.id \in Nat
  BY BillingAssumption DEF Silent, BInv, BillingTypeOK, Webhook
<1>n. ASSUME NEW id \in Nat, NEW st, NoNews(s, id, st) PROVE NoNews(s, id, st)'
  BY <1>0, <1>n DEF NoNews
<1>1. (row.sub = s => row.plan = Tier[psub[s].price] /\ row.status = psub[s].status)'
  BY <1>0 DEF Applied
<1>2. ASSUME NEW g \in Handlers, handler'[g].pc = "update", handler'[g].hook.sub = s
      PROVE  \E id, st : /\ id \in Nat /\ NoNews(s, id, st)
                         /\ id = handler'[g].hook.id /\ st = handler'[g].state
  <2>1. CASE Keeps(g)
    <3>1. handler[g].pc = "update" /\ handler[g].hook.sub = s
      BY <1>2, <2>1 DEF Keeps
    <3>2. handler[g].hook.id \in Nat
      BY <1>0, <3>1, HandlerShape DEF BInv
    <3>3. NoNews(s, handler[g].hook.id, handler[g].state)
      BY <3>1 DEF Applied, Step, Hook
    <3> QED BY <2>1, <3>2, <3>3 DEF Keeps
  <2>2. ASSUME NEW w \in Webhook, NEW st \in State, Took(g, w, st)
        PROVE  NoNews(s, w.id, st) /\ w.id = handler'[g].hook.id /\ st = handler'[g].state
    <3>1. /\ w = handler'[g].hook /\ st = handler'[g].state /\ About(w)
          /\ st = IF w.sub \in PaystackSubs THEN psub[w.sub] ELSE w.state
      BY <2>2 DEF Took
    <3>2. CASE s \in PaystackSubs
      BY <1>2, <3>1, <3>2 DEF NoNews
    <3>3. CASE s \notin PaystackSubs
      BY <1>2, <3>1, <3>3 DEF Applied
    <3> QED BY <3>1, <3>2, <3>3
  <2> QED BY <1>0, <1>2, <2>1, <2>2
<1>3. ASSUME NEW g \in Handlers, handler'[g].pc = "update", handler'[g].hook.sub = s
      PROVE  (NoNews(s, handler[g].hook.id, handler[g].state))'
  <2>1. PICK id, st : /\ id \in Nat /\ NoNews(s, id, st)
                      /\ id = handler'[g].hook.id /\ st = handler'[g].state
    BY <1>2, <1>3
  <2>2. NoNews(s, id, st)'
    BY <1>n, <2>1
  <2> QED BY <2>1, <2>2 DEF NoNews
<1>4. ASSUME s \notin PaystackSubs, NEW v \in Webhook, About(v)', v.sub = s
      PROVE  NoNews(s, v.id, v.state)'
  <2>1. NoNews(s, v.id, v.state)
    BY <1>4 DEF Silent, Applied
  <2> QED BY <1>0, <1>n, <2>1
<1>5. Applied(s)'
  BY <1>1, <1>3, <1>4 DEF Applied, Step, Hook
<1> QED BY <1>5 DEF Followed

LEMMA FollowedReport ==
  ASSUME BInv, BillingTypeOK', NEW x \in Subs, NEW st \in State, Reported(x, st),
         NEW s \in Subs
  PROVE  Followed(s)'
<1>0. BillingTypeOK /\ Numbered /\ Followed(s) /\ sent \in Nat
  BY BillingAssumption DEF BInv, BillingTypeOK
<1>1. PICK new \in Webhook :
         new \in inbox' /\ new = [id |-> sent + 1, sub |-> x, state |-> st]
  BY DEF Reported, BillingTypeOK
<1>2. UNCHANGED <<row, recorded, handler, newest, muddled>>
  BY DEF Reported
<1>w. \A w \in Webhook : w.id \in Nat
  BY BillingAssumption DEF Webhook
<1>3. CASE s = x
  <2>1. \A h \in Handlers : ~Holds(h, new)
    BY <1>0, <1>1 DEF Numbered, About
  <2>2. new.id \notin recorded
    BY <1>0, <1>1 DEF BillingTypeOK
  <2>3. ASSUME NEW v \in Webhook, About(v)' PROVE v.id <= new.id
    <3>1. About(v) \/ v = new
      BY <1>1, <2>3, ReportAbout
    <3> QED BY <1>0, <1>1, <1>w, <3>1 DEF Numbered
  <2>4. psub'[s] = st
    BY <1>3 DEF Reported
  <2>5. Unapplied(s, new)'
    BY <1>1, <1>2, <1>3, <2>1, <2>2, <2>3, <2>4 DEF Unapplied, Holds, Hook
  <2> QED BY <1>1, <2>5 DEF Followed
<1>4. CASE s # x
  <2>1. psub'[s] = psub[s] /\ inbox \subseteq inbox'
    BY <1>4 DEF Reported
  <2>2. ASSUME NEW v \in Webhook, About(v)', v.sub = s PROVE About(v)
    BY <1>4, <2>2, ReportAbout
  <2>3. CASE s \in muddled
    BY <1>2, <2>3 DEF Followed
  <2>4. CASE Applied(s)
    <3>1. Applied(s)'
      BY <1>2, <2>1, <2>2, <2>4 DEF Applied, NoNews, Step, Hook
    <3> QED BY <3>1 DEF Followed
  <2>5. ASSUME NEW w \in Webhook, Unapplied(s, w) PROVE Followed(s)'
    <3>1. Unapplied(s, w)'
      BY <1>2, <2>1, <2>2, <2>5 DEF Unapplied, Holds, Hook, Step
    <3> QED BY <3>1 DEF Followed
  <2> QED BY <1>0, <2>3, <2>4, <2>5 DEF Followed
<1> QED BY <1>3, <1>4

\* A step of the handler leaves a subscription that is muddled so.
LEMMA HandlingKeeps ==
  ASSUME BInv, NEW h \in Handlers, Handling(h)
  PROVE  /\ muddled \subseteq muddled'
         /\ ~Apply(h) => row' = row /\ newest' = newest
         /\ ~Record(h) => recorded' = recorded
         /\ ~Answer(h) => inbox' = inbox
BY DEF Handling, CheckProcessed, Extract, Apply, Record, Answer, CrashHandler, tableVars,
       historyVars

\* The newest webhook is applied, and everything else about s is older.
LEMMA FollowedApply ==
  ASSUME BInv, BillingTypeOK', NEW h \in Handlers, Apply(h), NEW s \in Subs
  PROVE  Followed(s)'
<1> DEFINE w  == Hook(h)
           st == handler[h].state
<1>0. BillingTypeOK /\ Numbered /\ Followed(s) /\ Carried
  BY DEF BInv
<1>e. /\ Step(h, "update") /\ w \in Webhook /\ st \in State /\ About(w) /\ Holds(h, w)
      /\ Turns(h, [pc |-> "record", hook |-> w])
  BY ApplyEffect, HeldIsAbout DEF Step, Holds
<1>s. Silent /\ muddled \subseteq muddled' /\ recorded' = recorded /\ inbox' = inbox
  BY HandlingSilent, HandlingKeeps DEF Handling, Apply
<1>a. /\ \/ /\ row' = [plan |-> Tier[st.price], status |-> st.status, sub |-> w.sub]
            /\ newest' = [newest EXCEPT ![w.sub] = IF w.id > @ THEN w.id ELSE @]
         \/ w.sub \in PaystackSubs /\ row.sub # w.sub /\ row' = row /\ newest' = newest
      /\ (w.sub \notin PaystackSubs /\ w.id < newest[w.sub]) \/ Overlaps(h, w.sub)
           => w.sub \in muddled'
  BY DEF Apply
<1>i. \A v \in Webhook : v.id \in Nat /\ v.sub \in Subs
  BY BillingAssumption DEF Webhook
<1>n. newest[s] \in Nat /\ newest'[s] \in Nat /\ newest[s] <= newest'[s]
  BY <1>0, <1>a, <1>e, <1>i, BillingAssumption DEF BillingTypeOK
<1>u. \A g \in Handlers : handler'[g].pc = "update" =>
        Keeps(g) \/ \E v \in Webhook, x \in State : Took(g, v, x)
  BY UpdateStep DEF Handling
<1>1. CASE s \in muddled'
  BY <1>1 DEF Followed
<1>2. ASSUME Applied(s), s \notin muddled' PROVE Followed(s)'
  <2>1. CASE w.sub = s
    <3>1. NoNews(s, w.id, st)
      BY <1>2, <1>e, <2>1 DEF Applied
    <3>2. st = psub[s]
      BY <1>2, <1>a, <2>1, <3>1 DEF NoNews
    <3> QED BY <1>2, <1>a, <1>n, <1>s, <1>u, <3>2, AppliedStays
  <2>2. CASE w.sub # s
    BY <1>2, <1>a, <1>n, <1>s, <1>u, <2>2, AppliedStays
  <2> QED BY <2>1, <2>2
<1>3. ASSUME NEW v \in Webhook, Unapplied(s, v), s \notin muddled' PROVE Followed(s)'
  <2>1. CASE v # w
    <3>1. ASSUME NEW g \in Handlers, handler'[g].pc # "idle", handler'[g].hook = v
          PROVE  Keeps(g)
      BY <1>e, <2>1, <3>1 DEF Turns, Keeps
    <3>2. v \in inbox' /\ v.id \notin recorded'
      BY <1>3, <1>s DEF Unapplied
    <3> QED BY <1>3, <1>s, <3>1, <3>2, UnappliedStays
  <2>2. CASE v = w
    <3>1. w.sub = s /\ st = psub[s] /\ w.state = psub[s]
      BY <1>3, <1>e, <2>2 DEF Unapplied, Step
    <3>2. row'.sub = s => row'.plan = Tier[psub[s].price] /\ row'.status = psub[s].status
      BY <1>a, <3>1
    <3>3. ASSUME NEW g \in Handlers, handler'[g].pc = "update", handler'[g].hook.sub = s
          PROVE  FALSE
      <4>1. g # h
        BY <1>e, <3>3 DEF Turns
      <4>2. Step(g, "update") /\ Hook(g).sub = s
        BY <1>e, <3>3, <4>1 DEF Turns, Step, Hook
      <4>3. Overlaps(h, s)
        BY <4>1, <4>2 DEF Overlaps
      <4> QED BY <1>3, <1>a, <3>1, <4>3
    <3>4. ASSUME s \notin PaystackSubs, NEW x \in Webhook, About(x)', x.sub = s
          PROVE  NoNews(s, x.id, x.state)'
      <4>1. About(x) /\ x.id <= w.id
        BY <1>3, <1>s, <2>2, <3>4 DEF Silent, Unapplied
      <4>0. x.id \in Nat /\ w.id \in Nat
        BY <1>e, <1>i
      <4>2. CASE x.id = w.id
        <5>1. x = w
          BY <1>0, <1>e, <4>1, <4>2 DEF Numbered
        <5> QED BY <1>s, <3>1, <5>1 DEF NoNews, Silent
      <4>3. CASE x.id < w.id
        <5>1. w.id <= newest'[s]
          <6>1. newest' = [newest EXCEPT ![s] = IF w.id > @ THEN w.id ELSE @]
            BY <1>a, <3>1, <3>4
          <6> QED BY <1>0, <1>n, <4>0, <6>1 DEF BillingTypeOK
        <5>2. x.id < newest'[s]
          BY <1>n, <4>0, <4>3, <5>1
        <5> QED BY <3>4, <5>2 DEF NoNews
      <4> QED BY <4>0, <4>1, <4>2, <4>3
    <3>5. psub' = psub
      BY <1>s DEF Silent
    <3>6. Applied(s)'
      BY <3>2, <3>3, <3>4, <3>5 DEF Applied, Step, Hook
    <3> QED BY <3>6 DEF Followed
  <2> QED BY <2>1, <2>2
<1> QED BY <1>0, <1>1, <1>2, <1>3, <1>s DEF Followed

\* A handler that does not apply: the webhook it holds is not the unapplied one,
\* or it is on its way to be applied.
LEMMA FollowedHandling ==
  ASSUME BInv, BillingTypeOK', NEW h \in Handlers, Handling(h), ~Apply(h), NEW s \in Subs
  PROVE  Followed(s)'
<1>0. BillingTypeOK /\ Numbered /\ Followed(s)
  BY DEF BInv
<1>s. /\ Silent /\ muddled \subseteq muddled' /\ row' = row /\ newest' = newest
      /\ ~Record(h) => recorded' = recorded
      /\ ~Answer(h) => inbox' = inbox
  BY HandlingSilent, HandlingKeeps
<1>u. \A g \in Handlers : handler'[g].pc = "update" =>
        Keeps(g) \/ \E v \in Webhook, x \in State : Took(g, v, x)
  BY UpdateStep
<1>i. \A v \in Webhook : v.id \in Nat
  BY BillingAssumption DEF Webhook
<1>1. CASE s \in muddled'
  BY <1>1 DEF Followed
<1>2. CASE Applied(s)
  <2>1. newest[s] <= newest'[s]
    BY <1>0, <1>s, BillingAssumption DEF BillingTypeOK
  <2> QED BY <1>2, <1>s, <1>u, <2>1, AppliedStays
<1>3. ASSUME NEW w \in Webhook, Unapplied(s, w), s \notin muddled' PROVE Followed(s)'
  <2>0. /\ w \in inbox /\ w.sub = s /\ w.state = psub[s] /\ w.id \notin recorded /\ About(w)
        /\ \A g \in Handlers : Holds(g, w) =>
             Step(g, "extract") \/ (Step(g, "update") /\ handler[g].state = psub[s])
    BY <1>3 DEF Unapplied, About
  <2>t. ASSUME NEW q, Turns(h, q),
               \/ q.pc = "idle" \/ q.hook # w \/ q.pc = "extract"
               \/ q.pc = "update" /\ q.state = psub[s],
               w \in inbox', w.id \notin recorded'
        PROVE  Followed(s)'
    <3>1. ASSUME NEW g \in Handlers, handler'[g].pc # "idle", handler'[g].hook = w
          PROVE  \/ Keeps(g)
                 \/ handler'[g].pc = "extract"
                 \/ handler'[g].pc = "update" /\ handler'[g].state = psub[s]
      BY <2>t, <3>1 DEF Turns, Keeps
    <3> QED BY <1>3, <1>s, <2>t, <3>1, UnappliedStays
  <2>1. CASE \E v \in inbox : CheckProcessed(h, v)
    <3>1. PICK v \in inbox : CheckProcessed(h, v)
      BY <2>1
    <3>2. inbox' = inbox /\ recorded' = recorded
      BY <3>1 DEF CheckProcessed, tableVars
    <3>3. handler[h].pc = "idle" /\ (v = w => v.id \notin recorded)
      BY <2>0, <3>1 DEF CheckProcessed, Step
    <3>4. \/ Turns(h, [pc |-> "extract", hook |-> v])
          \/ v # w /\ Turns(h, [pc |-> "answer", hook |-> v])
      <4>1. v \in Webhook
        BY <3>1, CheckEffect
      <4>2. v = w => Become(h, [pc |-> "extract", hook |-> v])
        BY <3>1, <3>3 DEF CheckProcessed
      <4> QED BY <1>0, <3>1, <4>1, <4>2, CheckEffect, StateTypes, BecomeTurns
    <3> QED BY <2>0, <2>t, <3>2, <3>4
  <2>2. CASE Extract(h)
    <3>1. inbox' = inbox /\ recorded' = recorded
      BY <2>2 DEF Extract, tableVars
    <3>2. ASSUME NEW st \in State,
                 st = IF Hook(h).sub \in PaystackSubs THEN psub[Hook(h).sub] ELSE Hook(h).state,
                 Turns(h, [pc |-> "update", hook |-> Hook(h), state |-> st])
          PROVE  Followed(s)'
      <4>1. Hook(h) = w => st = psub[s]
        BY <2>0, <3>2
      <4> QED BY <2>0, <2>t, <3>1, <3>2, <4>1
    <3>3. CASE /\ muddled' = muddled \cup {Hook(h).sub}
               /\ Turns(h, [pc |-> "record", hook |-> Hook(h)])
      <4>1. Hook(h) # w
        BY <1>3, <2>0, <3>3
      <4> QED BY <2>0, <2>t, <3>1, <3>3, <4>1
    <3> QED BY <2>2, <3>2, <3>3, ExtractEffect
  <2>3. CASE Record(h)
    <3>1. Step(h, "record") /\ Hook(h) \in Webhook /\ About(Hook(h)) /\ inbox' = inbox
      BY <2>3, RecordEffect, HeldIsAbout DEF Step, Record
    <3>2. Hook(h) # w
      BY <2>0, <3>1 DEF Holds, Step
    <3>3. Hook(h).id # w.id
      BY <1>0, <2>0, <3>1, <3>2 DEF Numbered
    <3>4. w.id \notin recorded'
      BY <2>0, <2>3, <3>3, RecordEffect
    <3>5. CASE Turns(h, [pc |-> "answer", hook |-> Hook(h)])
      BY <2>0, <2>t, <3>1, <3>2, <3>4, <3>5
    <3>6. CASE Turns(h, NoHandler)
      BY <2>0, <2>t, <3>1, <3>4, <3>6 DEF NoHandler
    <3> QED BY <2>3, <3>5, <3>6, RecordEffect
  <2>4. CASE Answer(h)
    <3>1. Hook(h) # w /\ inbox' = inbox \ {Hook(h)} /\ recorded' = recorded
      BY <2>0, <2>4 DEF Answer, Holds, Step, tableVars
    <3>2. Turns(h, NoHandler)
      BY <2>4, StopEffect
    <3> QED BY <2>0, <2>t, <3>1, <3>2 DEF NoHandler
  <2>5. CASE CrashHandler(h)
    <3>1. inbox' = inbox /\ recorded' = recorded
      BY <2>5 DEF CrashHandler, tableVars
    <3>2. Turns(h, NoHandler)
      BY <2>5, StopEffect
    <3> QED BY <2>0, <2>t, <3>1, <3>2 DEF NoHandler
  <2> QED BY <2>1, <2>2, <2>3, <2>4, <2>5 DEF Handling
<1> QED BY <1>0, <1>1, <1>2, <1>3, <1>s DEF Followed

\* Steps outside the handlers that send nothing.
LEMMA FollowedBeside ==
  ASSUME BInv, BillingTypeOK', Silent, UNCHANGED <<handler, row, recorded, newest>>,
         NEW s \in Subs, muddled \subseteq muddled',
         \A w \in inbox : w.sub = s /\ s \notin muddled' => w \in inbox'
  PROVE  Followed(s)'
<1>0. BillingTypeOK /\ Followed(s)
  BY DEF BInv
<1>1. CASE s \in muddled'
  BY <1>1 DEF Followed
<1>2. CASE Applied(s)
  <2>1. newest[s] <= newest'[s]
    BY <1>0, BillingAssumption DEF BillingTypeOK
  <2> QED BY <1>2, <2>1, AppliedStays DEF Keeps
<1>3. ASSUME NEW w \in Webhook, Unapplied(s, w), s \notin muddled' PROVE Followed(s)'
  <2>1. w \in inbox' /\ w.id \notin recorded'
    BY <1>3 DEF Unapplied
  <2> QED BY <1>3, <2>1, UnappliedStays DEF Keeps
<1> QED BY <1>0, <1>1, <1>2, <1>3 DEF Followed

LEMMA FollowedStep ==
  ASSUME BInv, [BillingNext]_billingVars, NEW s \in Subs
  PROVE  Followed(s)'
<1>0. BillingTypeOK'
  BY TypeStep
<1>1. ASSUME NEW x \in Subs,
             (\E t \in PaidPlans : Checkout(x, t)) \/ (\E st \in State : Change(x, st))
      PROVE  Followed(s)'
  BY <1>0, <1>1, ReportEffect, FollowedReport
<1>2. ASSUME NEW h \in Handlers, Handling(h) PROVE Followed(s)'
  BY <1>0, <1>2, FollowedApply, FollowedHandling
<1>3. ASSUME NEW w \in inbox, GiveUp(w) PROVE Followed(s)'
  <2>1. /\ UNCHANGED <<handler, row, recorded, newest>>
        /\ inbox' = inbox \ {w} /\ muddled' = muddled \cup {w.sub}
    BY <1>3 DEF GiveUp, tableVars
  <2> QED BY <1>0, <1>3, <2>1, GiveUpSilent, FollowedBeside
<1>4. ASSUME NEW a \in Admins, Pricing(a) PROVE Followed(s)'
  <2>1. Silent /\ UNCHANGED <<inbox, handler, row, recorded, newest, muddled>>
    BY <1>4, PricingSilent DEF historyVars
  <2> QED BY <1>0, <2>1, FollowedBeside
<1>5. CASE UNCHANGED billingVars
  <2>1. Silent
    BY <1>5 DEF Silent, About, Holds, Hook, billingVars
  <2> QED BY <1>0, <1>5, <2>1, FollowedBeside DEF billingVars
<1> QED BY <1>1, <1>2, <1>3, <1>4, <1>5 DEF BillingNext, Handling, Pricing

LEMMA NextInv == BInv /\ [BillingNext]_billingVars => BInv'
BY TypeStep, NumberedStep, PricesStep, CarriedStep, FollowedStep DEF BInv

LEMMA AlwaysInv == BillingSpec => []BInv
BY InitInv, NextInv, PTL DEF BillingSpec

-----------------------------------------------------------------------------
\* The row, the tables and the requests hold what their types say: in
\* particular the row names a subscription exactly when its plan is a paid one.
THEOREM BillingTypeCorrect == BillingSpec => []BillingTypeOK
<1>1. BInv => BillingTypeOK
  BY DEF BInv
<1> QED BY AlwaysInv, <1>1, PTL

\* When every webhook has been answered and no handler runs, the row agrees
\* with the provider about the subscription it names, unless a webhook of it
\* was lost, applied behind a newer one or beside another.
THEOREM RowAgrees == BillingSpec => []RowFollowsProvider
<1>1. BInv => RowFollowsProvider
  <2> SUFFICES ASSUME BInv, Quiet, row.sub # NoSub, row.sub \notin muddled
               PROVE  /\ row.plan = Tier[psub[row.sub].price]
                      /\ row.status = psub[row.sub].status
    BY DEF RowFollowsProvider
  <2>1. row.sub \in Subs /\ Followed(row.sub)
    BY DEF BInv, BillingTypeOK
  <2>2. \A w \in Webhook : ~Unapplied(row.sub, w)
    BY DEF Quiet, Unapplied
  <2> QED BY <2>1, <2>2 DEF Followed, Applied
<1> QED BY AlwaysInv, <1>1, PTL

=============================================================================
