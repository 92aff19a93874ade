-------------------------------- MODULE Billing --------------------------------
(***************************************************************************)
(* The subscription of one organization: apps/api/src/billing/             *)
(* billing.service.ts, its two providers, entitlements.service.ts and      *)
(* pricing-admin.service.ts.                                               *)
(*                                                                         *)
(* Stripe and Paystack charge the customer and report each change of a     *)
(* subscription by a webhook, delivered at least once and in any order     *)
(* until it is answered with 2xx.  A Stripe event carries the state of the *)
(* subscription at the time it was sent; for a Paystack event the handler  *)
(* fetches the state of that moment.  Handlers are requests of their own   *)
(* and overlap.                                                            *)
(***************************************************************************)
EXTENDS Naturals, FiniteSets

CONSTANTS
    Subs,           \* subscriptions ever created at a provider
    PaystackSubs,   \* those of them that were paid in NGN
    Prices,         \* Stripe Prices and Paystack Plans
    EnvPrices,      \* those named by environment variables
    RowPrices,      \* those that have an active row to begin with
    Tier,           \* the plan each price belongs to
    Handlers,       \* webhook requests in progress at once
    Admins,         \* setPrice requests in progress at once
    NoSub, NoPrice,
    MaxEvents,      \* bound: webhooks sent
    MaxFaults       \* bound: killed handlers, lost webhooks, failed fetches

PaidPlans == {"PRO", "CREATOR", "AGENCY"}
Plans     == {"FREE"} \cup PaidPlans

ASSUME BillingAssumption ==
    /\ PaystackSubs \subseteq Subs /\ NoSub \notin Subs
    /\ EnvPrices \subseteq Prices /\ RowPrices \subseteq Prices \ EnvPrices
    /\ NoPrice \notin Prices
    /\ Tier \in [Prices -> PaidPlans]
    /\ \A p, q \in EnvPrices : Tier[p] = Tier[q] => p = q
    /\ \A p, q \in RowPrices : Tier[p] = Tier[q] => p = q
    /\ MaxEvents \in Nat /\ MaxFaults \in Nat

VARIABLES
    \* At the providers.
    psub,       \* the state of each subscription
    sent,       \* webhooks sent so far, which are numbered in that order
    inbox,      \* webhooks that have not been answered with 2xx
    \* Subscription, BillingWebhookEvent and PlanPrice.
    row,        \* plan, status, providerSubscriptionId
    recorded,   \* event ids
    prices,     \* rows of PlanPrice: active or not
    \* Requests.
    handler,    \* the progress of each webhook request
    admin,      \* the progress of each setPrice request
    \* History.
    newest,     \* per subscription, the latest webhook that was applied
    muddled,    \* subscriptions with a webhook lost, applied late or beside another
    faults

billingVars == <<psub, sent, inbox, row, recorded, prices, handler, admin,
                 newest, muddled, faults>>
providerVars == <<psub, sent>>
tableVars    == <<row, recorded, prices>>
historyVars  == <<newest, muddled, faults>>

Status  == {"ACTIVE", "PAST_DUE", "CANCELLED"}
State   == [status : Status, price : Prices]

ASSUME NoSubIsNoState == NoSub \notin State

Webhook == [id : 1..MaxEvents, sub : Subs, state : State]

\* A request without a webhook, and a webhook without a change of state.
NoHandler == [pc |-> "idle"]
NoAdmin   == [pc |-> "idle"]
HandlerState ==
    {NoHandler}
      \cup [pc : {"extract", "record", "answer"}, hook : Webhook]
      \cup [pc : {"update"}, hook : Webhook, state : State]
AdminState ==
    {NoAdmin}
      \cup [pc : {"create"}, tier : PaidPlans, previous : Prices \cup {NoPrice}]
      \cup [pc : {"swap"}, price : Prices, previous : Prices \cup {NoPrice}]

\* The row names a subscription once it has been paid for, and keeps its plan
\* when it lapses.
BillingTypeOK ==
    /\ psub \in [Subs -> State \cup {NoSub}]
    /\ sent \in 0..MaxEvents
    /\ inbox \subseteq Webhook /\ \A w \in inbox : w.id <= sent
    /\ row \in [plan : Plans, status : Status, sub : Subs \cup {NoSub}]
    /\ row.sub = NoSub <=> row.plan = "FREE"
    /\ recorded \subseteq 1..sent
    /\ prices \in [Prices -> {"none", "active", "inactive"}]
    /\ handler \in [Handlers -> HandlerState]
    /\ admin \in [Admins -> AdminState]
    /\ newest \in [Subs -> 0..sent]
    /\ muddled \subseteq Subs
    /\ faults \in 0..MaxFaults

\* Signup creates a FREE subscription.
BillingInit ==
    /\ psub = [s \in Subs |-> NoSub]
    /\ sent = 0 /\ inbox = {}
    /\ row = [plan |-> "FREE", status |-> "ACTIVE", sub |-> NoSub]
    /\ recorded = {}
    /\ prices = [p \in Prices |-> IF p \in RowPrices THEN "active" ELSE "none"]
    /\ handler = [h \in Handlers |-> NoHandler]
    /\ admin = [a \in Admins |-> NoAdmin]
    /\ newest = [s \in Subs |-> 0] /\ muddled = {} /\ faults = 0

-----------------------------------------------------------------------------
(* At the providers.                                                       *)

Active(t) == {p \in Prices : prices[p] = "active" /\ Tier[p] = t}

\* priceIdForPlan, planCodeForPlan: an active row, else the environment.
Offered(t) == IF Active(t) # {} THEN Active(t) ELSE {p \in EnvPrices : Tier[p] = t}

\* The subscription changes and the provider sends a webhook.
Report(s, st) ==
    /\ sent < MaxEvents
    /\ psub' = [psub EXCEPT ![s] = st]
    /\ sent' = sent + 1
    /\ inbox' = inbox \cup {[id |-> sent + 1, sub |-> s, state |-> st]}
    /\ UNCHANGED <<tableVars, handler, admin, historyVars>>

\* startCheckout, and the customer pays.  Nothing asks whether the organization
\* has a subscription already.
Checkout(s, t) ==
    /\ psub[s] = NoSub
    /\ \E p \in Offered(t) : Report(s, [status |-> "ACTIVE", price |-> p])

\* A renewal, a failed charge, a change of plan, a cancellation: a cancelled
\* subscription stays so.
Change(s, st) ==
    /\ psub[s] # NoSub
    /\ psub[s].status # "CANCELLED"
    /\ st.price # psub[s].price => st.price \in Offered(Tier[st.price])
    /\ Report(s, st)

-----------------------------------------------------------------------------
(* handleWebhook.                                                          *)

Step(h, l)  == handler[h].pc = l
Hook(h)     == handler[h].hook
Holds(h, w) == handler[h].pc # "idle" /\ Hook(h) = w
Become(h, r) == handler' = [handler EXCEPT ![h] = r]

\* Mutant: the handler does not look the event up.
CheckNothing(h, w) ==
    /\ Step(h, "idle") /\ w \in inbox
    /\ Become(h, [pc |-> "extract", hook |-> w])
    /\ UNCHANGED <<providerVars, inbox, tableVars, admin, historyVars>>

\* A delivery, which may come while an earlier one is still being handled.
CheckProcessed(h, w) ==
    /\ Step(h, "idle") /\ w \in inbox
    /\ Become(h, [pc |-> IF w.id \in recorded THEN "answer" ELSE "extract", hook |-> w])
    /\ UNCHANGED <<providerVars, inbox, tableVars, admin, historyVars>>

\* priceIdMap, planCodeMap: the environment and every row, active or not.
Known(p) == p \in EnvPrices \/ prices[p] # "none"

\* Mutant: the payload of a Paystack event is trusted.
ExtractPayload(h) ==
    /\ Step(h, "extract")
    /\ Become(h, [pc |-> "update", hook |-> Hook(h), state |-> Hook(h).state])
    /\ UNCHANGED <<providerVars, inbox, tableVars, admin, historyVars>>

\* extractSubscriptionEvent.  A price nobody knows, or a fetch that fails, is
\* "no state change": the event is recorded as processed all the same.
Extract(h) ==
    /\ Step(h, "extract")
    /\ LET s  == Hook(h).sub
           st == IF s \in PaystackSubs THEN psub[s] ELSE Hook(h).state
       IN  \/ /\ Become(h, IF Known(st.price)
                            THEN [pc |-> "update", hook |-> Hook(h), state |-> st]
                            ELSE [pc |-> "record", hook |-> Hook(h)])
              /\ UNCHANGED historyVars
           \/ /\ s \in PaystackSubs /\ faults < MaxFaults
              /\ Become(h, [pc |-> "record", hook |-> Hook(h)])
              /\ muddled' = muddled \cup {s} /\ faults' = faults + 1
              /\ UNCHANGED newest
    /\ UNCHANGED <<providerVars, inbox, tableVars, admin>>

\* Another handler that holds a state of s it has not written yet.
Overlaps(h, s) == \E g \in Handlers \ {h} : Step(g, "update") /\ Hook(g).sub = s

\* Mutant: the ids of the provider are not written.
ApplyWithoutIds(h) ==
    /\ Step(h, "update")
    /\ row' = [row EXCEPT !.plan = Tier[handler[h].state.price],
                          !.status = handler[h].state.status]
    /\ Become(h, [pc |-> "record", hook |-> Hook(h)])
    /\ UNCHANGED <<providerVars, inbox, recorded, prices, admin, historyVars>>

\* applySubscriptionEvent: plan, status and ids in one update of the row of the
\* organization, which the metadata of a Stripe subscription, the ids in the row
\* or the e-mail address of a Paystack customer lead to.  A Paystack subscription
\* the row does not name may be nobody's: the address is unknown, or of a member
\* of several organizations.  Its event is recorded as processed all the same.
Apply(h) ==
    /\ Step(h, "update")
    /\ LET s    == Hook(h).sub
           late == s \notin PaystackSubs /\ Hook(h).id < newest[s]
       IN  /\ \/ /\ row' = [plan |-> Tier[handler[h].state.price],
                            status |-> handler[h].state.status, sub |-> s]
                 /\ newest' = [newest EXCEPT ![s] = IF Hook(h).id > @ THEN Hook(h).id ELSE @]
              \/ /\ s \in PaystackSubs /\ row.sub # s
                 /\ UNCHANGED <<row, newest>>
           /\ muddled' = IF late \/ Overlaps(h, s) THEN muddled \cup {s} ELSE muddled
    /\ Become(h, [pc |-> "record", hook |-> Hook(h)])
    /\ UNCHANGED <<providerVars, inbox, recorded, prices, admin, faults>>

\* The event id is unique: the insert of a second handler throws, and the
\* provider will deliver again.
Record(h) ==
    /\ Step(h, "record")
    /\ \/ /\ Hook(h).id \notin recorded
          /\ recorded' = recorded \cup {Hook(h).id}
          /\ Become(h, [pc |-> "answer", hook |-> Hook(h)])
       \/ /\ Hook(h).id \in recorded
          /\ Become(h, NoHandler)
          /\ UNCHANGED recorded
    /\ UNCHANGED <<providerVars, inbox, row, prices, admin, historyVars>>

\* { received: true }: the provider stops.
Answer(h) ==
    /\ Step(h, "answer")
    /\ inbox' = inbox \ {Hook(h)}
    /\ Become(h, NoHandler)
    /\ UNCHANGED <<providerVars, tableVars, admin, historyVars>>

\* The handler is killed, or one of its statements throws.
CrashHandler(h) ==
    /\ handler[h].pc # "idle" /\ faults < MaxFaults
    /\ Become(h, NoHandler)
    /\ faults' = faults + 1
    /\ UNCHANGED <<providerVars, inbox, tableVars, admin, newest, muddled>>

\* The provider gives up on a webhook.
GiveUp(w) ==
    /\ w \in inbox /\ faults < MaxFaults
    /\ ~\E h \in Handlers : Holds(h, w)
    /\ inbox' = inbox \ {w}
    /\ muddled' = muddled \cup {w.sub} /\ faults' = faults + 1
    /\ UNCHANGED <<providerVars, tableVars, handler, admin, newest>>

-----------------------------------------------------------------------------
(* setPrice: the row on offer is read, the provider's object created, and  *)
(* then the rows are swapped in one transaction.                           *)

ReadPrice(a, t) ==
    /\ admin[a].pc = "idle"
    /\ \E p \in IF Active(t) # {} THEN Active(t) ELSE {NoPrice} :
          admin' = [admin EXCEPT ![a] = [pc |-> "create", tier |-> t, previous |-> p]]
    /\ UNCHANGED <<providerVars, inbox, tableVars, handler, historyVars>>

InUse == {admin[b].price : b \in {c \in Admins : admin[c].pc = "swap"}}

CreatePrice(a) ==
    /\ admin[a].pc = "create"
    /\ \E p \in Prices \ (EnvPrices \cup InUse) :
          /\ prices[p] = "none" /\ Tier[p] = admin[a].tier
          /\ admin' = [admin EXCEPT ![a] = [pc |-> "swap", price |-> p,
                                            previous |-> admin[a].previous]]
    /\ UNCHANGED <<providerVars, inbox, tableVars, handler, historyVars>>

SwapPrices(a) ==
    /\ admin[a].pc = "swap"
    /\ prices' = [p \in Prices |-> CASE p = admin[a].price    -> "active"
                                     [] p = admin[a].previous -> "inactive"
                                     [] OTHER                 -> prices[p]]
    /\ admin' = [admin EXCEPT ![a] = NoAdmin]
    /\ UNCHANGED <<providerVars, inbox, row, recorded, handler, historyVars>>

-----------------------------------------------------------------------------
BillingNext ==
    \/ \E s \in Subs :
          \/ \E t \in PaidPlans : Checkout(s, t)
          \/ \E st \in State : Change(s, st)
    \/ \E h \in Handlers :
          \/ \E w \in inbox : CheckProcessed(h, w)
          \/ Extract(h) \/ Apply(h) \/ Record(h) \/ Answer(h)
          \/ CrashHandler(h)
    \/ \E w \in inbox : GiveUp(w)
    \/ \E a \in Admins :
          \/ \E t \in {Tier[p] : p \in Prices} : ReadPrice(a, t)
          \/ CreatePrice(a) \/ SwapPrices(a)

BillingSpec == BillingInit /\ [][BillingNext]_billingVars

\* Providers retry for days, and a handler that runs takes its steps.
Deliver(i) == \E w \in inbox : w.id = i /\ \E h \in Handlers : CheckProcessed(h, w)
Handle(h)  == Extract(h) \/ Apply(h) \/ Record(h) \/ Answer(h)

BillingFairness ==
    /\ \A i \in 1..MaxEvents : SF_billingVars(Deliver(i))
    /\ \A h \in Handlers : WF_billingVars(Handle(h))

FairBillingSpec == BillingSpec /\ BillingFairness

-----------------------------------------------------------------------------
(* Properties.                                                             *)

Quiet == inbox = {} /\ \A h \in Handlers : handler[h].pc = "idle"

\* When every webhook has been answered, the row agrees with the provider about
\* the subscription it names, however often the webhooks came, although they
\* are recorded only after they were applied and although the price may have
\* been taken off the list since.  For Paystack the order does not matter
\* either.  The exceptions are the ones of muddled: a webhook or a fetch that
\* was lost, two handlers at once, and a Stripe webhook behind a newer one.
RowFollowsProvider ==
    Quiet /\ row.sub # NoSub /\ row.sub \notin muddled =>
        /\ row.plan = Tier[psub[row.sub].price]
        /\ row.status = psub[row.sub].status

Pending(i) == \E w \in inbox : w.id = i

\* A webhook is answered in the end: although it can be delivered twice at
\* once, and only one of the two may record it, it never fails for ever.
WebhooksSettle ==
    \A i \in 1..MaxEvents : Pending(i) ~> ~Pending(i)

=============================================================================
