\* A Stripe and a Paystack subscription of one organization, two webhooks at a
\* time, a price that is superseded, and a fault.
SPECIFICATION FairBillingSpec
CONSTANTS
  Subs = {s1, s2}
  PaystackSubs = {s2}
  Prices = {old, new}
  EnvPrices = {}
  RowPrices = {old}
  Tier <- MCTier
  Handlers = {h1, h2}
  Admins = {a1}
  NoSub = NoSub
  NoPrice = NoPrice
  MaxEvents = 2
  MaxFaults = 1
INVARIANTS
  BillingTypeOK
  RowFollowsProvider
PROPERTIES
  WebhooksSettle
CHECK_DEADLOCK FALSE
