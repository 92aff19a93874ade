------------------------------- MODULE MCBilling -------------------------------
EXTENDS Billing

\* The prices of one cell: a plan, a currency and an interval.
MCTier == [p \in Prices |-> "PRO"]
=============================================================================
