-------------------------- MODULE PublishingDelivery --------------------------
(***************************************************************************)
(* The publishing engine as an implementation of module Delivery: a lease  *)
(* is the code of publishOne between its claim and its outcome, and the    *)
(* recorded outcome of a target is what its status and claimedAt say.      *)
(***************************************************************************)
EXTENDS Publishing

\* The platform's answer is known from the call on, until the code has left
\* the try block.
Heard(w) == path[w] = "try" /\ pc[w] \in {"commit"} \cup Finalizing

OutcomeOf(t) ==
    CASE status[t] = "PUBLISHED" -> "published"
      [] status[t] = "FAILED"    -> "failed"
      [] Awaiting(t)             -> "awaiting"
      [] OTHER                   -> "open"

LeaseMap   == [w \in Workers |-> IF Owns(w) THEN target[w] ELSE NoTarget]
HeardMap   == [w \in Workers |-> Heard(w)]
SentMap    == [t \in Targets |-> Len(subs[t])]
OutcomeMap == [t \in Targets |-> OutcomeOf(t)]

D == INSTANCE Delivery WITH
        Jobs <- TikTok, Executions <- Workers,
        lease <- LeaseMap, heard <- HeardMap, sent <- SentMap,
        outcome <- OutcomeMap, faults <- Faults

\* The engine implements Delivery: between the claim and the outcome of a
\* target no other execution touches it, it is sent at most once per claim, and
\* a claim ends with a record of what the platform accepted, unless a fault
\* intervenes.
ImplementsDelivery == D!DeliverySpec
=============================================================================
