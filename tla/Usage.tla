--------------------------------- MODULE Usage ---------------------------------
(***************************************************************************)
(* One metered counter of an organization: apps/api/src/billing/           *)
(* usage.service.ts, and reserveAiGeneration, releaseAiGeneration and      *)
(* reservePostSlot of entitlements.service.ts, which are used around a     *)
(* call to an AI provider or a publication.                                *)
(*                                                                         *)
(* A UsageRecord belongs to a calendar month.  The row is changed by       *)
(* single statements; between the statements of a request the month may    *)
(* turn, a webhook may change the plan, and other requests run.            *)
(***************************************************************************)
EXTENDS Integers, FiniteSets

CONSTANTS
    Workers,    \* requests in progress at once
    Limits,     \* what the plans allow per month; -1 is "no limit"
    MaxMonth,   \* bound: the months of a behaviour
    MaxUse      \* bound: what a counter may reach

ASSUME UsageAssumption ==
    /\ Limits \subseteq {-1} \cup (Nat \ {0}) /\ Limits # {}
    /\ IsFiniteSet(Workers)
    /\ MaxMonth \in Nat \ {0} /\ MaxUse \in Nat

Months == 1..MaxMonth

VARIABLES
    month,      \* getCurrentPeriod().start
    limit,      \* the limit of the plan in effect
    count,      \* UsageRecord.count of each month, 0 before the first use
    work,       \* per request: the limit it read, the month of its reservation
    given,      \* history: reservations of each month that were not given back
    strayed,    \* history: give-backs that each month's row took for another month
    ceiling     \* history: the largest limit so far, -1 once there was none

usageVars == <<month, limit, count, work, given, strayed, ceiling>>

NoWork == [pc |-> "idle", limit |-> -1, month |-> 1]
Work   == [pc : {"idle", "reserve", "call", "release"}, limit : Limits \cup {-1},
           month : Months]

UsageTypeOK ==
    /\ month \in Months
    /\ limit \in Limits
    /\ count \in [Months -> Nat]
    /\ work \in [Workers -> Work]
    /\ given \in [Months -> Int]
    /\ strayed \in [Months -> Nat]
    /\ ceiling \in Int

UsageInit ==
    /\ month = 1
    /\ limit \in Limits
    /\ count = [m \in Months |-> 0]
    /\ work = [w \in Workers |-> NoWork]
    /\ given = [m \in Months |-> 0]
    /\ strayed = [m \in Months |-> 0]
    /\ ceiling = limit

Turn ==
    /\ month < MaxMonth
    /\ month' = month + 1
    /\ UNCHANGED <<limit, count, work, given, strayed, ceiling>>

\* A webhook moves the organization to another plan.
ChangePlan(l) ==
    /\ limit' = l
    /\ ceiling' = IF l = -1 \/ ceiling = -1 THEN -1 ELSE IF l > ceiling THEN l ELSE ceiling
    /\ UNCHANGED <<month, count, work, given, strayed>>

\* getEntitlementsForOrganization
ReadLimit(w) ==
    /\ work[w].pc = "idle"
    /\ work' = [work EXCEPT ![w] = [pc |-> "reserve", limit |-> limit, month |-> month]]
    /\ UNCHANGED <<month, limit, count, given, strayed, ceiling>>

Under(w) == work[w].limit = -1 \/ count[month] < work[w].limit

\* Mutant: check and increment are apart, as they were in reservePostSlot once.
IncrementUnchecked(w) ==
    /\ work[w].pc = "reserve" /\ count[month] < MaxUse
    /\ count' = [count EXCEPT ![month] = @ + 1]
    /\ given' = [given EXCEPT ![month] = @ + 1]
    /\ work' = [work EXCEPT ![w].pc = "call", ![w].month = month]
    /\ UNCHANGED <<month, limit, strayed, ceiling>>

\* incrementIfUnderLimit, on the row of the month it runs in.
Increment(w) ==
    /\ work[w].pc = "reserve"
    /\ \/ /\ Under(w) /\ count[month] < MaxUse
          /\ count' = [count EXCEPT ![month] = @ + 1]
          /\ given' = [given EXCEPT ![month] = @ + 1]
          /\ work' = [work EXCEPT ![w].pc = "call", ![w].month = month]
       \/ /\ ~Under(w)
          /\ work' = [work EXCEPT ![w] = NoWork]
          /\ UNCHANGED <<count, given>>
    /\ UNCHANGED <<month, limit, strayed, ceiling>>

\* The work succeeds, or its process dies with the reservation; or it fails.
Finish(w) ==
    /\ work[w].pc = "call"
    /\ \/ work' = [work EXCEPT ![w] = NoWork]
       \/ work' = [work EXCEPT ![w].pc = "release"]
    /\ UNCHANGED <<month, limit, count, given, strayed, ceiling>>

\* Mutant: "count > 0" is missing.
DecrementBelow(w) ==
    /\ work[w].pc = "release"
    /\ count' = [count EXCEPT ![month] = @ - 1]
    /\ given' = [given EXCEPT ![work[w].month] = @ - 1]
    /\ strayed' = IF work[w].month # month
                  THEN [strayed EXCEPT ![month] = @ + 1] ELSE strayed
    /\ work' = [work EXCEPT ![w] = NoWork]
    /\ UNCHANGED <<month, limit, ceiling>>

\* Mutant: the refund clears the counter.
DecrementToZero(w) ==
    /\ work[w].pc = "release"
    /\ count' = [count EXCEPT ![month] = 0]
    /\ given' = [given EXCEPT ![work[w].month] = @ - 1]
    /\ work' = [work EXCEPT ![w] = NoWork]
    /\ UNCHANGED <<month, limit, strayed, ceiling>>

\* decrement: the row of the current month, while it is positive.  It may throw,
\* which the callers log and ignore.
Decrement(w) ==
    /\ work[w].pc = "release"
    /\ \/ /\ count' = [count EXCEPT ![month] = IF @ > 0 THEN @ - 1 ELSE 0]
          /\ strayed' = IF work[w].month # month /\ count[month] > 0
                        THEN [strayed EXCEPT ![month] = @ + 1] ELSE strayed
       \/ UNCHANGED <<count, strayed>>
    /\ given' = [given EXCEPT ![work[w].month] = @ - 1]
    /\ work' = [work EXCEPT ![w] = NoWork]
    /\ UNCHANGED <<month, limit, ceiling>>

UsageNext ==
    \/ Turn
    \/ \E l \in Limits : ChangePlan(l)
    \/ \E w \in Workers : ReadLimit(w) \/ Increment(w) \/ Finish(w) \/ Decrement(w)

UsageSpec == UsageInit /\ [][UsageNext]_usageVars

-----------------------------------------------------------------------------
(* Properties.                                                             *)

\* "This can no longer be beaten by concurrency no matter how many requests
\* arrive at once": no month's counter passes the largest limit the
\* organization has had, although the limit is read before it is applied.
CountWithinLimit == ceiling = -1 \/ \A m \in Months : count[m] <= ceiling

\* The work that was done or is under way in a month never exceeds what the
\* counter of that month shows, except by the give-backs of other months that
\* its row has taken: the only way round the limit is a month that turns
\* between a reservation and its failure.
WorkIsCounted == \A m \in Months : given[m] <= count[m] + strayed[m]
=============================================================================
