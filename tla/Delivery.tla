------------------------------- MODULE Delivery -------------------------------
(***************************************************************************)
(* What publishOne promises of a PostTarget, without its statements, its   *)
(* claims' ages and the posts: an execution leases a target, sends it,     *)
(* records the platform's answer and ends the lease.  Module               *)
(* PublishingDelivery maps the publishing engine to it.                    *)
(***************************************************************************)
EXTENDS Naturals

CONSTANTS
    Targets,     \* PostTarget rows
    Jobs,        \* those whose platform answers with a job that ends later
    Executions,  \* function invocations
    NoTarget     \* the lease of an execution that holds none

VARIABLES
    lease,    \* the target each execution works on
    heard,    \* it knows that the platform accepted the target
    sent,     \* how many times the platform accepted the target
    outcome,  \* what is recorded of the target
    faults    \* functions killed, answers lost, records forgotten

dvars == <<lease, heard, sent, outcome, faults>>

Outcomes == {"open", "awaiting", "published", "failed"}

DeliveryInit ==
    /\ lease = [e \in Executions |-> NoTarget]
    /\ heard = [e \in Executions |-> FALSE]
    /\ sent = [t \in Targets |-> 0]
    /\ outcome = [t \in Targets |-> "open"]
    /\ faults = 0

Holds(e) == lease[e] # NoTarget

\* Only an open target is leased, and only by one execution at a time.
Take(e, t) ==
    /\ ~Holds(e)
    /\ outcome[t] = "open"
    /\ \A x \in Executions : lease[x] # t
    /\ lease' = [lease EXCEPT ![e] = t]
    /\ UNCHANGED <<heard, sent, outcome, faults>>

\* An execution that has not heard of an acceptance sends its target, unless
\* an outcome has been recorded; the answer may get lost.
Send(e) ==
    /\ Holds(e) /\ ~heard[e]
    /\ lease[e] \in Jobs \/ outcome[lease[e]] = "open"
    /\ sent' = [sent EXCEPT ![lease[e]] = @ + 1]
    /\ \/ heard' = [heard EXCEPT ![e] = TRUE] /\ UNCHANGED faults
       \/ faults' = faults + 1 /\ UNCHANGED heard
    /\ UNCHANGED <<lease, outcome>>

Record(e) ==
    /\ Holds(e) /\ heard[e]
    /\ outcome' = [outcome EXCEPT ![lease[e]] =
                      IF lease[e] \in Jobs THEN "awaiting" ELSE "published"]
    /\ UNCHANGED <<lease, heard, sent, faults>>

\* A lease ends with a record of what the platform accepted ...
Finish(e) ==
    /\ Holds(e) /\ heard[e]
    /\ outcome[lease[e]] # "open"
    /\ lease' = [lease EXCEPT ![e] = NoTarget]
    /\ heard' = [heard EXCEPT ![e] = FALSE]
    /\ UNCHANGED <<sent, outcome, faults>>

\* ... or, when nothing is known to be accepted, with another attempt to come
\* or with the failure of the target.
GiveBack(e) ==
    /\ Holds(e) /\ ~heard[e]
    /\ \E o \in {"open", "failed"} :
          outcome' = [outcome EXCEPT ![lease[e]] = o]
    /\ lease' = [lease EXCEPT ![e] = NoTarget]
    /\ UNCHANGED <<heard, sent, faults>>

\* A job that was sent ends, whoever works on its target meanwhile.
Report(t) ==
    /\ t \in Jobs /\ sent[t] > 0
    /\ \E o \in {"published", "failed"} : outcome' = [outcome EXCEPT ![t] = o]
    /\ UNCHANGED <<lease, heard, sent, faults>>

\* A function is killed, with the lease it may hold.
Die(e) ==
    /\ lease' = [lease EXCEPT ![e] = NoTarget]
    /\ heard' = [heard EXCEPT ![e] = FALSE]
    /\ faults' = faults + 1
    /\ UNCHANGED <<sent, outcome>>

\* An error makes an execution treat what was accepted as refused.
Forget(e) ==
    /\ Holds(e) /\ heard[e]
    /\ heard' = [heard EXCEPT ![e] = FALSE]
    /\ faults' = faults + 1
    /\ UNCHANGED <<lease, sent, outcome>>

DeliveryNext ==
    \/ \E e \in Executions :
          \/ \E t \in Targets : Take(e, t)
          \/ Send(e) \/ Record(e) \/ Finish(e) \/ GiveBack(e) \/ Die(e) \/ Forget(e)
    \/ \E t \in Targets : Report(t)

DeliverySpec == DeliveryInit /\ [][DeliveryNext]_dvars
=============================================================================
