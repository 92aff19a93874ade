------------------------------ MODULE UsageProofs ------------------------------
(***************************************************************************)
(* Theorems about module Usage, for any number of requests, plans, months  *)
(* and uses.  CountWithinLimit is not inductive: a request carries a limit *)
(* it read earlier, so CeilingInv says that nothing a request still holds  *)
(* is above the ceiling either.                                            *)
(***************************************************************************)
EXTENDS Usage, TLAPS

\* The plan in effect, the limits requests have read, and every counter are
\* within the largest limit there has been.
CeilingInv ==
    \/ ceiling = -1
    \/ /\ limit # -1 /\ limit <= ceiling
       /\ \A w \in Workers : work[w].pc = "reserve" =>
             work[w].limit # -1 /\ work[w].limit <= ceiling
       /\ \A m \in Months : count[m] <= ceiling

\* UsageTypeOK holds always: the counters stay natural numbers although they
\* are decremented by requests that may find them at zero.
LEMMA InitType == UsageInit => UsageTypeOK
BY UsageAssumption DEF UsageInit, UsageTypeOK, NoWork, Work, Months

\* What a request may hold.
LEMMA IdleWork == NoWork \in Work
BY UsageAssumption DEF NoWork, Work, Months

LEMMA WorkAt ==
  ASSUME NEW q \in Work, NEW p \in {"call", "release"}, NEW m \in Months
  PROVE  /\ [q EXCEPT !.pc = p] \in Work
         /\ [q EXCEPT !.pc = p, !.month = m] \in Work
BY DEF Work

\* A request that holds q from now on leaves the others what they hold.
LEMMA OneWorker ==
  ASSUME work \in [Workers -> Work], NEW w \in Workers, NEW q \in Work,
         work' = [work EXCEPT ![w] = q]
  PROVE  work' \in [Workers -> Work]
OBVIOUS

LEMMA NextType == UsageTypeOK /\ [UsageNext]_usageVars => UsageTypeOK'
<1> SUFFICES ASSUME UsageTypeOK, [UsageNext]_usageVars PROVE UsageTypeOK'
  OBVIOUS
<1>0. month \in Months /\ work \in [Workers -> Work] /\ Limits \subseteq Int
  BY UsageAssumption DEF UsageTypeOK
<1>1. CASE Turn
  <2>1. month' \in Months
    BY <1>1, UsageAssumption DEF Turn, UsageTypeOK, Months
  <2> QED BY <1>1, <2>1 DEF Turn, UsageTypeOK
<1>2. ASSUME NEW l \in Limits, ChangePlan(l) PROVE UsageTypeOK'
  <2>1. ceiling' \in Int
    BY <1>0, <1>2 DEF ChangePlan, UsageTypeOK
  <2> QED BY <1>2, <2>1 DEF ChangePlan, UsageTypeOK
<1>3. ASSUME NEW w \in Workers, ReadLimit(w) PROVE UsageTypeOK'
  <2>1. [pc |-> "reserve", limit |-> limit, month |-> month] \in Work
    BY <1>0 DEF Work, UsageTypeOK
  <2>2. work' \in [Workers -> Work]
    BY <1>0, <1>3, <2>1, OneWorker DEF ReadLimit
  <2> QED BY <1>3, <2>2 DEF ReadLimit, UsageTypeOK
<1>4. ASSUME NEW w \in Workers, Increment(w) PROVE UsageTypeOK'
  <2>1. CASE /\ count' = [count EXCEPT ![month] = @ + 1]
             /\ given' = [given EXCEPT ![month] = @ + 1]
             /\ work' = [work EXCEPT ![w].pc = "call", ![w].month = month]
    <3>1. count' \in [Months -> Nat] /\ given' \in [Months -> Int]
      BY <1>0, <2>1 DEF UsageTypeOK
    <3>2. work' = [work EXCEPT ![w] = [work[w] EXCEPT !.pc = "call", !.month = month]]
      BY <2>1
    <3>3. work[w] \in Work
      BY <1>0
    <3>4. work' \in [Workers -> Work]
      BY <1>0, <3>2, <3>3, WorkAt, OneWorker
    <3> QED BY <1>4, <3>1, <3>4 DEF Increment, UsageTypeOK
  <2>2. CASE work' = [work EXCEPT ![w] = NoWork] /\ UNCHANGED <<count, given>>
    <3>1. work' \in [Workers -> Work]
      BY <1>0, <2>2, IdleWork, OneWorker
    <3> QED BY <1>4, <2>2, <3>1 DEF Increment, UsageTypeOK
  <2> QED BY <1>4, <2>1, <2>2 DEF Increment
<1>5. ASSUME NEW w \in Workers, Finish(w) PROVE UsageTypeOK'
  <2>1. [work[w] EXCEPT !.pc = "release"] \in Work
    BY <1>0, WorkAt
  <2>2. \/ work' = [work EXCEPT ![w] = NoWork]
        \/ work' = [work EXCEPT ![w] = [work[w] EXCEPT !.pc = "release"]]
    BY <1>5 DEF Finish
  <2>3. work' \in [Workers -> Work]
    BY <1>0, <2>1, <2>2, IdleWork, OneWorker
  <2> QED BY <1>5, <2>3 DEF Finish, UsageTypeOK
<1>6. ASSUME NEW w \in Workers, Decrement(w) PROVE UsageTypeOK'
  <2>1. work[w].month \in Months
    BY <1>0 DEF Work
  <2>2. count' \in [Months -> Nat] /\ strayed' \in [Months -> Nat]
    <3>1. [count EXCEPT ![month] = IF count[month] > 0 THEN count[month] - 1 ELSE 0]
            \in [Months -> Nat]
      BY <1>0 DEF UsageTypeOK
    <3>2. [strayed EXCEPT ![month] = strayed[month] + 1] \in [Months -> Nat]
      BY <1>0 DEF UsageTypeOK
    <3>3. /\ count' \in {count, [count EXCEPT ![month] =
                                   IF count[month] > 0 THEN count[month] - 1 ELSE 0]}
          /\ strayed' \in {strayed, [strayed EXCEPT ![month] = strayed[month] + 1]}
      BY <1>6 DEF Decrement
    <3> QED BY <3>1, <3>2, <3>3 DEF UsageTypeOK
  <2>3. given' \in [Months -> Int]
    <3>1. given' = [given EXCEPT ![work[w].month] = given[work[w].month] - 1]
      BY <1>6 DEF Decrement
    <3> QED BY <2>1, <3>1 DEF UsageTypeOK
  <2>4. work' \in [Workers -> Work]
    BY <1>0, <1>6, IdleWork, OneWorker DEF Decrement
  <2> QED BY <1>6, <2>2, <2>3, <2>4 DEF Decrement, UsageTypeOK
<1>7. CASE UNCHANGED usageVars
  BY <1>7 DEF usageVars, UsageTypeOK
<1> QED BY <1>1, <1>2, <1>3, <1>4, <1>5, <1>6, <1>7 DEF UsageNext

\* The counters are well typed in every reachable state, whatever the number of
\* requests that reserve and release at once.
THEOREM UsageTypeCorrect == UsageSpec => []UsageTypeOK
BY InitType, NextType, PTL DEF UsageSpec

LEMMA NextCeiling == UsageTypeOK /\ CeilingInv /\ [UsageNext]_usageVars => CeilingInv'
<1> SUFFICES ASSUME UsageTypeOK, CeilingInv, [UsageNext]_usageVars, ceiling' # -1
             PROVE  /\ limit' # -1 /\ limit' <= ceiling'
                    /\ \A w \in Workers : work'[w].pc = "reserve" =>
                          work'[w].limit # -1 /\ work'[w].limit <= ceiling'
                    /\ \A m \in Months : count'[m] <= ceiling'
  BY DEF CeilingInv, Months
<1> DEFINE Fits(w) == work'[w].pc = "reserve" =>
                        work'[w].limit # -1 /\ work'[w].limit <= ceiling'
<1>0. /\ limit \in Int /\ ceiling \in Int /\ month \in Months
      /\ Limits \subseteq Int
      /\ \A w \in Workers : work[w].limit \in Int
      /\ \A m \in Months : count[m] \in Nat
      /\ DOMAIN work = Workers /\ DOMAIN count = Months
  <2>1. Limits \subseteq Int
    BY UsageAssumption
  <2>2. \A w \in Workers : work[w].limit \in Limits \cup {-1}
    BY DEF UsageTypeOK, Work
  <2>3. \A w \in Workers : work[w].limit \in Int
    <3>1. ASSUME NEW x \in Limits \cup {-1} PROVE x \in Int
      BY <2>1
    <3> QED BY <2>2, <3>1
  <2>4. limit \in Int
    BY <2>1 DEF UsageTypeOK
  <2>5. \A m \in Months : count[m] \in Nat
    BY DEF UsageTypeOK
  <2> QED BY <2>1, <2>3, <2>4, <2>5 DEF UsageTypeOK
<1>1. CASE Turn
  BY <1>1 DEF Turn, CeilingInv, Months
<1>2. ASSUME NEW l \in Limits, ChangePlan(l) PROVE CeilingInv'
  <2>1. ceiling # -1 /\ l # -1 /\ l <= ceiling' /\ ceiling <= ceiling' /\ ceiling' \in Int
    BY <1>0, <1>2 DEF ChangePlan
  <2>2. limit' = l /\ work' = work /\ count' = count
    BY <1>2 DEF ChangePlan
  <2>3. \A w \in Workers : Fits(w)
    BY <1>0, <2>1, <2>2 DEF CeilingInv
  <2>4. \A m \in Months : count'[m] <= ceiling'
    BY <1>0, <2>1, <2>2 DEF CeilingInv
  <2> QED BY <2>1, <2>2, <2>3, <2>4 DEF CeilingInv, Months
<1>3. ASSUME NEW w \in Workers, ReadLimit(w) PROVE CeilingInv'
  <2>1. \A v \in Workers : Fits(v)
    BY <1>0, <1>3 DEF ReadLimit, CeilingInv
  <2> QED BY <1>3, <2>1 DEF ReadLimit, CeilingInv, Months
<1>4. ASSUME NEW w \in Workers, Increment(w) PROVE CeilingInv'
  <2>1. ceiling' = ceiling /\ limit' = limit /\ work[w].pc = "reserve"
    BY <1>4 DEF Increment
  <2>2. \A v \in Workers : work'[v].pc = "reserve" => work'[v] = work[v]
    <3>1. CASE work' = [work EXCEPT ![w].pc = "call", ![w].month = month]
      <4>1. work'[w].pc = "call"
        BY <3>1 DEF UsageTypeOK, Work
      <4>2. \A v \in Workers \ {w} : work'[v] = work[v]
        BY <1>0, <3>1
      <4> QED BY <4>1, <4>2
    <3>2. CASE work' = [work EXCEPT ![w] = NoWork]
      BY <1>0, <3>2 DEF NoWork
    <3> QED BY <1>4, <3>1, <3>2 DEF Increment
  <2>3. \A m \in Months : count'[m] <= ceiling
    <3>1. CASE Under(w) /\ count' = [count EXCEPT ![month] = @ + 1]
      <4>1. count[month] + 1 <= ceiling
        BY <1>0, <2>1, <3>1 DEF Under, CeilingInv
      <4> QED BY <1>0, <2>1, <3>1, <4>1 DEF CeilingInv
    <3>2. CASE count' = count
      BY <2>1, <3>2 DEF CeilingInv
    <3> QED BY <1>4, <3>1, <3>2 DEF Increment
  <2> QED BY <2>1, <2>2, <2>3 DEF CeilingInv, Months
<1>5. ASSUME NEW w \in Workers, Finish(w) PROVE CeilingInv'
  <2>1. ceiling' = ceiling /\ limit' = limit /\ count' = count
    BY <1>5 DEF Finish
  <2>2. \A v \in Workers : work'[v].pc = "reserve" => work'[v] = work[v]
    <3>1. CASE work' = [work EXCEPT ![w].pc = "release"]
      <4>1. work'[w].pc = "release"
        BY <3>1 DEF UsageTypeOK, Work
      <4>2. \A v \in Workers \ {w} : work'[v] = work[v]
        BY <1>0, <3>1
      <4> QED BY <4>1, <4>2
    <3>2. CASE work' = [work EXCEPT ![w] = NoWork]
      BY <1>0, <3>2 DEF NoWork
    <3> QED BY <1>5, <3>1, <3>2 DEF Finish
  <2> QED BY <2>1, <2>2 DEF CeilingInv, Months
<1>6. ASSUME NEW w \in Workers, Decrement(w) PROVE CeilingInv'
  <2>1. ceiling' = ceiling /\ limit' = limit
    BY <1>6 DEF Decrement
  <2>2. \A v \in Workers : work'[v].pc = "reserve" => work'[v] = work[v]
    BY <1>0, <1>6 DEF Decrement, NoWork
  <2>3. \A m \in Months : count'[m] <= count[m]
    BY <1>0, <1>6 DEF Decrement
  <2>4. \A m \in Months : count'[m] \in Nat
    BY NextType DEF UsageTypeOK
  <2>5. \A m \in Months : count'[m] <= ceiling'
    BY <1>0, <2>1, <2>3, <2>4 DEF CeilingInv
  <2> QED BY <2>1, <2>2, <2>5 DEF CeilingInv, Months
<1>7. CASE UNCHANGED usageVars
  BY <1>7 DEF usageVars, CeilingInv, Months
<1> QED BY <1>1, <1>2, <1>3, <1>4, <1>5, <1>6, <1>7 DEF UsageNext, CeilingInv, Months

\* No interleaving of requests, months and changes of plan takes a counter past
\* the largest limit the organization has had.
THEOREM WithinLimit == UsageSpec => []CountWithinLimit
<1>1. UsageInit => CeilingInv
  BY UsageAssumption DEF UsageInit, CeilingInv, NoWork, Months
<1>2. CeilingInv => CountWithinLimit
  BY DEF CeilingInv, CountWithinLimit
<1> QED BY <1>1, <1>2, InitType, NextType, NextCeiling, PTL DEF UsageSpec

LEMMA NextCounted == UsageTypeOK /\ WorkIsCounted /\ [UsageNext]_usageVars => WorkIsCounted'
<1> SUFFICES ASSUME UsageTypeOK, WorkIsCounted, [UsageNext]_usageVars,
                    NEW m \in Months
             PROVE  given'[m] <= count'[m] + strayed'[m]
  BY DEF WorkIsCounted, Months
<1> USE DEF UsageTypeOK, Work, WorkIsCounted
<1>1. CASE Turn
  BY <1>1 DEF Turn
<1>2. ASSUME NEW l \in Limits, ChangePlan(l) PROVE given'[m] <= count'[m] + strayed'[m]
  BY <1>2 DEF ChangePlan
<1>3. ASSUME NEW w \in Workers, ReadLimit(w) PROVE given'[m] <= count'[m] + strayed'[m]
  BY <1>3 DEF ReadLimit
<1>4. ASSUME NEW w \in Workers, Increment(w) PROVE given'[m] <= count'[m] + strayed'[m]
  BY <1>4 DEF Increment
<1>5. ASSUME NEW w \in Workers, Finish(w) PROVE given'[m] <= count'[m] + strayed'[m]
  BY <1>5 DEF Finish
<1>6. ASSUME NEW w \in Workers, Decrement(w) PROVE given'[m] <= count'[m] + strayed'[m]
  <2>1. given' = [given EXCEPT ![work[w].month] = @ - 1] /\ work[w].month \in Months
    BY <1>6 DEF Decrement
  <2>2. CASE UNCHANGED <<count, strayed>>
    BY <2>1, <2>2
  <2>3. CASE /\ count' = [count EXCEPT ![month] = IF @ > 0 THEN @ - 1 ELSE 0]
             /\ strayed' = IF work[w].month # month /\ count[month] > 0
                           THEN [strayed EXCEPT ![month] = @ + 1] ELSE strayed
    BY <2>1, <2>3
  <2> QED BY <1>6, <2>2, <2>3 DEF Decrement
<1>7. CASE UNCHANGED usageVars
  BY <1>7 DEF usageVars
<1> QED BY <1>1, <1>2, <1>3, <1>4, <1>5, <1>6, <1>7 DEF UsageNext

\* The work of a month exceeds its counter only by give-backs of other months.
THEOREM Counted == UsageSpec => []WorkIsCounted
<1>1. UsageInit => WorkIsCounted
  BY DEF UsageInit, WorkIsCounted
<1> QED BY <1>1, InitType, NextType, NextCounted, PTL DEF UsageSpec
=============================================================================
