--------------------------- MODULE Health_proofs ---------------------------
(***************************************************************************)
(* The health record, for any limits of the counters and any errors.       *)
(***************************************************************************)
EXTENDS Health, TLAPS

\* What holds inside a call as well: an error so far means DEGRADED, and a call
\* has something left to do.
CallInProgress ==
  /\ next # "NONE" => bound
  /\ next \in {"REQUESTED", "INPUTS"} => left >= 1
  /\ bound /\ status # "OK" => health.driverState = "DEGRADED"

IInv == TypeOK /\ StateTellsLatest /\ CountersSaturate /\ CallInProgress

\* The record with its fields named, for the provers.
Record == [driverState : {"UNINIT", "READY", "DEGRADED"},
           consecutiveFailures : 0..MaxConsecutive, totalFailures : 0..MaxTotal,
           totalSuccess : 0..MaxTotal, lastError : Statuses]

\* A saturating increment is the increment of a saturated count.
LEMMA SaturatingCounts ==
  ASSUME NEW count \in Nat, NEW limit \in Nat \ {0}
  PROVE  /\ saturating(AtMost(count, limit), limit) = AtMost(count + 1, limit)
         /\ AtMost(count, limit) \in 0..limit
         /\ AtMost(0, limit) = 0
BY DEF saturating, AtMost

\* One counted callback: the record and the history move together.
LEMMA UpdateAgrees ==
  ASSUME IInv, bound, bound' = bound, NEW outcome \in Statuses,
         Count(outcome), health' = updateHealth(health, outcome)
  PROVE  /\ health' \in Record
         /\ ok' \in Nat /\ bad' \in Nat /\ streak' \in Nat
         /\ StateTellsLatest' /\ CountersSaturate'
         /\ health'.driverState = IF outcome = "OK" THEN "READY" ELSE "DEGRADED"
<1> USE HealthAssumption
<1>1. health \in Record /\ ok \in Nat /\ bad \in Nat /\ streak \in Nat
  BY DEF IInv, TypeOK, Record
<1>2. /\ saturating(health.totalSuccess, MaxTotal) = AtMost(ok + 1, MaxTotal)
      /\ AtMost(ok + 1, MaxTotal) \in 0..MaxTotal
  <2>1. health.totalSuccess = AtMost(ok, MaxTotal) BY DEF IInv, CountersSaturate
  <2>2. ok + 1 \in Nat BY <1>1
  <2> QED BY <1>1, <2>1, <2>2, SaturatingCounts
<1>3. /\ saturating(health.totalFailures, MaxTotal) = AtMost(bad + 1, MaxTotal)
      /\ AtMost(bad + 1, MaxTotal) \in 0..MaxTotal
  <2>1. health.totalFailures = AtMost(bad, MaxTotal) BY DEF IInv, CountersSaturate
  <2>2. bad + 1 \in Nat BY <1>1
  <2> QED BY <1>1, <2>1, <2>2, SaturatingCounts
<1>4. /\ saturating(health.consecutiveFailures, MaxConsecutive) = AtMost(streak + 1, MaxConsecutive)
      /\ AtMost(streak + 1, MaxConsecutive) \in 0..MaxConsecutive
      /\ AtMost(0, MaxConsecutive) = 0
  <2>1. health.consecutiveFailures = AtMost(streak, MaxConsecutive) BY DEF IInv, CountersSaturate
  <2>2. streak + 1 \in Nat BY <1>1
  <2> QED BY <1>1, <2>1, <2>2, SaturatingCounts
<1>5. CASE outcome = "OK"
  <2>1. health' = [health EXCEPT !.driverState = "READY", !.consecutiveFailures = 0,
                                 !.totalSuccess = AtMost(ok + 1, MaxTotal)]
    BY <1>2, <1>5 DEF updateHealth
  <2>2. ok' = ok + 1 /\ streak' = 0 /\ bad' = bad BY <1>5 DEF Count
  <2>3. health' \in Record
    <3>1. 0 \in 0..MaxConsecutive OBVIOUS
    <3>2. [health EXCEPT !.driverState = "READY", !.consecutiveFailures = 0] \in Record
      BY <1>1, <3>1 DEF Record
    <3>3. health' = [[health EXCEPT !.driverState = "READY", !.consecutiveFailures = 0]
                       EXCEPT !.totalSuccess = AtMost(ok + 1, MaxTotal)]
      BY <2>1
    <3> QED BY <1>2, <3>2, <3>3 DEF Record
  <2>4. /\ health'.driverState = "READY" /\ health'.consecutiveFailures = 0
        /\ health'.totalSuccess = AtMost(ok + 1, MaxTotal)
        /\ health'.totalFailures = health.totalFailures
    BY <1>1, <2>1 DEF Record
  <2>5. StateTellsLatest' BY <2>2, <2>4 DEF StateTellsLatest
  <2>6. CountersSaturate' BY <1>4, <2>2, <2>4 DEF IInv, CountersSaturate
  <2>7. ok' \in Nat /\ bad' \in Nat /\ streak' \in Nat BY <1>1, <2>2
  <2> QED BY <1>5, <2>3, <2>4, <2>5, <2>6, <2>7
<1>6. CASE outcome # "OK"
  <2>1. health' = [health EXCEPT !.driverState = "DEGRADED", !.lastError = outcome,
                                 !.consecutiveFailures = AtMost(streak + 1, MaxConsecutive),
                                 !.totalFailures = AtMost(bad + 1, MaxTotal)]
    BY <1>3, <1>4, <1>6 DEF updateHealth
  <2>2. ok' = ok /\ streak' = streak + 1 /\ bad' = bad + 1 BY <1>6 DEF Count
  <2>3. health' \in Record BY <1>1, <1>3, <1>4, <2>1 DEF Record
  <2>4. /\ health'.driverState = "DEGRADED" /\ health'.lastError = outcome
        /\ health'.consecutiveFailures = AtMost(streak + 1, MaxConsecutive)
        /\ health'.totalFailures = AtMost(bad + 1, MaxTotal)
        /\ health'.totalSuccess = health.totalSuccess
    BY <1>1, <2>1 DEF Record
  <2>5. StateTellsLatest' BY <1>1, <1>6, <2>2, <2>4 DEF StateTellsLatest, Statuses
  <2>6. CountersSaturate' BY <2>2, <2>4 DEF IInv, CountersSaturate
  <2>7. ok' \in Nat /\ bad' \in Nat /\ streak' \in Nat BY <1>1, <2>2
  <2> QED BY <1>6, <2>3, <2>4, <2>5, <2>6, <2>7
<1> QED BY <1>5, <1>6

\* Initially nothing is bound and nothing counted.
LEMMA InitEstablishes == Init => IInv
<1> SUFFICES ASSUME Init PROVE IInv
  OBVIOUS
<1> USE HealthAssumption
<1>1. bound \in BOOLEAN /\ ~bound BY DEF Init
<1>2. TypeOK BY <1>1 DEF Init, TypeOK, Unbound, Statuses
<1>3. CountersSaturate BY DEF Init, Unbound, CountersSaturate, AtMost
<1> QED BY <1>1, <1>2, <1>3 DEF Init, IInv, StateTellsLatest, CallInProgress

\* A new binding starts the record and the history anew.
LEMMA BindPreserves ==
  ASSUME IInv, bind
  PROVE  IInv'
<1> USE HealthAssumption
<1>1. bound' \in BOOLEAN /\ bound' BY DEF bind
<1>2. TypeOK' BY <1>1 DEF bind, IInv, TypeOK, Unbound, Statuses
<1>3. CountersSaturate' BY DEF bind, Unbound, CountersSaturate, AtMost
<1>4. StateTellsLatest' BY DEF bind, Unbound, StateTellsLatest
<1> QED BY <1>1, <1>2, <1>3, <1>4 DEF bind, IInv, CallInProgress

\* Detaching keeps the counters.
LEMMA DetachPreserves ==
  ASSUME IInv, detach
  PROVE  IInv'
<1>1. bound' \in BOOLEAN /\ ~bound' BY DEF detach
<1>2. TypeOK' BY <1>1 DEF detach, IInv, TypeOK
<1>3. CountersSaturate' BY DEF detach, IInv, TypeOK, CountersSaturate
<1> QED BY <1>1, <1>2, <1>3 DEF detach, IInv, StateTellsLatest, CallInProgress

\* The beginning of a call preserves the invariant.
LEMMA BeginPreserves ==
  ASSUME IInv, NEW first \in {"REQUESTED", "INPUTS", "PARK"}, NEW callbacks \in 0..3,
         first # "PARK" => callbacks >= 1,
         Begin(first, callbacks)
  PROVE  IInv'
<1>1. bound' \in BOOLEAN /\ bound' BY DEF Begin, IInv, TypeOK
<1>2. TypeOK' BY <1>1 DEF Begin, IInv, TypeOK, Statuses
<1> QED BY <1>1, <1>2 DEF Begin, IInv, StateTellsLatest, CountersSaturate, CallInProgress

\* A requested callback preserves the invariant.
LEMMA RequestedPreserves ==
  ASSUME IInv, requestedTransfer
  PROVE  IInv'
<1>1. PICK outcome \in Statuses :
        /\ Count(outcome)
        /\ health' = updateHealth(health, outcome)
        /\ status' = outcome
        /\ left' = IF outcome = "OK" THEN left - 1 ELSE 0
        /\ IF next = "INPUTS"
           THEN next' = "PARK" \/ (outcome # "OK" /\ next' = "NONE")
           ELSE next' = IF left' > 0 THEN next ELSE "NONE"
  BY DEF requestedTransfer
<1>2. bound /\ bound' = bound /\ bound' \in BOOLEAN
  BY DEF requestedTransfer, IInv, CallInProgress, TypeOK
<1>3. /\ health' \in Record
      /\ ok' \in Nat /\ bad' \in Nat /\ streak' \in Nat
      /\ StateTellsLatest' /\ CountersSaturate'
      /\ health'.driverState = IF outcome = "OK" THEN "READY" ELSE "DEGRADED"
  BY <1>1, <1>2, UpdateAgrees
<1>4. left' \in 0..3 /\ next' \in {"NONE", "REQUESTED", "INPUTS", "PARK"}
      /\ (next' \in {"REQUESTED", "INPUTS"} => left' >= 1)
  <2>1. CASE next = "REQUESTED"
    BY <1>1, <2>1 DEF IInv, TypeOK, CallInProgress
  <2>2. CASE next = "INPUTS"
    <3>1. left \in 0..3 BY DEF IInv, TypeOK
    <3>2. left >= 1 BY <2>2 DEF IInv, CallInProgress
    <3> QED BY <1>1, <2>2, <3>1, <3>2
  <2> QED BY <2>1, <2>2 DEF requestedTransfer
<1>5. TypeOK' BY <1>1, <1>2, <1>3, <1>4 DEF TypeOK, Record
<1>6. CallInProgress' BY <1>1, <1>2, <1>3, <1>4 DEF CallInProgress
<1> QED BY <1>3, <1>5, <1>6 DEF IInv

\* A park preserves it too: success leaves the record, failure counts.
LEMMA ParkPreserves ==
  ASSUME IInv, parkTransfer
  PROVE  IInv'
<1>1. PICK outcome \in Statuses :
        /\ IF outcome = "OK" THEN UNCHANGED <<ok, bad, streak>> ELSE Count(outcome)
        /\ health' = cleanupTracked(health, outcome)
        /\ status' = IF status = "OK" THEN outcome ELSE status
  BY DEF parkTransfer
<1>2. bound /\ bound' = bound /\ bound' \in BOOLEAN
  BY DEF parkTransfer, IInv, CallInProgress, TypeOK
<1>3. status' \in Statuses /\ left' = left /\ next' = "NONE"
  BY <1>1 DEF parkTransfer, IInv, TypeOK
<1>4. CASE outcome = "OK"
  <2>1. UNCHANGED <<health, ok, bad, streak, status>>
    BY <1>1, <1>4 DEF cleanupTracked
  <2> QED BY <1>2, <1>3, <2>1
          DEF IInv, TypeOK, StateTellsLatest, CountersSaturate, CallInProgress
<1>5. CASE outcome # "OK"
  <2>1. Count(outcome) /\ health' = updateHealth(health, outcome)
    BY <1>1, <1>5 DEF cleanupTracked
  <2>2. /\ health' \in Record
        /\ ok' \in Nat /\ bad' \in Nat /\ streak' \in Nat
        /\ StateTellsLatest' /\ CountersSaturate'
        /\ health'.driverState = "DEGRADED"
    BY <1>2, <1>5, <2>1, UpdateAgrees
  <2> QED BY <1>2, <1>3, <2>2 DEF IInv, TypeOK, Record, CallInProgress
<1> QED BY <1>4, <1>5

\* Every step preserves the invariant.
LEMMA StepPreserves == IInv /\ [Next]_vars => IInv'
<1> SUFFICES ASSUME IInv, [Next]_vars PROVE IInv'
  OBVIOUS
<1>1. CASE bind BY <1>1, BindPreserves
<1>2. CASE detach BY <1>2, DetachPreserves
<1>3. CASE registerCall BY <1>3, BeginPreserves DEF registerCall
<1>4. CASE inputCall BY <1>4, BeginPreserves DEF inputCall
<1>5. CASE applyInterruptErrataWorkaround
  BY <1>5, BeginPreserves DEF applyInterruptErrataWorkaround
<1>6. CASE requestedTransfer BY <1>6, RequestedPreserves
<1>7. CASE parkTransfer BY <1>7, ParkPreserves
<1>8. CASE UNCHANGED vars
  BY <1>8 DEF vars, IInv, TypeOK, StateTellsLatest, CountersSaturate, CallInProgress
<1> QED BY <1>1, <1>2, <1>3, <1>4, <1>5, <1>6, <1>7, <1>8 DEF Next

\* The invariant holds of every behaviour.
THEOREM HealthInvariant == Spec => []IInv
<1>1. Init => IInv BY InitEstablishes
<1>2. IInv /\ [Next]_vars => IInv' BY StepPreserves
<1> QED BY <1>1, <1>2, PTL DEF Spec

\* READY and DEGRADED always mean what the README says they mean.
THEOREM StateIsTrue == Spec => []StateTellsLatest
<1>1. IInv => StateTellsLatest BY DEF IInv
<1> QED BY <1>1, HealthInvariant, PTL

\* The three counters are exact up to their limits, and stay there.
THEOREM CountersAreTrue == Spec => []CountersSaturate
<1>1. IInv => CountersSaturate BY DEF IInv
<1> QED BY <1>1, HealthInvariant, PTL

\* No call that returned a transport error leaves the driver READY: a park that
\* succeeds does not erase the failure it cleans up after.
THEOREM ErrorsStayVisible == Spec => []ErrorLeavesDegraded
<1>1. IInv => ErrorLeavesDegraded BY DEF IInv, CallInProgress, ErrorLeavesDegraded
<1> QED BY <1>1, HealthInvariant, PTL

\* The health record and its counters keep their ranges.
THEOREM HealthTyped == Spec => []TypeOK
<1>1. IInv => TypeOK BY DEF IInv
<1> QED BY <1>1, HealthInvariant, PTL

=============================================================================
