------------------------------ MODULE Health -------------------------------
(***************************************************************************)
(* The observational health record: state, counters and last error, as the *)
(* three transfer wrappers keep it.  Requested transfers count either way, *)
(* a pointer park only when it fails; a probe goes through none of them and*)
(* has no action here.                                                     *)
(*                                                                         *)
(* A public call is its callbacks one after the other; it stops at the     *)
(* first that fails, except that an input read is followed by its park     *)
(* whenever the command may have reached the chip.  What the transfers do  *)
(* to the chip is the subject of PCA9555.                                  *)
(***************************************************************************)
EXTENDS Naturals

CONSTANTS Errors,          \* the transport errors told apart
          MaxConsecutive,  \* UINT8_MAX in the code
          MaxTotal,        \* UINT32_MAX in the code
          MaxCallbacks     \* bound: callbacks modelled since the binding

ASSUME HealthAssumption ==
  /\ "OK" \notin Errors
  /\ MaxConsecutive \in Nat \ {0}
  /\ MaxTotal \in Nat \ {0}
  /\ MaxCallbacks \in Nat

VARIABLES
  bound,
  health,    \* the record
  left,      \* requested callbacks the call in progress has still to make
  next,      \* what its next callback is: "NONE" when no call is in progress
  status,    \* what the call has so far, and returns
  ok, bad,   \* history: counted callbacks since the binding that succeeded, failed
  streak     \* history: callbacks that failed since the latest counted success

vars == <<bound, health, left, next, status, ok, bad, streak>>

Statuses == Errors \cup {"OK"}

Unbound == [driverState |-> "UNINIT", consecutiveFailures |-> 0, totalFailures |-> 0,
            totalSuccess |-> 0, lastError |-> "OK"]

\* Mistakes: a counter outgrows its type, or wraps around at its limit.
growing(count, limit) == count + 1

wrapping(count, limit) == IF count = limit THEN 0 ELSE count + 1

saturating(count, limit) == IF count = limit THEN count ELSE count + 1

\* Mistake: the latest failure stays on record as a state after a success.
updateHealthSticky(h, outcome) ==
  IF outcome = "OK"
  THEN [h EXCEPT !.consecutiveFailures = 0, !.totalSuccess = saturating(@, MaxTotal)]
  ELSE [h EXCEPT !.driverState = "DEGRADED", !.lastError = outcome,
                 !.consecutiveFailures = saturating(@, MaxConsecutive),
                 !.totalFailures = saturating(@, MaxTotal)]

\* _updateHealth, on the outcome of one callback.
updateHealth(h, outcome) ==
  IF outcome = "OK"
  THEN [h EXCEPT !.driverState = "READY", !.consecutiveFailures = 0,
                 !.totalSuccess = saturating(@, MaxTotal)]
  ELSE [h EXCEPT !.driverState = "DEGRADED", !.lastError = outcome,
                 !.consecutiveFailures = saturating(@, MaxConsecutive),
                 !.totalFailures = saturating(@, MaxTotal)]

\* Mistake: the park counts like requested work.
cleanupCounted(h, outcome) == updateHealth(h, outcome)

\* _i2cWriteCleanupTracked: only a failure counts.
cleanupTracked(h, outcome) == IF outcome = "OK" THEN h ELSE updateHealth(h, outcome)

-----------------------------------------------------------------------------

Init ==
  /\ bound = FALSE /\ health = Unbound
  /\ left = 0 /\ next = "NONE" /\ status = "OK"
  /\ ok = 0 /\ bad = 0 /\ streak = 0

bind ==
  /\ next = "NONE"
  /\ bound' = TRUE
  /\ health' = [Unbound EXCEPT !.driverState = "READY"]
  /\ ok' = 0 /\ bad' = 0 /\ streak' = 0
  /\ status' = "OK"
  /\ UNCHANGED <<left, next>>

\* The counters survive for the caller to read.
detach ==
  /\ next = "NONE"
  /\ bound' = FALSE
  /\ health' = [health EXCEPT !.driverState = "UNINIT"]
  /\ UNCHANGED <<left, next, status, ok, bad, streak>>

Begin(first, callbacks) ==
  /\ bound /\ next = "NONE"
  /\ ok + bad + callbacks < MaxCallbacks  \* the bound, with room for a park
  /\ next' = first
  /\ left' = callbacks
  /\ status' = "OK"
  /\ UNCHANGED <<bound, health, ok, bad, streak>>

\* One write or read; a preloaded direction call; readObservedState.
registerCall == \E callbacks \in 1..3 : Begin("REQUESTED", callbacks)

inputCall == Begin("INPUTS", 1)

applyInterruptErrataWorkaround == Begin("PARK", 0)

\* Book one counted callback.
Count(outcome) ==
  IF outcome = "OK" THEN ok' = ok + 1 /\ streak' = 0 /\ UNCHANGED bad
                    ELSE bad' = bad + 1 /\ streak' = streak + 1 /\ UNCHANGED ok

\* A requested callback goes through a tracked wrapper.  An input read is over
\* only with its park, or when its command certainly never arrived.
requestedTransfer ==
  /\ next \in {"REQUESTED", "INPUTS"}
  /\ \E outcome \in Statuses :
       /\ Count(outcome)
       /\ health' = updateHealth(health, outcome)
       /\ status' = outcome
       /\ left' = IF outcome = "OK" THEN left - 1 ELSE 0
       /\ IF next = "INPUTS"
          THEN next' = "PARK" \/ (outcome # "OK" /\ next' = "NONE")
          ELSE next' = IF left' > 0 THEN next ELSE "NONE"
  /\ UNCHANGED bound

\* The park: its error is the call's only when the read before it succeeded.
parkTransfer ==
  /\ next = "PARK"
  /\ \E outcome \in Statuses :
       /\ IF outcome = "OK" THEN UNCHANGED <<ok, bad, streak>> ELSE Count(outcome)
       /\ health' = cleanupTracked(health, outcome)
       /\ status' = IF status = "OK" THEN outcome ELSE status
  /\ next' = "NONE"
  /\ UNCHANGED <<bound, left>>

Next ==
  \/ bind \/ detach \/ registerCall \/ inputCall \/ applyInterruptErrataWorkaround
  \/ requestedTransfer \/ parkTransfer

Spec == Init /\ [][Next]_vars

-----------------------------------------------------------------------------

AtMost(count, limit) == IF count <= limit THEN count ELSE limit

TypeOK ==
  /\ bound \in BOOLEAN
  /\ health \in [driverState : {"UNINIT", "READY", "DEGRADED"},
                 consecutiveFailures : 0..MaxConsecutive, totalFailures : 0..MaxTotal,
                 totalSuccess : 0..MaxTotal, lastError : Statuses]
  /\ left \in 0..3 /\ next \in {"NONE", "REQUESTED", "INPUTS", "PARK"}
  /\ status \in Statuses
  /\ ok \in Nat /\ bad \in Nat /\ streak \in Nat

\* READY and DEGRADED mean what the README says: DEGRADED exactly while a tracked
\* failure is more recent than the latest tracked success, with its error kept.
StateTellsLatest ==
  bound => /\ health.driverState = IF streak > 0 THEN "DEGRADED" ELSE "READY"
           /\ streak > 0 => health.lastError \in Errors

\* The counters are the true counts since the binding, up to their limits, also
\* after detach().
CountersSaturate ==
  /\ health.consecutiveFailures = AtMost(streak, MaxConsecutive)
  /\ health.totalFailures = AtMost(bad, MaxTotal)
  /\ health.totalSuccess = AtMost(ok, MaxTotal)

\* The record never contradicts the status a call returned: after a call with a
\* transport error the driver is DEGRADED, whatever cleanup followed the error.
ErrorLeavesDegraded ==
  bound /\ next = "NONE" /\ status # "OK" => health.driverState = "DEGRADED"

=============================================================================
