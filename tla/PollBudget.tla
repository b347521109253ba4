---------------------------- MODULE PollBudget -----------------------------
(***************************************************************************)
(* The arithmetic of one cooperative operation's time and transactions:    *)
(* the caller's wrapping millisecond clock, the stored deadline, how many  *)
(* callbacks one poll may make and how long each of them may take.         *)
(*                                                                         *)
(* What the callbacks do to the chip and to the operation is the subject   *)
(* of PCA9555; here a callback only takes time, never more than it was     *)
(* allowed, and the operation may end with any of them.                    *)
(***************************************************************************)
EXTENDS Integers

CONSTANTS HalfRange,        \* 2^31 in the code: the sign bit of a clock difference
          TransferTimeout,  \* Config::i2cTimeoutMs
          MaxTimeout,       \* the longest operation timeout callers ask for
          MaxElapsed,       \* bound: the latest moment modelled, since admission
          MaxTransactions,  \* the callbacks of the longest operation
          PollBudgets       \* the transaction budgets callers give

ASSUME BudgetAssumption ==
  /\ HalfRange \in Nat \ {0}
  /\ TransferTimeout \in 1..(HalfRange - 1)
  /\ MaxTimeout \in 1..(HalfRange - 1)
  /\ MaxElapsed \in Nat
  /\ MaxTransactions \in 1..8
  /\ PollBudgets \subseteq Nat

Range32 == 2 * HalfRange
Clock == 0..(Range32 - 1)

VARIABLES
  now,        \* the caller's clock, modulo its range
  active,     \* an operation is active
  deadline,   \* its stored deadline, on the same clock
  remaining,  \* callbacks it may still make (its maximum less transactionsUsed)
  left,       \* callbacks the poll in progress may still make; 0 outside a poll
  allowance,  \* milliseconds that poll has not handed out (timeoutAllowanceMs)
  expired,    \* that poll was entered at or after the deadline
  share,      \* the timeout of the latest callback (_callbackTimeoutMs)
  timeout,    \* history: the timeout the operation was admitted with
  elapsed     \* history: the true time since its admission

vars == <<now, active, deadline, remaining, left, allowance, expired, share, timeout, elapsed>>

\* Mistake: a deadline that is not wrapped.
PlusUnwrapped(a, b) == a + b

\* uint32_t arithmetic on two clock values.
Plus(a, b) == IF a + b >= Range32 THEN a + b - Range32 ELSE a + b
Minus(a, b) == IF a >= b THEN a - b ELSE a - b + Range32

Least(a, b) == IF a <= b THEN a ELSE b
Most(a, b) == IF a >= b THEN a ELSE b

\* Mistake: the two moments are compared as they stand.
deadlineReachedNaive(t) == t >= deadline

\* The signed difference is not negative.
deadlineReached(t) == Minus(t, deadline) < HalfRange

\* Mistakes: the limit ignores what the operation may still make, or the time.
callLimitOfBudget(budget, ms) == Most(1, Least(budget, ms))

callLimitUntimed(budget, ms) == Most(1, Least(budget, Most(1, remaining)))

\* The callbacks of one poll: within the caller's budget, within what the
\* operation may still make, and in whole milliseconds, at least one each.
callLimit(budget, ms) == Most(1, Least(Least(budget, Most(1, remaining)), ms))

\* The limit of a poll entered at or after the deadline ignores the time.
expiredLimit(budget) == Most(1, Least(budget, Most(1, remaining)))

\* Mistake: each callback may take all that is left.
wholeShare(ms, callsLeft) == Most(1, Least(ms, TransferTimeout))

\* One callback's fair share of what the poll still has, capped by the binding.
fairShare(ms, callsLeft) == Most(1, Least(Most(1, ms \div callsLeft), TransferTimeout))

-----------------------------------------------------------------------------

Init ==
  /\ now \in Clock
  /\ active = FALSE /\ expired = FALSE
  /\ deadline = 0 /\ remaining = 0 /\ left = 0
  /\ allowance = 0 /\ share = 0 /\ timeout = 0 /\ elapsed = 0

startOperation(ms) ==
  /\ ~active
  /\ active' = TRUE
  /\ deadline' = Plus(now, ms)
  /\ \E most \in 1..MaxTransactions : remaining' = most
  /\ timeout' = ms
  /\ elapsed' = 0
  /\ expired' = FALSE
  /\ UNCHANGED <<now, left, allowance, share>>

\* Time passes between two polls.
Wait ==
  /\ active /\ left = 0
  /\ \E ms \in 1..MaxTimeout :
       /\ elapsed + ms <= MaxElapsed
       /\ now' = Plus(now, ms)
       /\ elapsed' = elapsed + ms
  /\ UNCHANGED <<active, deadline, remaining, left, allowance, expired, share, timeout>>

\* The poll finds the deadline passed and no park owed: it ends the operation.
pollTimesOut ==
  /\ active /\ left = 0
  /\ deadlineReached(now)
  /\ active' = FALSE
  /\ UNCHANGED <<now, deadline, remaining, left, allowance, expired, share, timeout, elapsed>>

\* The poll goes on to callbacks; past the deadline only for a park that is owed.
pollOperation(budget) ==
  /\ active /\ left = 0
  /\ budget > 0
  /\ expired' = deadlineReached(now)
  /\ allowance' = Minus(deadline, now)
  /\ left' = IF expired' THEN expiredLimit(budget) ELSE callLimit(budget, allowance')
  /\ UNCHANGED <<now, active, deadline, remaining, share, timeout, elapsed>>

\* One callback of the poll: it is given its share, takes no longer, and may be
\* the operation's last.
executeTransfer ==
  /\ active /\ left > 0
  /\ share' = IF expired THEN TransferTimeout ELSE fairShare(allowance, left)
  /\ allowance' = IF expired THEN allowance ELSE Most(0, allowance - share')
  /\ remaining' = Most(0, remaining - 1)
  /\ active' \in (IF remaining = 1 THEN {FALSE} ELSE BOOLEAN)
  /\ left' = IF active' THEN left - 1 ELSE 0
  /\ \E ms \in 0..share' : now' = Plus(now, ms) /\ elapsed' = elapsed + ms
  /\ UNCHANGED <<deadline, expired, timeout>>

Next ==
  \/ \E ms \in 1..MaxTimeout : startOperation(ms)
  \/ Wait
  \/ pollTimesOut
  \/ \E budget \in PollBudgets : pollOperation(budget)
  \/ executeTransfer

Spec == Init /\ [][Next]_vars

-----------------------------------------------------------------------------

TypeOK ==
  /\ now \in Clock /\ deadline \in Clock
  /\ active \in BOOLEAN /\ expired \in BOOLEAN
  /\ remaining \in 0..MaxTransactions
  /\ left \in 0..MaxTransactions
  /\ allowance \in Nat /\ share \in 0..TransferTimeout
  /\ timeout \in 0..MaxTimeout /\ elapsed \in Nat

\* The signed comparison of wrapped clock values tells the truth about the
\* deadline for as long as the deadline is less than half the clock's range ago.
DeadlineExact ==
  active /\ elapsed < timeout + HalfRange => (deadlineReached(now) <=> elapsed >= timeout)

\* A poll entered before the deadline never carries the operation past it: the
\* allowances of its callbacks add up to no more than the time that was left.
DeadlineKept ==
  [][left > 0 /\ ~expired /\ elapsed <= timeout => elapsed' <= timeout]_vars

\* Every callback is given a positive time, also the last one of a poll that
\* begins with hardly any time left.
CallbackTimed ==
  [][left > 0 => share' \in 1..TransferTimeout /\ (~expired => share' <= allowance)]_vars

\* A poll never promises more callbacks than the operation may still make.
PollWithinOperation == left <= remaining

=============================================================================
