------------------------- MODULE PollBudget_proofs -------------------------
(***************************************************************************)
(* The time arithmetic of a poll, for every clock range, transfer timeout, *)
(* operation timeout and budget.                                           *)
(***************************************************************************)
EXTENDS PollBudget, TLAPS

\* As long as the deadline is less than half a range ago, the wrapped distance
\* to it is the true one, up to a whole range.
ClockAgrees ==
  active /\ elapsed < timeout + HalfRange =>
    deadline - now \in {timeout - elapsed, timeout - elapsed + Range32, timeout - elapsed - Range32}

\* A poll entered in time has a millisecond for each of its callbacks, and what
\* it has not handed out ends with the deadline.
AllowanceFits ==
  left > 0 /\ ~expired =>
    /\ left <= allowance
    /\ elapsed <= timeout => elapsed + allowance <= timeout

\* Only an active operation is polled, and it has callbacks to make.
ActiveHasCallbacks ==
  /\ active => remaining >= 1 /\ timeout >= 1
  /\ ~active => left = 0

IInv == TypeOK /\ ClockAgrees /\ AllowanceFits /\ ActiveHasCallbacks /\ PollWithinOperation

-----------------------------------------------------------------------------
(* Facts about the operators *)

\* Clock arithmetic stays on the clock.
LEMMA PlusOnClock ==
  ASSUME NEW a \in Clock, NEW b \in 0..(HalfRange - 1)
  PROVE  /\ Plus(a, b) \in Clock
         /\ Plus(a, b) \in {a + b, a + b - Range32}
BY BudgetAssumption DEF Plus, Clock, Range32

\* A share is positive, within the binding's timeout, and leaves a millisecond
\* for each of the callbacks after it.
LEMMA ShareFits ==
  ASSUME NEW ms \in Nat, NEW callsLeft \in 1..8, callsLeft <= ms
  PROVE  LET given == fairShare(ms, callsLeft) IN
         /\ given \in 1..TransferTimeout
         /\ given <= ms
         /\ callsLeft - 1 <= ms - given
<1>1. ms \div callsLeft \in Nat /\ callsLeft * (ms \div callsLeft) <= ms /\ ms \div callsLeft >= 1
  <2>1. CASE callsLeft = 1 BY <2>1
  <2>2. CASE callsLeft = 2 BY <2>2
  <2>3. CASE callsLeft = 3 BY <2>3
  <2>4. CASE callsLeft = 4 BY <2>4
  <2>5. CASE callsLeft = 5 BY <2>5
  <2>6. CASE callsLeft = 6 BY <2>6
  <2>7. CASE callsLeft = 7 BY <2>7
  <2>8. CASE callsLeft = 8 BY <2>8
  <2> QED BY <2>1, <2>2, <2>3, <2>4, <2>5, <2>6, <2>7, <2>8
<1> DEFINE part == ms \div callsLeft
<1>2. part \in Nat /\ part >= 1 /\ callsLeft * part <= ms BY <1>1
<1> HIDE DEF part
<1>3. part <= ms /\ callsLeft - 1 <= ms - part
  <2>1. CASE callsLeft = 1 BY <1>2, <2>1
  <2>2. CASE callsLeft = 2 BY <1>2, <2>2
  <2>3. CASE callsLeft = 3 BY <1>2, <2>3
  <2>4. CASE callsLeft = 4 BY <1>2, <2>4
  <2>5. CASE callsLeft = 5 BY <1>2, <2>5
  <2>6. CASE callsLeft = 6 BY <1>2, <2>6
  <2>7. CASE callsLeft = 7 BY <1>2, <2>7
  <2>8. CASE callsLeft = 8 BY <1>2, <2>8
  <2> QED BY <2>1, <2>2, <2>3, <2>4, <2>5, <2>6, <2>7, <2>8
<1>4. fairShare(ms, callsLeft) = Most(1, Least(Most(1, part), TransferTimeout))
  BY DEF fairShare, part
<1> QED BY <1>2, <1>3, <1>4, BudgetAssumption DEF Most, Least

\* Any share, also one computed with no time left, is positive and bounded.
LEMMA ShareTyped ==
  ASSUME NEW ms \in Nat, NEW callsLeft \in 1..8
  PROVE  fairShare(ms, callsLeft) \in 1..TransferTimeout
<1>1. ms \div callsLeft \in Int
  OBVIOUS
<1> DEFINE part == ms \div callsLeft
<1> HIDE DEF part
<1>2. part \in Int BY <1>1 DEF part
<1>3. fairShare(ms, callsLeft) = Most(1, Least(Most(1, part), TransferTimeout))
  BY DEF fairShare, part
<1> QED BY <1>2, <1>3, BudgetAssumption DEF Most, Least

-----------------------------------------------------------------------------
(* The inductive invariant *)

\* The invariant holds initially.
LEMMA InitEstablishes == Init => IInv
<1> SUFFICES ASSUME Init PROVE IInv
  OBVIOUS
<1> USE BudgetAssumption
<1>1. active \in BOOLEAN /\ expired \in BOOLEAN BY DEF Init
<1>2. ~active BY DEF Init
<1>3. TypeOK BY <1>1 DEF Init, TypeOK, Clock, Range32
<1>4. AllowanceFits BY DEF Init, AllowanceFits
<1> QED BY <1>2, <1>3, <1>4 DEF Init, IInv, ClockAgrees, ActiveHasCallbacks, PollWithinOperation

\* Admission stores a deadline whose distance is the timeout.
LEMMA StartPreserves ==
  ASSUME IInv, NEW ms \in 1..MaxTimeout, startOperation(ms)
  PROVE  IInv'
<1> USE BudgetAssumption
<1>1. /\ Plus(now, ms) \in Clock
      /\ Plus(now, ms) \in {now + ms, now + ms - Range32}
  BY PlusOnClock DEF IInv, TypeOK
<1>2. left = 0 BY DEF startOperation, IInv, ActiveHasCallbacks
<1>3. TypeOK'
  <2>1. active' \in BOOLEAN /\ expired' \in BOOLEAN BY DEF startOperation
  <2>2. remaining' \in 1..MaxTransactions BY DEF startOperation
  <2> QED BY <1>1, <2>1, <2>2 DEF startOperation, IInv, TypeOK
<1>4. ClockAgrees'
  BY <1>1 DEF startOperation, IInv, TypeOK, ClockAgrees, Range32, Clock
<1> QED BY <1>2, <1>3, <1>4 DEF startOperation, IInv, AllowanceFits, ActiveHasCallbacks,
                               PollWithinOperation, TypeOK

\* Time passing between polls preserves the invariant.
LEMMA WaitPreserves ==
  ASSUME IInv, Wait
  PROVE  IInv'
<1> USE BudgetAssumption
<1>1. PICK ms \in 1..MaxTimeout : now' = Plus(now, ms) /\ elapsed' = elapsed + ms
  BY DEF Wait
<1>2. /\ now' \in Clock
      /\ now' \in {now + ms, now + ms - Range32}
  BY <1>1, PlusOnClock DEF IInv, TypeOK
<1>3. TypeOK' BY <1>1, <1>2 DEF Wait, IInv, TypeOK
<1>4. ClockAgrees'
  BY <1>1, <1>2 DEF Wait, IInv, TypeOK, ClockAgrees, Range32, Clock
<1> QED BY <1>3, <1>4 DEF Wait, IInv, AllowanceFits, ActiveHasCallbacks, PollWithinOperation, TypeOK

\* The flag of a poll is the truth about its deadline.
LEMMA DistanceTells ==
  ASSUME IInv, active, elapsed < timeout + HalfRange
  PROVE  /\ deadlineReached(now) <=> elapsed >= timeout
         /\ elapsed < timeout => Minus(deadline, now) = timeout - elapsed
<1> USE BudgetAssumption DEF IInv, TypeOK, ClockAgrees, Range32, Clock, Minus, deadlineReached
<1>1. CASE deadline - now = timeout - elapsed BY <1>1
<1>2. CASE deadline - now = timeout - elapsed + Range32 BY <1>2
<1>3. CASE deadline - now = timeout - elapsed - Range32 BY <1>3
<1> QED BY <1>1, <1>2, <1>3

\* The limit computed on entry gives each callback a millisecond.
LEMMA PollPreserves ==
  ASSUME IInv, NEW budget \in PollBudgets, pollOperation(budget)
  PROVE  IInv'
<1> USE BudgetAssumption
<1>1. budget \in Nat /\ budget > 0 BY DEF pollOperation
<1>2. allowance' \in Nat
  BY DEF pollOperation, IInv, TypeOK, Minus, Clock, Range32
<1>3. left' \in 1..remaining
  BY <1>1, <1>2 DEF pollOperation, IInv, TypeOK, ActiveHasCallbacks, callLimit, expiredLimit, Most, Least
<1>4. TypeOK'
  <2>1. active' \in BOOLEAN BY DEF pollOperation, IInv, TypeOK
  <2>2. expired' \in BOOLEAN BY DEF pollOperation, deadlineReached
  <2>3. left' \in 0..MaxTransactions BY <1>3 DEF IInv, TypeOK
  <2> QED BY <1>2, <2>1, <2>2, <2>3 DEF pollOperation, IInv, TypeOK
<1>5. AllowanceFits'
  <2> SUFFICES ASSUME ~expired'
               PROVE  /\ left' <= allowance'
                      /\ elapsed <= timeout => elapsed + allowance' <= timeout
    BY DEF AllowanceFits, pollOperation
  <2>1. ~deadlineReached(now) BY DEF pollOperation
  <2>2. allowance' >= 1
    BY <2>1 DEF pollOperation, IInv, TypeOK, deadlineReached, Minus, Clock, Range32
  <2>3. left' <= allowance'
    BY <1>1, <1>2, <2>2 DEF pollOperation, IInv, TypeOK, ActiveHasCallbacks, callLimit, Most, Least
  <2>4. elapsed <= timeout => elapsed + allowance' <= timeout
    BY <2>1, DistanceTells DEF pollOperation, IInv, TypeOK
  <2> QED BY <2>3, <2>4
<1> QED BY <1>3, <1>4, <1>5 DEF pollOperation, IInv, ClockAgrees, ActiveHasCallbacks,
                               PollWithinOperation, TypeOK

\* What the next callback of a poll is given.
LEMMA TransferShare ==
  ASSUME IInv, executeTransfer
  PROVE  /\ share' \in 1..TransferTimeout
         /\ ~expired => share' <= allowance /\ left - 1 <= allowance - share'
<1> USE BudgetAssumption
<1>1. allowance \in Nat /\ left \in 1..8 BY DEF executeTransfer, IInv, TypeOK
<1>2. CASE expired BY <1>2 DEF executeTransfer
<1>3. CASE ~expired
  <2>1. share' = fairShare(allowance, left) BY <1>3 DEF executeTransfer
  <2>2. left <= allowance BY <1>1, <1>3 DEF IInv, AllowanceFits
  <2> QED BY <1>1, <2>1, <2>2, ShareFits
<1> QED BY <1>2, <1>3

\* A callback that keeps to its share preserves the invariant.
LEMMA TransferPreserves ==
  ASSUME IInv, executeTransfer
  PROVE  IInv'
<1> USE BudgetAssumption
<1>1. /\ share' \in 1..TransferTimeout
      /\ ~expired => share' <= allowance /\ left - 1 <= allowance - share'
  BY TransferShare
<1>2. PICK ms \in 0..share' : now' = Plus(now, ms) /\ elapsed' = elapsed + ms
  BY DEF executeTransfer
<1>3. ms \in 0..(HalfRange - 1) BY <1>1, <1>2
<1>4. /\ now' \in Clock
      /\ now' \in {now + ms, now + ms - Range32}
  BY <1>2, <1>3, PlusOnClock DEF IInv, TypeOK
<1>5. allowance' \in Nat
  BY <1>1 DEF executeTransfer, IInv, TypeOK, Most
<1>6. /\ remaining' = remaining - 1
      /\ active' => remaining > 1
      /\ left' = IF active' THEN left - 1 ELSE 0
  <2>1. active /\ remaining \in 1..MaxTransactions
    BY DEF executeTransfer, IInv, TypeOK, ActiveHasCallbacks
  <2>2. remaining' = remaining - 1 BY <2>1 DEF executeTransfer, Most
  <2>3. active' => remaining # 1 BY DEF executeTransfer
  <2>4. left' = IF active' THEN left - 1 ELSE 0 BY DEF executeTransfer
  <2> QED BY <2>1, <2>2, <2>3, <2>4
<1>7. TypeOK'
  <2>1. active' \in BOOLEAN /\ expired' \in BOOLEAN
    BY DEF executeTransfer, IInv, TypeOK
  <2>2. left' \in 0..MaxTransactions /\ remaining' \in 0..MaxTransactions
    BY <1>6 DEF executeTransfer, IInv, TypeOK, ActiveHasCallbacks
  <2> QED BY <1>1, <1>2, <1>3, <1>4, <1>5, <2>1, <2>2 DEF executeTransfer, IInv, TypeOK
<1>8. ClockAgrees'
  BY <1>2, <1>3, <1>4 DEF executeTransfer, IInv, TypeOK, ClockAgrees, Range32, Clock
<1>9. AllowanceFits'
  BY <1>1, <1>2, <1>3, <1>6 DEF executeTransfer, IInv, TypeOK, AllowanceFits, Most
<1> QED BY <1>6, <1>7, <1>8, <1>9 DEF executeTransfer, IInv, ActiveHasCallbacks,
                                     PollWithinOperation, TypeOK

\* Every step preserves the invariant.
LEMMA StepPreserves == IInv /\ [Next]_vars => IInv'
<1> SUFFICES ASSUME IInv, [Next]_vars PROVE IInv'
  OBVIOUS
<1>1. ASSUME NEW ms \in 1..MaxTimeout, startOperation(ms) PROVE IInv' BY <1>1, StartPreserves
<1>2. CASE Wait BY <1>2, WaitPreserves
<1>3. CASE pollTimesOut
  BY <1>3 DEF pollTimesOut, IInv, TypeOK, ClockAgrees, AllowanceFits, ActiveHasCallbacks,
              PollWithinOperation
<1>4. ASSUME NEW budget \in PollBudgets, pollOperation(budget) PROVE IInv' BY <1>4, PollPreserves
<1>5. CASE executeTransfer BY <1>5, TransferPreserves
<1>6. CASE UNCHANGED vars
  BY <1>6 DEF vars, IInv, TypeOK, ClockAgrees, AllowanceFits, ActiveHasCallbacks,
              PollWithinOperation
<1> QED BY <1>1, <1>2, <1>3, <1>4, <1>5, <1>6 DEF Next

-----------------------------------------------------------------------------
(* The theorems *)

\* The invariant holds of every behaviour.
THEOREM BudgetInvariant == Spec => []IInv
<1>1. Init => IInv BY InitEstablishes
<1>2. IInv /\ [Next]_vars => IInv' BY StepPreserves
<1> QED BY <1>1, <1>2, PTL DEF Spec

\* The wrap-safe comparison of _deadlineReached is exact for half a clock range
\* after the deadline.
THEOREM DeadlineIsExact == Spec => []DeadlineExact
<1>1. IInv => DeadlineExact BY DistanceTells DEF DeadlineExact
<1> QED BY <1>1, BudgetInvariant, PTL

\* pollOperation never promises more callbacks than the operation may make.
THEOREM PollIsWithinOperation == Spec => []PollWithinOperation
<1>1. IInv => PollWithinOperation BY DEF IInv
<1> QED BY <1>1, BudgetInvariant, PTL

\* The shares a poll hands out end with the deadline.
THEOREM DeadlineIsKept == Spec => DeadlineKept
<1>1. IInv /\ [Next]_vars => [left > 0 /\ ~expired /\ elapsed <= timeout => elapsed' <= timeout]_vars
  <2> SUFFICES ASSUME IInv, Next, left > 0, ~expired, elapsed <= timeout
               PROVE  elapsed' <= timeout
    BY DEF vars
  <2>1. executeTransfer
    BY DEF Next, startOperation, Wait, pollTimesOut, pollOperation, IInv, TypeOK, ActiveHasCallbacks
  <2>2. share' \in 1..TransferTimeout /\ share' <= allowance BY <2>1, TransferShare
  <2>3. elapsed + allowance <= timeout BY DEF IInv, AllowanceFits
  <2>4. PICK ms \in 0..share' : elapsed' = elapsed + ms BY <2>1 DEF executeTransfer
  <2> QED BY <2>2, <2>3, <2>4, BudgetAssumption DEF IInv, TypeOK
<1> QED BY <1>1, BudgetInvariant, PTL DEF Spec, DeadlineKept

\* Every callback gets a positive timeout within the binding's and, in time,
\* within what the poll has left.
THEOREM CallbackIsTimed == Spec => CallbackTimed
<1>1. IInv /\ [Next]_vars =>
        [left > 0 => share' \in 1..TransferTimeout /\ (~expired => share' <= allowance)]_vars
  <2> SUFFICES ASSUME IInv, Next, left > 0
               PROVE  share' \in 1..TransferTimeout /\ (~expired => share' <= allowance)
    BY DEF vars
  <2>1. executeTransfer
    BY DEF Next, startOperation, Wait, pollTimesOut, pollOperation, IInv, TypeOK, ActiveHasCallbacks
  <2> QED BY <2>1, TransferShare
<1> QED BY <1>1, BudgetInvariant, PTL DEF Spec, CallbackTimed

\* The clock, the counters and the allowances keep their ranges.
THEOREM BudgetTyped == Spec => []TypeOK
<1>1. IInv => TypeOK BY DEF IInv
<1> QED BY <1>1, BudgetInvariant, PTL

=============================================================================
