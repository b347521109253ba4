------------------------------ MODULE PCA9555 -------------------------------
(***************************************************************************)
(* The driver as a whole: synchronous calls, the cooperative operation,    *)
(* the chip and the loss of its power, interleaved as one owner thread may *)
(* interleave them.                                                        *)
(***************************************************************************)
EXTENDS SyncCalls, OperationSlot

Init ==
  /\ chip = PowerOnChip
  /\ bound = FALSE
  /\ ev = NoEvidence(PorImage)
  /\ slot = EmptySlot
  /\ call = Idle
  /\ late = FALSE
  /\ stale = [pair \in WritablePairs |-> {}]
  /\ excused = TRUE
  /\ owed = 0

Next == SyncCall \/ ContinueCall \/ OperationCall \/ DeadlinePasses \/ PowerCycle

Spec == Init /\ [][Next]_vars

\* A call that has begun runs to its end, and the owner of an active operation
\* keeps polling it with a budget: the driver has no thread of its own, and its
\* documentation leaves all scheduling to the owner.
FairSpec ==
  /\ Spec
  /\ WF_vars(ContinueCall)
  /\ WF_vars(executeOperationTransfer)
  /\ WF_vars(pollOperation)

-----------------------------------------------------------------------------
(* Type correctness *)

\* Every variable holds a value of its type.  The bounds it carries are the
\* driver's: at most eight callbacks for an operation, one operation at a time.
TypeOK ==
  /\ chip \in Chip
  /\ bound \in BOOLEAN
  /\ ev \in Evidence
  /\ slot \in Slots
  /\ call \in Calls
  /\ late \in BOOLEAN
  /\ stale \in [WritablePairs -> Values]
  /\ excused \in BOOLEAN
  /\ owed \in Nat

-----------------------------------------------------------------------------
(* The shadow and the evidence *)

\* A shadow the driver calls valid is what the chip holds, in every bit that a
\* power loss has not reset behind its back: no failed, partial or one-port
\* write, no readback and no verify leaves a valid shadow that is wrong.
ShadowSound ==
  \A pair \in ev.valid : \A pin \in Pins \ stale[pair] :
    pin \in ev.shadow[pair] <=> pin \in chip.regs[pair]

\* A pair is never reported valid and at the same time uncertain or contradicted,
\* and a contradiction on record with a whole observation is a real difference.
EvidenceConsistent ==
  /\ ev.valid \cap (ev.uncertain \cup ev.mismatch) = {}
  /\ ev.obsUncertain = ev.uncertain
  /\ \A pair \in ev.mismatch \cap ev.obsValid : ev.observed[pair] # ev.shadow[pair]

\* An observation that becomes valid, or changes while it stays valid, is the
\* whole pair the chip held then: one-byte reads never assemble a pair that
\* never existed.
ObservationWhole ==
  [][\A pair \in WritablePairs \cap ev'.obsValid :
       (pair \notin ev.obsValid \/ ev'.observed[pair] # ev.observed[pair])
         => ev'.observed[pair] = chip.regs[pair]]_vars

\* The only interval in which the direction write cannot know the chip: a call
\* of one callback, while a power loss has not been met by any transfer.
Unmet(pin) ==
  \/ pin \in stale["OUTPUTS"]
  \/ call = Idle /\ pin \in stale["DIRECTIONS"]

LatchKnown(pin) ==
  /\ "OUTPUTS" \in ev.valid
  /\ pin \in ev.shadow["OUTPUTS"] <=> pin \in chip.regs["OUTPUTS"]

Enabled(pin) == pin \in chip.regs["DIRECTIONS"] /\ pin \notin chip'.regs["DIRECTIONS"]

\* A pin is turned from input to output only while its latch holds the level the
\* driver has on record as intended: every path to the direction registers
\* preloads first and stops when the preload failed.
LatchBeforeEnable == [][\A pin \in Pins : Enabled(pin) => LatchKnown(pin) \/ Unmet(pin)]_vars

\* The register reference names setDirection among the helpers that preload the
\* latch before they enable an output: no direction write that is the first
\* callback of its call, with nothing preloaded, enables a pin on a latch that
\* differs from the record.
OutputEnableOrdering ==
  [][\A pin \in Pins : call = Idle /\ Enabled(pin) => LatchKnown(pin)]_vars

-----------------------------------------------------------------------------
(* The command pointer *)

\* The pointer rests on the input registers only while a park is still to come,
\* or after one that failed and was reported, or from power-on: no error path,
\* cancellation, deadline or detach drops the park that the erratum asks for.
PointerDebt ==
  chip.pointer = "INPUTS" /\ ~excused
    => \/ call.stage \in {"PARK_NOTHING", "PARK_PAIR", "PARK_PORT"}
       \/ slot.active /\ CleanupOwed(slot)

\* An operation that still owes a park when it ends has tried, and an operation
\* that succeeded owes none.
CleanupNeverAbandoned ==
  slot.pending => /\ slot.cleanupRequired => slot.cleanupAttempted
                  /\ slot.outcome = "SUCCEEDED" => ~slot.cleanupRequired

-----------------------------------------------------------------------------
(* The operation slot *)

\* Every admitted operation occupies the slot, active or pending, until its
\* result is taken: none is overwritten, lost or delivered twice.
ExactlyOnce ==
  /\ owed = (IF slot.active \/ slot.pending THEN 1 ELSE 0)
  /\ ~(slot.active /\ slot.pending)

\* A result does not change between the end of the operation and the take.
ResultStable == [][slot.pending /\ slot'.pending => slot' = slot]_vars

\* An active operation has its binding, and the whole bus: no other call is
\* between two of its callbacks.
ActiveOwnsBus ==
  slot.active => /\ bound
                 /\ call.stage \in {"IDLE", "POLLING"}

\* The callbacks an operation still needs in a phase, its own included.
CallbacksFrom ==
  [APPLY_IMAGE  |-> [APPLY_OUTPUTS |-> 8, APPLY_POLARITY |-> 7, APPLY_DIRECTIONS |-> 6,
                     VERIFY_OUTPUTS |-> 5, VERIFY_POLARITY |-> 4, VERIFY_DIRECTIONS |-> 3,
                     READ_INPUTS |-> 2, POINTER_PARK |-> 1],
   VERIFY_IMAGE |-> [VERIFY_OUTPUTS |-> 3, VERIFY_POLARITY |-> 2, VERIFY_DIRECTIONS |-> 1],
   READ_INPUTS  |-> [READ_INPUTS |-> 2, POINTER_PARK |-> 1]]

\* An active operation is in a phase of its kind and has as many transactions
\* left as that phase still needs: no phase is repeated or skipped, and the
\* fallback for an exhausted count is never reached.
TransfersSuffice ==
  slot.active =>
    /\ slot.phase \in DOMAIN CallbacksFrom[slot.kind]
    /\ slot.used + CallbacksFrom[slot.kind][slot.phase] = MaxTransactions[slot.kind]

\* An apply that has come as far as the inputs, and one that ended there, read
\* back all three pairs and found the caller's image in them.
VerifiedBeforeInputs ==
  LET last == IF slot.active THEN slot.phase ELSE slot.terminalPhase IN
  slot.kind = "APPLY_IMAGE" /\ last \in {"READ_INPUTS", "POINTER_PARK"}
    => /\ WritablePairs \subseteq slot.seen
       /\ slot.mismatch = {}
       /\ slot.active => ev.valid = WritablePairs /\ ev.shadow = slot.expected

\* An image operation that succeeds leaves the caller's image in the chip, in
\* every bit a power loss has not reset since the bit was last read.
SuccessMeansImage ==
  [][slot.active /\ slot'.outcome = "SUCCEEDED" /\ slot.kind # "READ_INPUTS" =>
       /\ ev'.valid = WritablePairs
       /\ \A pair \in WritablePairs : \A pin \in Pins \ stale'[pair] :
            pin \in chip'.regs[pair] <=> pin \in slot.expected[pair]]_vars

\* The result tells a write that may have happened from one that did not: after
\* INDETERMINATE the written pair is reported uncertain, and after a write that
\* FAILED the chip's registers are those of before.
WriteFailureClassified ==
  [][\A pair \in WritablePairs :
       slot.active /\ slot.phase = ApplyPhase[pair] /\ call.stage = "POLLING" /\ ~slot'.active =>
         \/ slot'.outcome = "INDETERMINATE" /\ pair \in slot'.uncertain \ slot'.shadowValid
         \/ slot'.outcome = "FAILED" /\ chip'.regs = chip.regs]_vars

\* The first terminal cause of an operation that owes a park is the one reported,
\* whatever the park, the deadline and later requests add to it.
FirstCauseWins ==
  [][slot.active /\ slot.requested # "NONE" =>
       IF slot'.active
       THEN slot'.requested = slot.requested /\ slot'.requestedPhase = slot.requestedPhase
       ELSE slot'.outcome = slot.requested /\ slot'.terminalPhase = slot.requestedPhase]_vars

\* The README's test for "the image was read back, no re-apply needed": an apply
\* with all writable pairs completed and no mismatch.
AppliedMeansVerified ==
  slot.pending /\ slot.kind = "APPLY_IMAGE" /\ WritablePairs \subseteq slot.completed
    /\ slot.mismatch = {} => WritablePairs \subseteq slot.seen

-----------------------------------------------------------------------------
(* The promise to the owner of an operation *)

PromisedState ==
  CASE slot.active /\ ~CleanupOwed(slot) -> "WORKING"
    [] slot.active /\ CleanupOwed(slot) -> "PARKING"
    [] ~slot.active /\ slot.pending -> "FINISHED"
    [] OTHER -> "FREE"

PromisedCause == IF slot.active THEN slot.requested ELSE slot.outcome

Promise == INSTANCE OperationPromise WITH
             Outcomes <- Outcome \ {"NONE", "ACTIVE"}, state <- PromisedState,
             cause <- PromisedCause, tried <- slot.cleanupAttempted

\* The driver keeps the promise of OperationPromise, through failures, deadlines,
\* cancellation, detachment and whatever else its owner does.
KeepsPromise == Promise!Spec

-----------------------------------------------------------------------------
(* Liveness *)

\* An operation that is polled comes to a result, through failures and lost power.
OperationEnds == slot.active ~> slot.pending

\* A park that is owed is attempted.
ParkHappens == CleanupOwed(slot) ~> slot.cleanupAttempted

=============================================================================
