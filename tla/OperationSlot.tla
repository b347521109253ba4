--------------------------- MODULE OperationSlot ----------------------------
(***************************************************************************)
(* The cooperative operations: apply an image, verify an image, read the   *)
(* inputs.  There is one slot.  The owner admits an operation, polls it    *)
(* with a budget of callbacks, may cancel it or time it out, and takes its *)
(* result once.  While the operation is active no other call reaches the   *)
(* bus.  A read of the inputs leaves the pointer on an input register, and *)
(* the operation then owes one attempt to park it, whatever else happens.  *)
(***************************************************************************)
EXTENDS Driver

Outcome == {"NONE", "ACTIVE", "SUCCEEDED", "FAILED", "CANCELLED", "TIMED_OUT",
            "MISMATCH", "INDETERMINATE"}

ApplyPhase == [OUTPUTS |-> "APPLY_OUTPUTS", POLARITY |-> "APPLY_POLARITY",
               DIRECTIONS |-> "APPLY_DIRECTIONS"]

VerifyPhase == [OUTPUTS |-> "VERIFY_OUTPUTS", POLARITY |-> "VERIFY_POLARITY",
                DIRECTIONS |-> "VERIFY_DIRECTIONS"]

AppliedPhases == {ApplyPhase[pair] : pair \in WritablePairs}
VerifiedPhases == {VerifyPhase[pair] : pair \in WritablePairs}

OperationPhase == AppliedPhases \cup VerifiedPhases
                    \cup {"NONE", "READ_INPUTS", "POINTER_PARK", "COMPLETE"}

\* requested and requestedPhase are the terminal cause that waits for the park;
\* used .. uncertain are the fields of the result, seen its observed.validPairs.
Slots == [active : BOOLEAN, pending : BOOLEAN, requestId : {0} \cup RequestIds,
          kind : {"NONE"} \cup Kinds, phase : OperationPhase, expected : Images,
          requested : Outcome, requestedPhase : OperationPhase,
          outcome : Outcome, terminalPhase : OperationPhase,
          lastWriteEffect : WriteEffect, used : 0..MaxBudget,
          completed : SUBSET Pairs, mismatch : SUBSET WritablePairs, seen : SUBSET Pairs,
          cleanupRequired : BOOLEAN, cleanupAttempted : BOOLEAN, cleanupAfterDeadline : BOOLEAN,
          shadowValid : SUBSET WritablePairs, uncertain : SUBSET WritablePairs]

EmptySlot ==
  [active |-> FALSE, pending |-> FALSE, requestId |-> 0,
   kind |-> "NONE", phase |-> "NONE", expected |-> PorImage,
   requested |-> "NONE", requestedPhase |-> "NONE",
   outcome |-> "NONE", terminalPhase |-> "NONE",
   lastWriteEffect |-> "NOT_APPLICABLE", used |-> 0,
   completed |-> {}, mismatch |-> {}, seen |-> {},
   cleanupRequired |-> FALSE, cleanupAttempted |-> FALSE, cleanupAfterDeadline |-> FALSE,
   shadowValid |-> {}, uncertain |-> {}]

MaxTransactions == [APPLY_IMAGE |-> 8, VERIFY_IMAGE |-> 3, READ_INPUTS |-> 2]

CleanupOwed(s) == s.phase = "POINTER_PARK" /\ s.cleanupRequired

\* The slot s made terminal, with the evidence e of that moment.
finish(s, e, outcome, terminalPhase) ==
  [s EXCEPT !.active = FALSE, !.pending = TRUE, !.phase = "COMPLETE",
            !.outcome = outcome, !.terminalPhase = terminalPhase,
            !.shadowValid = e.valid, !.uncertain = e.uncertain]

-----------------------------------------------------------------------------
(* Admission and consumption: no I2C *)

\* Mistake: a result that nobody took does not stop the next operation.
startOverPending(kind, expected, firstPhase) ==
  /\ call = Idle /\ bound /\ kind \in Kinds /\ ~slot.active
  /\ \E requestId \in RequestIds :
       slot' = [EmptySlot EXCEPT !.active = TRUE, !.requestId = requestId, !.kind = kind,
                                 !.phase = firstPhase, !.expected = expected,
                                 !.outcome = "ACTIVE"]
  /\ late' = FALSE
  /\ owed' = owed + 1
  /\ UNCHANGED <<chip, bound, ev, call, stale, excused>>

start(kind, expected, firstPhase) ==
  /\ call = Idle /\ bound /\ kind \in Kinds
  /\ ~slot.active /\ ~slot.pending
  /\ \E requestId \in RequestIds :
       slot' = [EmptySlot EXCEPT !.active = TRUE, !.requestId = requestId, !.kind = kind,
                                 !.phase = firstPhase, !.expected = expected,
                                 !.outcome = "ACTIVE"]
  /\ late' = FALSE
  /\ owed' = owed + 1
  /\ UNCHANGED <<chip, bound, ev, call, stale, excused>>

startApplyImage == \E image \in CallerImages : start("APPLY_IMAGE", image, "APPLY_OUTPUTS")

startVerifyImage == \E image \in CallerImages : start("VERIFY_IMAGE", image, "VERIFY_OUTPUTS")

startReadInputs == start("READ_INPUTS", PorImage, "READ_INPUTS")

takeOperationResult ==
  /\ call = Idle
  /\ slot.pending
  /\ slot' = EmptySlot
  /\ owed' = owed - 1
  /\ UNCHANGED <<chip, bound, ev, call, late, stale, excused>>

\* Mistake: a cancellation ends the operation although the park is owed.
requestWithoutPark(outcome) ==
  /\ call = Idle
  /\ slot.active
  /\ slot' = finish(slot, ev, outcome, slot.phase)
  /\ late' = FALSE
  /\ UNCHANGED <<chip, bound, ev, call, stale, excused, owed>>

\* cancelOperation and timeoutOperation with the active operation's request ID.
requestTerminal(outcome) ==
  /\ call = Idle
  /\ slot.active
  /\ IF CleanupOwed(slot)
     THEN /\ slot.requested = "NONE"
          /\ slot' = [slot EXCEPT !.requested = outcome, !.requestedPhase = slot.phase]
          /\ UNCHANGED late
     ELSE /\ slot' = finish(slot, ev, outcome, slot.phase)
          /\ late' = FALSE
  /\ UNCHANGED <<chip, bound, ev, call, stale, excused, owed>>

cancelOperation == requestTerminal("CANCELLED")

timeoutOperation == requestTerminal("TIMED_OUT")

-----------------------------------------------------------------------------
(* Binding *)

bind ==
  /\ call = Idle
  /\ ~slot.active /\ ~slot.pending
  /\ bound' = TRUE
  /\ ev' = NoEvidence(PorImage)
  /\ UNCHANGED <<chip, slot, call, late, stale, excused, owed>>

\* Mistakes: a result that waits is cancelled once more; active work is forgotten.
detachTwice ==
  /\ call = Idle
  /\ ~(slot.active /\ CleanupOwed(slot))
  /\ slot' = IF slot.active \/ slot.pending
             THEN finish(slot, ev, "CANCELLED", slot.phase) ELSE slot
  /\ late' = FALSE
  /\ bound' = FALSE
  /\ ev' = NoEvidence(ev.shadow)
  /\ UNCHANGED <<chip, call, stale, excused, owed>>

detachForgetting ==
  /\ call = Idle
  /\ bound' = FALSE
  /\ ev' = NoEvidence(ev.shadow)
  /\ UNCHANGED <<chip, slot, call, late, stale, excused, owed>>

\* Active work is cancelled and its result kept, unless a park is owed.
detach ==
  /\ call = Idle
  /\ ~(slot.active /\ CleanupOwed(slot))
  /\ slot' = IF slot.active THEN finish(slot, ev, "CANCELLED", slot.phase) ELSE slot
  /\ late' = (late /\ ~slot.active)
  /\ bound' = FALSE
  /\ ev' = NoEvidence(ev.shadow)
  /\ UNCHANGED <<chip, call, stale, excused, owed>>

-----------------------------------------------------------------------------
(* Polling *)

DeadlinePasses ==
  /\ slot.active /\ ~late
  /\ late' = TRUE
  /\ UNCHANGED <<chip, bound, ev, slot, call, stale, excused, owed>>

\* Mistake: the deadline replaces the terminal cause that waits for the park.
enterPollLastCause ==
  IF ~late THEN slot
  ELSE IF ~CleanupOwed(slot) THEN finish(slot, ev, "TIMED_OUT", slot.phase)
  ELSE [slot EXCEPT !.cleanupAfterDeadline = TRUE, !.requested = "TIMED_OUT",
                    !.requestedPhase = slot.phase]

\* What the entry of a poll makes of the slot: an expired deadline ends the
\* operation, or becomes the pending terminal cause of an owed park.
enterPoll ==
  IF ~late THEN slot
  ELSE IF ~CleanupOwed(slot) THEN finish(slot, ev, "TIMED_OUT", slot.phase)
  ELSE [slot EXCEPT !.cleanupAfterDeadline = TRUE,
                    !.requested = IF @ = "NONE" THEN "TIMED_OUT" ELSE @,
                    !.requestedPhase = IF slot.requested = "NONE" THEN slot.phase ELSE @]

\* Callbacks the operation may still make; one when the count is exhausted.
Remaining == IF slot.used < MaxTransactions[slot.kind]
             THEN MaxTransactions[slot.kind] - slot.used ELSE 1

\* Mistake: after the deadline no callback is made, not even the park that is owed.
pollUntilDeadline ==
  /\ call = Idle
  /\ slot.active
  /\ slot' = enterPoll
  /\ IF slot'.active /\ ~late
     THEN call' = Polling(1) /\ UNCHANGED late
     ELSE UNCHANGED call /\ late' = (late /\ slot'.active)
  /\ UNCHANGED <<chip, bound, ev, stale, excused, owed>>

\* pollOperation up to its loop.  The time left to the deadline may lower the
\* number of callbacks below budget and remainder, to no less than one.
pollOperation ==
  /\ call = Idle
  /\ slot.active
  /\ slot' = enterPoll
  /\ IF slot'.active
     THEN \E limit \in 1..Remaining :
            /\ \E budget \in Budgets : limit <= budget
            /\ call' = Polling(limit)
            /\ UNCHANGED late
     ELSE UNCHANGED call /\ late' = FALSE
  /\ UNCHANGED <<chip, bound, ev, stale, excused, owed>>

\* A poll with no budget still notices the deadline.
pollWithoutBudget ==
  /\ call = Idle
  /\ slot.active
  /\ slot' = enterPoll
  /\ late' = (late /\ slot'.active)
  /\ UNCHANGED <<chip, bound, ev, call, stale, excused, owed>>

\* The bookkeeping of the loop around one transfer, which left the slot as s.
transferred(s) ==
  /\ slot' = [s EXCEPT !.used = @ + 1]
  /\ call' = IF s.active THEN Polling(call.left - 1) ELSE Idle
  /\ late' = (late /\ s.active)
  /\ UNCHANGED <<bound, owed>>

-----------------------------------------------------------------------------
(* One transfer of the active operation, by phase *)

\* Mistake: the readback is passed over.
AfterApplyUnverified == [OUTPUTS |-> "APPLY_POLARITY", POLARITY |-> "APPLY_DIRECTIONS",
                         DIRECTIONS |-> "READ_INPUTS"]

AfterApply == [OUTPUTS |-> "APPLY_POLARITY", POLARITY |-> "APPLY_DIRECTIONS",
               DIRECTIONS |-> "VERIFY_OUTPUTS"]

AfterVerify == [OUTPUTS |-> "VERIFY_POLARITY", POLARITY |-> "VERIFY_DIRECTIONS"]

\* Mistakes: a failed write is tried again; an ambiguous one is reported as failed.
applyPairRetrying ==
  \E pair \in WritablePairs, outcome \in WriteOutcome[3] :
    /\ slot.phase = ApplyPhase[pair]
    /\ writePairTo(pair, slot.expected[pair], outcome)
    /\ transferred([slot EXCEPT !.lastWriteEffect = outcome.effect,
                                !.phase = IF outcome.ok THEN AfterApply[pair] ELSE @])

applyPairUnclassified ==
  \E pair \in WritablePairs, outcome \in WriteOutcome[3] :
    /\ slot.phase = ApplyPhase[pair]
    /\ writePairTo(pair, slot.expected[pair], outcome)
    /\ transferred(IF outcome.ok THEN [slot EXCEPT !.phase = AfterApply[pair]]
                   ELSE finish(slot, ev', "FAILED", slot.phase))

\* APPLY_*: the whole pair is written; a failed write ends the operation.
applyPair ==
  \E pair \in WritablePairs, outcome \in WriteOutcome[3] :
    /\ slot.phase = ApplyPhase[pair]
    /\ writePairTo(pair, slot.expected[pair], outcome)
    /\ LET written == [slot EXCEPT !.lastWriteEffect = outcome.effect] IN
       transferred(
         IF outcome.ok
         THEN [written EXCEPT !.completed = @ \cup {pair}, !.phase = AfterApply[pair]]
         ELSE finish(written, ev',
                     IF outcome.effect = "MAY_HAVE_COMMITTED" THEN "INDETERMINATE" ELSE "FAILED",
                     slot.phase))

\* A readback compared with the caller's image: a match settles the shadow.
compareObserved(e, pair, expected) ==
  IF e.observed[pair] = expected THEN establishShadowPair(e, pair, expected) ELSE e

\* Mistake: each comparison replaces the verdict of the one before.
differingLast(s, pair) == IF chip.regs[pair] = s.expected[pair] THEN {} ELSE {pair}

\* The pairs found to differ from the image, this one included.
differing(s, pair) ==
  IF chip.regs[pair] = s.expected[pair] THEN s.mismatch ELSE s.mismatch \cup {pair}

\* VERIFY_*: the outcome of the comparison waits until all pairs are read.
verifyPair ==
  \E pair \in WritablePairs, outcome \in ReadOutcome[2] :
    /\ slot.phase = VerifyPhase[pair]
    /\ Command(pair, outcome)
    /\ stale' = IF outcome.ok THEN [stale EXCEPT ![pair] = {}] ELSE stale
    /\ ev' = IF outcome.ok
             THEN compareObserved(recordPairObservation(ev, pair, chip.regs[pair]),
                                  pair, slot.expected[pair])
             ELSE failedPairRead(ev, pair)
    /\ LET seen == [slot EXCEPT !.seen = @ \cup {pair}, !.completed = @ \cup {pair},
                                !.mismatch = differing(slot, pair)] IN
       transferred(
         CASE ~outcome.ok -> finish(slot, ev', "FAILED", slot.phase)
           [] outcome.ok /\ pair # "DIRECTIONS" -> [seen EXCEPT !.phase = AfterVerify[pair]]
           [] outcome.ok /\ pair = "DIRECTIONS" /\ seen.mismatch # {} ->
                finish(seen, ev', "MISMATCH", slot.phase)
           [] outcome.ok /\ pair = "DIRECTIONS" /\ seen.mismatch = {} ->
                IF slot.kind = "APPLY_IMAGE" THEN [seen EXCEPT !.phase = "READ_INPUTS"]
                ELSE finish(seen, ev', "SUCCEEDED", slot.phase))

\* READ_INPUTS: a park is owed from here on unless the command never arrived.
readInputsTransfer ==
  \E outcome \in ReadOutcome[2] :
    /\ slot.phase = "READ_INPUTS"
    /\ Command("INPUTS", outcome)
    /\ ev' = IF outcome.ok THEN recordInputs(ev) ELSE failedPairRead(ev, "INPUTS")
    /\ UNCHANGED stale
    /\ LET parking == [slot EXCEPT !.cleanupRequired = TRUE, !.phase = "POINTER_PARK"] IN
       transferred(
         CASE outcome.ok -> [parking EXCEPT !.seen = @ \cup {"INPUTS"},
                                            !.completed = @ \cup {"INPUTS"}]
           [] ~outcome.ok /\ outcome.effect # "NOT_ATTEMPTED" ->
                [parking EXCEPT !.requested = "FAILED", !.requestedPhase = slot.phase]
           [] OTHER -> finish(slot, ev', "FAILED", slot.phase))

\* Mistake: the park is repeated until it succeeds.
parkTransferRetrying ==
  \E outcome \in WriteOutcome[1] :
    /\ slot.phase = "POINTER_PARK"
    /\ parkPointer(outcome)
    /\ UNCHANGED ev
    /\ transferred(IF outcome.ok THEN finish(slot, ev, "SUCCEEDED", slot.phase) ELSE slot)

\* POINTER_PARK: one attempt, and then the operation is over in any case.
parkTransfer ==
  \E outcome \in WriteOutcome[1] :
    /\ slot.phase = "POINTER_PARK"
    /\ parkPointer(outcome)
    /\ UNCHANGED ev
    /\ LET attempted == [slot EXCEPT !.cleanupAttempted = TRUE,
                                     !.cleanupRequired = @ /\ ~outcome.ok] IN
       transferred(
         IF slot.requested # "NONE"
         THEN finish(attempted, ev, slot.requested, slot.requestedPhase)
         ELSE finish(attempted, ev, IF outcome.ok THEN "SUCCEEDED" ELSE "FAILED", slot.phase))

executeOperationTransfer ==
  /\ call.stage = "POLLING"
  /\ applyPair \/ verifyPair \/ readInputsTransfer \/ parkTransfer

-----------------------------------------------------------------------------

OperationCall ==
  \/ startApplyImage \/ startVerifyImage \/ startReadInputs \/ takeOperationResult
  \/ cancelOperation \/ timeoutOperation \/ bind \/ detach
  \/ pollOperation \/ pollWithoutBudget \/ executeOperationTransfer

=============================================================================
