-------------------------- MODULE Operation_proofs --------------------------
(***************************************************************************)
(* What the owner of a cooperative operation can rely on: the promise of   *)
(* OperationPromise, kept for any pins, transports, callers and deadlines. *)
(*                                                                         *)
(* The steps of the driver are reduced to what they make of the slot       *)
(* (SlotStep); from an invariant about its terminal fields (SlotShape)     *)
(* each kind of step is a step of the promise, or none of its business.    *)
(***************************************************************************)
EXTENDS PCA9555_proofs

TerminalOutcome == Outcome \ {"NONE", "ACTIVE"}

\* The park is owed exactly in its phase, and only there a terminal cause waits.
SlotShape ==
  /\ slot.active =>
       /\ ~slot.cleanupAttempted
       /\ slot.cleanupRequired <=> slot.phase = "POINTER_PARK"
       /\ slot.requested \in {"NONE", "FAILED", "CANCELLED", "TIMED_OUT"}
       /\ slot.phase # "POINTER_PARK" => slot.requested = "NONE"
  /\ slot.pending =>
       /\ slot.outcome \in TerminalOutcome
       /\ slot.cleanupRequired => slot.cleanupAttempted
       /\ slot.outcome = "SUCCEEDED" => ~slot.cleanupRequired
  /\ ~slot.active /\ ~slot.pending => slot.outcome = "NONE" /\ slot.cleanupAttempted = FALSE

Admitted ==
  /\ ~slot.active /\ ~slot.pending
  /\ slot'.active /\ ~slot'.pending
  /\ slot'.phase # "POINTER_PARK" /\ slot'.requested = "NONE"
  /\ ~slot'.cleanupRequired /\ slot'.cleanupAttempted = FALSE

Taken == slot.pending /\ slot' = EmptySlot

\* A transfer that leaves the operation active, with no park owed.
Worked ==
  /\ slot.active /\ slot.phase # "POINTER_PARK"
  /\ slot'.active /\ slot'.phase # "POINTER_PARK"
  /\ slot'.pending = slot.pending /\ slot'.requested = slot.requested
  /\ slot'.cleanupRequired = slot.cleanupRequired /\ slot'.cleanupAttempted = slot.cleanupAttempted

EndedAtOnce ==
  /\ slot.active /\ slot.phase # "POINTER_PARK"
  /\ ~slot'.active /\ slot'.pending
  /\ slot'.outcome \in TerminalOutcome
  /\ slot'.cleanupRequired = slot.cleanupRequired /\ slot'.cleanupAttempted = slot.cleanupAttempted

CameToOwe ==
  /\ slot.active /\ slot.phase # "POINTER_PARK"
  /\ slot'.active /\ slot'.phase = "POINTER_PARK"
  /\ slot'.pending = slot.pending /\ slot'.requested \in {slot.requested, "FAILED"}
  /\ slot'.cleanupRequired /\ slot'.cleanupAttempted = slot.cleanupAttempted

\* While the park is owed a first terminal cause is noted, and no second one.
Noted ==
  /\ slot.active /\ slot.phase = "POINTER_PARK"
  /\ slot'.active /\ slot'.phase = "POINTER_PARK"
  /\ slot'.pending = slot.pending
  /\ slot'.cleanupRequired = slot.cleanupRequired /\ slot'.cleanupAttempted = slot.cleanupAttempted
  /\ IF slot.requested = "NONE"
     THEN slot'.requested \in {"CANCELLED", "TIMED_OUT"}
     ELSE slot'.requested = slot.requested /\ slot'.requestedPhase = slot.requestedPhase

ParkedAndEnded ==
  /\ slot.active /\ slot.phase = "POINTER_PARK"
  /\ ~slot'.active /\ slot'.pending
  /\ slot'.cleanupAttempted
  /\ IF slot.requested = "NONE"
     THEN slot'.outcome \in {"SUCCEEDED", "FAILED"}
     ELSE slot'.outcome = slot.requested /\ slot'.terminalPhase = slot.requestedPhase
  /\ slot'.outcome = "SUCCEEDED" => ~slot'.cleanupRequired

SlotStep ==
  \/ slot' = slot
  \/ Admitted \/ Taken \/ Worked \/ EndedAtOnce \/ CameToOwe \/ Noted \/ ParkedAndEnded

-----------------------------------------------------------------------------
(* Every step of the driver is one of these. *)

\* The fields of a finished slot, before and after the transfer is counted.
LEMMA FinishFields ==
  ASSUME NEW s \in Slots, NEW e, NEW outcome, NEW phase
  PROVE  LET t == finish(s, e, outcome, phase) IN
         /\ ~t.active /\ t.pending /\ t.outcome = outcome /\ t.terminalPhase = phase
         /\ t.cleanupRequired = s.cleanupRequired /\ t.cleanupAttempted = s.cleanupAttempted
BY DEF finish, Slots

\* The count of transactions is no terminal field.
LEMMA CountedFields ==
  ASSUME NEW s, transferred(s)
  PROVE  /\ slot' = [s EXCEPT !.used = @ + 1]
         /\ slot'.active = s.active /\ slot'.pending = s.pending /\ slot'.phase = s.phase
         /\ slot'.requested = s.requested /\ slot'.requestedPhase = s.requestedPhase
         /\ slot'.outcome = s.outcome /\ slot'.terminalPhase = s.terminalPhase
         /\ slot'.cleanupRequired = s.cleanupRequired /\ slot'.cleanupAttempted = s.cleanupAttempted
BY DEF transferred

\* Ending an operation that owes no park.
LEMMA FinishEndsAtOnce ==
  ASSUME slot \in Slots, slot.active, slot.phase # "POINTER_PARK", NEW outcome \in TerminalOutcome,
         NEW phase, slot' = finish(slot, ev, outcome, phase)
  PROVE  EndedAtOnce
BY FinishFields DEF EndedAtOnce

\* Admission.
LEMMA StartAdmits ==
  ASSUME NEW kind, NEW expected, NEW firstPhase, firstPhase # "POINTER_PARK",
         start(kind, expected, firstPhase)
  PROVE  Admitted
BY DEF start, Admitted, EmptySlot

\* Cancellation and the owner's timeout.
LEMMA RequestSlotStep ==
  ASSUME slot \in Slots, SlotShape, NEW outcome \in {"CANCELLED", "TIMED_OUT"}, requestTerminal(outcome)
  PROVE  SlotStep
<1>1. slot.active BY DEF requestTerminal
<1>2. CASE slot.phase = "POINTER_PARK"
  <2>1. CleanupOwed(slot) BY <1>1, <1>2 DEF SlotShape, CleanupOwed
  <2>2. /\ slot.requested = "NONE"
        /\ slot' = [slot EXCEPT !.requested = outcome, !.requestedPhase = slot.phase]
    BY <2>1 DEF requestTerminal
  <2>3. Noted BY <1>1, <1>2, <2>2 DEF Noted, Slots
  <2> QED BY <2>3 DEF SlotStep
<1>3. CASE slot.phase # "POINTER_PARK"
  <2>1. slot' = finish(slot, ev, outcome, slot.phase)
    BY <1>3 DEF requestTerminal, CleanupOwed
  <2>2. outcome \in TerminalOutcome BY DEF TerminalOutcome, Outcome
  <2> QED BY <1>1, <1>3, <2>1, <2>2, FinishEndsAtOnce DEF SlotStep
<1> QED BY <1>2, <1>3

\* Detaching: a park that is owed keeps the binding.
LEMMA DetachSlotStep ==
  ASSUME slot \in Slots, SlotShape, detach
  PROVE  SlotStep
<1>1. CASE slot.active
  <2>1. slot.phase # "POINTER_PARK" /\ slot' = finish(slot, ev, "CANCELLED", slot.phase)
    BY <1>1 DEF detach, SlotShape, CleanupOwed
  <2>2. "CANCELLED" \in TerminalOutcome BY DEF TerminalOutcome, Outcome
  <2> QED BY <1>1, <2>1, <2>2, FinishEndsAtOnce DEF SlotStep
<1>2. CASE ~slot.active
  BY <1>2 DEF detach, SlotStep
<1> QED BY <1>1, <1>2

\* The entry of a poll, before and after the deadline.
LEMMA PollSlotStep ==
  ASSUME slot \in Slots, SlotShape, slot.active, slot' = enterPoll
  PROVE  SlotStep
<1>1. CASE ~late BY <1>1 DEF enterPoll, SlotStep
<1>2. CASE late /\ slot.phase # "POINTER_PARK"
  <2>1. slot' = finish(slot, ev, "TIMED_OUT", slot.phase)
    BY <1>2 DEF enterPoll, CleanupOwed
  <2>2. "TIMED_OUT" \in TerminalOutcome BY DEF TerminalOutcome, Outcome
  <2> QED BY <1>2, <2>1, <2>2, FinishEndsAtOnce DEF SlotStep
<1>3. CASE late /\ slot.phase = "POINTER_PARK"
  <2>1. CleanupOwed(slot) BY <1>3 DEF SlotShape, CleanupOwed
  <2>2. slot' = [slot EXCEPT !.cleanupAfterDeadline = TRUE,
                             !.requested = IF @ = "NONE" THEN "TIMED_OUT" ELSE @,
                             !.requestedPhase = IF slot.requested = "NONE" THEN slot.phase ELSE @]
    BY <1>3, <2>1 DEF enterPoll
  <2>3. /\ slot'.active = slot.active /\ slot'.pending = slot.pending /\ slot'.phase = slot.phase
        /\ slot'.cleanupRequired = slot.cleanupRequired
        /\ slot'.cleanupAttempted = slot.cleanupAttempted
        /\ slot'.requested = IF slot.requested = "NONE" THEN "TIMED_OUT" ELSE slot.requested
        /\ slot'.requestedPhase = IF slot.requested = "NONE" THEN slot.phase ELSE slot.requestedPhase
    BY <2>2 DEF Slots
  <2>4. Noted BY <1>3, <2>3 DEF Noted
  <2> QED BY <2>4 DEF SlotStep
<1> QED BY <1>1, <1>2, <1>3

\* A transfer that ends an operation which owes no park, whatever it noted first.
LEMMA TransferEndsAtOnce ==
  ASSUME slot.active, slot.phase # "POINTER_PARK", NEW t \in Slots,
         t.cleanupRequired = slot.cleanupRequired, t.cleanupAttempted = slot.cleanupAttempted,
         NEW e, NEW outcome \in TerminalOutcome, NEW phase, transferred(finish(t, e, outcome, phase))
  PROVE  SlotStep
<1> DEFINE over == finish(t, e, outcome, phase)
<1>1. /\ ~over.active /\ over.pending /\ over.outcome = outcome
      /\ over.cleanupRequired = slot.cleanupRequired
      /\ over.cleanupAttempted = slot.cleanupAttempted
  BY FinishFields
<1>2. transferred(over) OBVIOUS
<1> HIDE DEF over
<1> QED BY <1>1, <1>2, CountedFields DEF SlotStep, EndedAtOnce

\* A write of the image.
LEMMA ApplySlotStep ==
  ASSUME slot \in Slots, slot.active, applyPair
  PROVE  SlotStep
<1>1. PICK pair \in WritablePairs, outcome \in WriteOutcome[3] :
        /\ slot.phase = ApplyPhase[pair]
        /\ LET written == [slot EXCEPT !.lastWriteEffect = outcome.effect] IN
           transferred(
             IF outcome.ok
             THEN [written EXCEPT !.completed = @ \cup {pair}, !.phase = AfterApply[pair]]
             ELSE finish(written, ev',
                         IF outcome.effect = "MAY_HAVE_COMMITTED" THEN "INDETERMINATE" ELSE "FAILED",
                         slot.phase))
  BY DEF applyPair
<1> DEFINE written == [slot EXCEPT !.lastWriteEffect = outcome.effect]
           going == [written EXCEPT !.completed = @ \cup {pair}, !.phase = AfterApply[pair]]
           verdict == IF outcome.effect = "MAY_HAVE_COMMITTED" THEN "INDETERMINATE" ELSE "FAILED"
<1>2. slot.phase # "POINTER_PARK" /\ AfterApply[pair] # "POINTER_PARK"
  BY <1>1 DEF ApplyPhase, AfterApply, WritablePairs
<1>3. CASE outcome.ok
  <2>1. transferred(going) BY <1>1, <1>3
  <2>2. /\ going.active = slot.active /\ going.pending = slot.pending
        /\ going.phase = AfterApply[pair] /\ going.requested = slot.requested
        /\ going.cleanupRequired = slot.cleanupRequired
        /\ going.cleanupAttempted = slot.cleanupAttempted
    BY DEF Slots
  <2> HIDE DEF going
  <2>3. Worked BY <1>2, <2>1, <2>2, CountedFields DEF Worked
  <2> QED BY <2>3 DEF SlotStep
<1>4. CASE ~outcome.ok
  <2>1. transferred(finish(written, ev', verdict, slot.phase)) BY <1>1, <1>4
  <2>2. /\ written \in Slots
        /\ written.cleanupRequired = slot.cleanupRequired
        /\ written.cleanupAttempted = slot.cleanupAttempted
    <3>1. outcome.effect \in WriteEffect BY WriteOutcomeFacts DEF WriteEffect
    <3> QED BY <3>1 DEF Slots
  <2>3. verdict \in TerminalOutcome BY DEF TerminalOutcome, Outcome
  <2> HIDE DEF written, verdict
  <2> QED BY <1>2, <2>1, <2>2, <2>3, TransferEndsAtOnce
<1> QED BY <1>3, <1>4

\* The slot with one more pair read back.
SeenToo(pair) == [slot EXCEPT !.seen = @ \cup {pair}, !.completed = @ \cup {pair},
                              !.mismatch = differing(slot, pair)]

\* What a readback makes of it: the five ways on.
AfterReadback(pair, ok, s) ==
  \/ ~ok /\ s = finish(slot, ev', "FAILED", slot.phase)
  \/ ok /\ pair # "DIRECTIONS" /\ s = [SeenToo(pair) EXCEPT !.phase = AfterVerify[pair]]
  \/ ok /\ pair = "DIRECTIONS" /\ s = finish(SeenToo(pair), ev', "MISMATCH", slot.phase)
  \/ /\ ok /\ pair = "DIRECTIONS" /\ SeenToo(pair).mismatch = {}
     /\ IF slot.kind = "APPLY_IMAGE" THEN s = [SeenToo(pair) EXCEPT !.phase = "READ_INPUTS"]
        ELSE s = finish(SeenToo(pair), ev', "SUCCEEDED", slot.phase)

\* Every readback is one of them.
LEMMA ReadbackCases ==
  ASSUME verifyPair
  PROVE  \E pair \in WritablePairs, outcome \in ReadOutcome[2] : \E s :
           /\ slot.phase = VerifyPhase[pair]
           /\ Command(pair, outcome)
           /\ stale' = IF outcome.ok THEN [stale EXCEPT ![pair] = {}] ELSE stale
           /\ ev' = IF outcome.ok
                    THEN compareObserved(recordPairObservation(ev, pair, chip.regs[pair]),
                                         pair, slot.expected[pair])
                    ELSE failedPairRead(ev, pair)
           /\ transferred(s)
           /\ AfterReadback(pair, outcome.ok, s)
<1>1. PICK pair \in WritablePairs, outcome \in ReadOutcome[2] :
    /\ slot.phase = VerifyPhase[pair]
    /\ Command(pair, outcome)
    /\ stale' = IF outcome.ok THEN [stale EXCEPT ![pair] = {}] ELSE stale
    /\ ev' = IF outcome.ok
             THEN compareObserved(recordPairObservation(ev, pair, chip.regs[pair]),
                                  pair, slot.expected[pair])
             ELSE failedPairRead(ev, pair)
    /\ LET seen == [slot EXCEPT !.seen = @ \cup {pair}, !.completed = @ \cup {pair},
                                !.mismatch = differing(slot, pair)] IN
       transferred(
         CASE ~outcome.ok -> finish(slot, ev', "FAILED", slot.phase)
           [] outcome.ok /\ pair # "DIRECTIONS" -> [seen EXCEPT !.phase = AfterVerify[pair]]
           [] outcome.ok /\ pair = "DIRECTIONS" /\ seen.mismatch # {} ->
                finish(seen, ev', "MISMATCH", slot.phase)
           [] outcome.ok /\ pair = "DIRECTIONS" /\ seen.mismatch = {} ->
                IF slot.kind = "APPLY_IMAGE" THEN [seen EXCEPT !.phase = "READ_INPUTS"]
                ELSE finish(seen, ev', "SUCCEEDED", slot.phase))
  BY DEF verifyPair
<1> DEFINE seen == SeenToo(pair)
           next == CASE ~outcome.ok -> finish(slot, ev', "FAILED", slot.phase)
                     [] outcome.ok /\ pair # "DIRECTIONS" -> [seen EXCEPT !.phase = AfterVerify[pair]]
                     [] outcome.ok /\ pair = "DIRECTIONS" /\ seen.mismatch # {} ->
                          finish(seen, ev', "MISMATCH", slot.phase)
                     [] outcome.ok /\ pair = "DIRECTIONS" /\ seen.mismatch = {} ->
                          IF slot.kind = "APPLY_IMAGE" THEN [seen EXCEPT !.phase = "READ_INPUTS"]
                          ELSE finish(seen, ev', "SUCCEEDED", slot.phase)
<1>2. transferred(next) BY <1>1 DEF SeenToo
<1>3. outcome.ok \in BOOLEAN BY ReadOutcomeFacts
<1>4. AfterReadback(pair, outcome.ok, next)
  <2> HIDE DEF seen
  <2>1. CASE ~outcome.ok BY <2>1 DEF AfterReadback
  <2>2. CASE outcome.ok /\ pair # "DIRECTIONS" BY <2>2 DEF AfterReadback, seen
  <2>3. CASE outcome.ok /\ pair = "DIRECTIONS" /\ seen.mismatch # {} BY <2>3 DEF AfterReadback, seen
  <2>4. CASE outcome.ok /\ pair = "DIRECTIONS" /\ seen.mismatch = {} BY <2>4 DEF AfterReadback, seen
  <2> QED BY <1>3, <2>1, <2>2, <2>3, <2>4
<1> HIDE DEF next
<1> QED BY <1>1, <1>2, <1>4

\* The terminal fields of a slot with one more pair read back.
LEMMA SeenTooFields ==
  ASSUME slot \in Slots, NEW pair \in WritablePairs
  PROVE  LET t == SeenToo(pair) IN
         /\ t \in Slots
         /\ t.active = slot.active /\ t.pending = slot.pending /\ t.requested = slot.requested
         /\ t.kind = slot.kind /\ t.expected = slot.expected
         /\ t.seen = slot.seen \cup {pair} /\ t.mismatch = differing(slot, pair)
         /\ t.cleanupRequired = slot.cleanupRequired /\ t.cleanupAttempted = slot.cleanupAttempted
BY DEF SeenToo, Slots, differing, Pairs

\* A readback.
LEMMA VerifySlotStep ==
  ASSUME slot \in Slots, slot.active, verifyPair
  PROVE  SlotStep
<1>0. PICK pair \in WritablePairs, outcome \in ReadOutcome[2] : \E s :
        slot.phase = VerifyPhase[pair] /\ transferred(s) /\ AfterReadback(pair, outcome.ok, s)
  BY ReadbackCases
<1>1. PICK s :
        slot.phase = VerifyPhase[pair] /\ transferred(s) /\ AfterReadback(pair, outcome.ok, s)
  BY <1>0
<1>2. slot.phase # "POINTER_PARK" BY <1>1 DEF VerifyPhase, WritablePairs
<1>3. {"FAILED", "MISMATCH", "SUCCEEDED"} \subseteq TerminalOutcome BY DEF TerminalOutcome, Outcome
<1>4. CASE s = finish(slot, ev', "FAILED", slot.phase)
  BY <1>1, <1>2, <1>3, <1>4, TransferEndsAtOnce
<1>5. ASSUME NEW verdict \in {"MISMATCH", "SUCCEEDED"}, s = finish(SeenToo(pair), ev', verdict, slot.phase)
      PROVE  SlotStep
  BY <1>1, <1>2, <1>3, <1>5, SeenTooFields, TransferEndsAtOnce
<1>6. ASSUME NEW phase, phase # "POINTER_PARK", s = [SeenToo(pair) EXCEPT !.phase = phase]
      PROVE  SlotStep
  <2>1. /\ s.active = slot.active /\ s.pending = slot.pending /\ s.phase = phase
        /\ s.requested = slot.requested /\ s.cleanupRequired = slot.cleanupRequired
        /\ s.cleanupAttempted = slot.cleanupAttempted
    BY <1>6, SeenTooFields DEF Slots
  <2>2. Worked BY <1>1, <1>2, <1>6, <2>1, CountedFields DEF Worked
  <2> QED BY <2>2 DEF SlotStep
<1>7. pair # "DIRECTIONS" => AfterVerify[pair] # "POINTER_PARK" BY DEF AfterVerify, WritablePairs
<1> QED BY <1>1, <1>4, <1>5, <1>6, <1>7 DEF AfterReadback

\* The read of the inputs, after which a park may be owed.
LEMMA ReadInputsSlotStep ==
  ASSUME slot \in Slots, SlotShape, slot.active, readInputsTransfer
  PROVE  SlotStep
<1>1. PICK outcome \in ReadOutcome[2] :
        /\ slot.phase = "READ_INPUTS"
        /\ LET parking == [slot EXCEPT !.cleanupRequired = TRUE, !.phase = "POINTER_PARK"] IN
           transferred(
             CASE outcome.ok -> [parking EXCEPT !.seen = @ \cup {"INPUTS"},
                                                !.completed = @ \cup {"INPUTS"}]
               [] ~outcome.ok /\ outcome.effect # "NOT_ATTEMPTED" ->
                    [parking EXCEPT !.requested = "FAILED", !.requestedPhase = slot.phase]
               [] OTHER -> finish(slot, ev', "FAILED", slot.phase))
  BY DEF readInputsTransfer
<1> DEFINE parking == [slot EXCEPT !.cleanupRequired = TRUE, !.phase = "POINTER_PARK"]
           parkingRead == [parking EXCEPT !.seen = @ \cup {"INPUTS"}, !.completed = @ \cup {"INPUTS"}]
           parkingFailed == [parking EXCEPT !.requested = "FAILED", !.requestedPhase = slot.phase]
           failed == finish(slot, ev', "FAILED", slot.phase)
<1>2. transferred(parkingRead) \/ transferred(parkingFailed) \/ transferred(failed)
  <2> HIDE DEF parkingRead, parkingFailed, failed
  <2>1. transferred(CASE outcome.ok -> parkingRead
                      [] ~outcome.ok /\ outcome.effect # "NOT_ATTEMPTED" -> parkingFailed
                      [] OTHER -> failed)
    BY <1>1 DEF parkingRead, parkingFailed, failed
  <2>2. CASE outcome.ok BY <2>1, <2>2, Zenon
  <2>3. CASE ~outcome.ok /\ outcome.effect # "NOT_ATTEMPTED" BY <2>1, <2>3, Zenon
  <2>4. CASE ~outcome.ok /\ outcome.effect = "NOT_ATTEMPTED" BY <2>1, <2>4, Zenon
  <2> QED BY <2>2, <2>3, <2>4
<1>3. ASSUME transferred(failed)
      PROVE  SlotStep
  <2>1. "FAILED" \in TerminalOutcome BY DEF TerminalOutcome, Outcome
  <2> QED BY <1>1, <1>3, <2>1, TransferEndsAtOnce
<1>4. ASSUME NEW s, transferred(s), s.active, s.pending = slot.pending, s.phase = "POINTER_PARK",
             s.requested \in {slot.requested, "FAILED"}, s.cleanupRequired,
             s.cleanupAttempted = slot.cleanupAttempted
      PROVE  SlotStep
  <2>1. CameToOwe BY <1>1, <1>4, CountedFields DEF CameToOwe
  <2> QED BY <2>1 DEF SlotStep
<1>5. /\ parkingRead.active /\ parkingRead.pending = slot.pending /\ parkingRead.phase = "POINTER_PARK"
      /\ parkingRead.requested = slot.requested /\ parkingRead.cleanupRequired
      /\ parkingRead.cleanupAttempted = slot.cleanupAttempted
  BY DEF Slots
<1>6. /\ parkingFailed.active /\ parkingFailed.pending = slot.pending
      /\ parkingFailed.phase = "POINTER_PARK" /\ parkingFailed.requested = "FAILED"
      /\ parkingFailed.cleanupRequired
      /\ parkingFailed.cleanupAttempted = slot.cleanupAttempted
  BY DEF Slots
<1> HIDE DEF parkingRead, parkingFailed, failed
<1> QED BY <1>2, <1>3, <1>4, <1>5, <1>6

\* The park, which is the last transfer in any case.
LEMMA ParkSlotStep ==
  ASSUME slot \in Slots, SlotShape, slot.active, parkTransfer
  PROVE  SlotStep
<1>1. PICK outcome \in WriteOutcome[1] :
        /\ slot.phase = "POINTER_PARK"
        /\ LET attempted == [slot EXCEPT !.cleanupAttempted = TRUE,
                                         !.cleanupRequired = @ /\ ~outcome.ok] IN
           transferred(
             IF slot.requested # "NONE"
             THEN finish(attempted, ev, slot.requested, slot.requestedPhase)
             ELSE finish(attempted, ev, IF outcome.ok THEN "SUCCEEDED" ELSE "FAILED", slot.phase))
  BY DEF parkTransfer
<1> DEFINE attempted == [slot EXCEPT !.cleanupAttempted = TRUE, !.cleanupRequired = @ /\ ~outcome.ok]
           verdict == IF slot.requested # "NONE" THEN slot.requested
                      ELSE IF outcome.ok THEN "SUCCEEDED" ELSE "FAILED"
           phase == IF slot.requested # "NONE" THEN slot.requestedPhase ELSE slot.phase
           over == finish(attempted, ev, verdict, phase)
<1>2. transferred(over) BY <1>1
<1>3. /\ attempted \in Slots /\ attempted.cleanupAttempted
      /\ outcome.ok => ~attempted.cleanupRequired
  BY DEF Slots
<1>4. verdict = "SUCCEEDED" => outcome.ok BY DEF SlotShape
<1>5. IF slot.requested = "NONE" THEN verdict \in {"SUCCEEDED", "FAILED"}
      ELSE verdict = slot.requested /\ phase = slot.requestedPhase
  OBVIOUS
<1> HIDE DEF attempted, verdict, phase
<1>6. /\ ~over.active /\ over.pending /\ over.outcome = verdict /\ over.terminalPhase = phase
      /\ over.cleanupRequired = attempted.cleanupRequired
      /\ over.cleanupAttempted = attempted.cleanupAttempted
  BY <1>3, FinishFields
<1> HIDE DEF over
<1>7. ParkedAndEnded BY <1>1, <1>2, <1>3, <1>4, <1>5, <1>6, CountedFields DEF ParkedAndEnded
<1> QED BY <1>7 DEF SlotStep

\* Every step of the driver makes one of these steps of the slot.
LEMMA NextIsSlotStep ==
  ASSUME IInv, SlotShape, [Next]_vars
  PROVE  SlotStep
<1>1. slot \in Slots BY DEF IInv, TypeOK
<1>2. CASE SyncCall
  BY <1>2, SyncCallStep DEF IInv, CallbackStep, SlotStep
<1>3. CASE ContinueCall
  BY <1>3, ContinueCallStep DEF IInv, CallbackStep, SlotStep
<1>4. CASE startApplyImage \/ startVerifyImage \/ startReadInputs
  BY <1>4, StartAdmits DEF startApplyImage, startVerifyImage, startReadInputs, SlotStep
<1>5. CASE takeOperationResult
  BY <1>5 DEF takeOperationResult, SlotStep, Taken
<1>6. CASE cancelOperation \/ timeoutOperation
  BY <1>1, <1>6, RequestSlotStep DEF cancelOperation, timeoutOperation
<1>7. CASE bind BY <1>7 DEF bind, SlotStep
<1>8. CASE detach BY <1>1, <1>8, DetachSlotStep
<1>9. CASE pollOperation \/ pollWithoutBudget
  BY <1>1, <1>9, PollSlotStep DEF pollOperation, pollWithoutBudget
<1>10. CASE executeOperationTransfer
  <2>1. slot.active
    BY <1>10 DEF executeOperationTransfer, IInv, CallInv
  <2> QED BY <1>1, <1>10, <2>1, ApplySlotStep, VerifySlotStep, ReadInputsSlotStep, ParkSlotStep
          DEF executeOperationTransfer
<1>11. CASE DeadlinePasses BY <1>11 DEF DeadlinePasses, SlotStep
<1>12. CASE PowerCycle BY <1>12 DEF PowerCycle, SlotStep
<1>13. CASE UNCHANGED vars BY <1>13 DEF vars, SlotStep
<1> QED BY <1>2, <1>3, <1>4, <1>5, <1>6, <1>7, <1>8, <1>9, <1>10, <1>11, <1>12, <1>13
        DEF Next, OperationCall

-----------------------------------------------------------------------------
(* The invariant about the terminal fields *)

\* It holds of the empty slot,
LEMMA InitShape ==
  ASSUME Init
  PROVE  SlotShape
BY DEF Init, EmptySlot, SlotShape

\* and each kind of step keeps it.
LEMMA StepKeepsShape ==
  ASSUME SlotShape, ~(slot.active /\ slot.pending), SlotStep
  PROVE  SlotShape'
<1>1. CASE slot' = slot BY <1>1 DEF SlotShape
<1>2. CASE Admitted BY <1>2 DEF Admitted, SlotShape
<1>3. CASE Taken BY <1>3 DEF Taken, EmptySlot, SlotShape
<1>4. CASE Worked BY <1>4 DEF Worked, SlotShape
<1>5. CASE EndedAtOnce BY <1>5 DEF EndedAtOnce, SlotShape
<1>6. CASE CameToOwe BY <1>6 DEF CameToOwe, SlotShape
<1>7. CASE Noted BY <1>7 DEF Noted, SlotShape
<1>8. CASE ParkedAndEnded
  <2>1. slot'.outcome \in TerminalOutcome
    BY <1>8 DEF ParkedAndEnded, SlotShape, TerminalOutcome, Outcome
  <2> QED BY <1>8, <2>1 DEF ParkedAndEnded, SlotShape
<1> QED BY <1>1, <1>2, <1>3, <1>4, <1>5, <1>6, <1>7, <1>8 DEF SlotStep

\* A state never has a slot that is both active and pending.
LEMMA NotBoth ==
  ASSUME IInv
  PROVE  ~(slot.active /\ slot.pending)
BY DEF IInv, ExactlyOnce

\* It holds of every behaviour.
THEOREM ShapeHolds == Spec => []SlotShape
<1>1. Init => SlotShape BY InitShape
<1>2. IInv /\ SlotShape /\ [Next]_vars => SlotShape'
  BY NextIsSlotStep, NotBoth, StepKeepsShape
<1> QED BY <1>1, <1>2, InvariantHolds, PTL DEF Spec

\* An operation that owed a park when it ended attempted it, and a successful one
\* owes none: no error, cancellation or deadline forgets the erratum's cleanup.
THEOREM CleanupIsAttempted == Spec => []CleanupNeverAbandoned
<1>1. SlotShape => CleanupNeverAbandoned BY DEF SlotShape, CleanupNeverAbandoned
<1> QED BY <1>1, ShapeHolds, PTL

-----------------------------------------------------------------------------
(* The action properties of the slot *)

\* A pending result is taken or stays as it is.
LEMMA PendingStays ==
  ASSUME ~(slot.active /\ slot.pending), SlotStep, slot.pending, slot'.pending
  PROVE  slot' = slot
BY DEF SlotStep, Admitted, Taken, EmptySlot, Worked, EndedAtOnce, CameToOwe, Noted, ParkedAndEnded

\* Between the end of an operation and the take nothing touches its result: no
\* other call, no second cancellation, no detach, no new admission.
THEOREM ResultsAreStable == Spec => ResultStable
<1>1. IInv /\ SlotShape /\ [Next]_vars => [slot.pending /\ slot'.pending => slot' = slot]_vars
  BY NextIsSlotStep, NotBoth, PendingStays
<1> QED BY <1>1, InvariantHolds, ShapeHolds, PTL DEF Spec, ResultStable

\* A terminal cause that waits is the one that is reported.
LEMMA CauseStays ==
  ASSUME SlotShape, SlotStep, slot.active, slot.requested # "NONE",
         ~(slot.active /\ slot.pending)
  PROVE  IF slot'.active
         THEN slot'.requested = slot.requested /\ slot'.requestedPhase = slot.requestedPhase
         ELSE slot'.outcome = slot.requested /\ slot'.terminalPhase = slot.requestedPhase
<1>1. slot.phase = "POINTER_PARK" BY DEF SlotShape
<1>2. slot' = slot \/ Noted \/ ParkedAndEnded
  BY <1>1 DEF SlotStep, Admitted, Taken, Worked, EndedAtOnce, CameToOwe
<1> QED BY <1>2 DEF Noted, ParkedAndEnded

\* Of a failed read, a cancellation and a deadline that meet while the park is
\* owed, the first is the outcome, with the phase in which it came.
THEOREM FirstCauseIsKept == Spec => FirstCauseWins
<1> DEFINE Kept == slot.active /\ slot.requested # "NONE" =>
                     IF slot'.active
                     THEN slot'.requested = slot.requested /\ slot'.requestedPhase = slot.requestedPhase
                     ELSE slot'.outcome = slot.requested /\ slot'.terminalPhase = slot.requestedPhase
<1>1. IInv /\ SlotShape /\ [Next]_vars => [Kept]_vars
  BY NextIsSlotStep, NotBoth, CauseStays
<1> QED BY <1>1, InvariantHolds, ShapeHolds, PTL DEF Spec, FirstCauseWins

-----------------------------------------------------------------------------
(* The promise to the owner *)

\* The slot at rest is the free slot of the promise.
LEMMA PromiseInit ==
  ASSUME Init
  PROVE  Promise!Init
BY DEF Init, EmptySlot, Promise!Init, PromisedState, PromisedCause

\* The state of the promise, from the fields of the slot.
LEMMA PromisedStates ==
  ASSUME SlotShape
  PROVE  /\ slot.active /\ slot.phase # "POINTER_PARK" => PromisedState = "WORKING"
         /\ slot.active /\ slot.phase = "POINTER_PARK" => PromisedState = "PARKING"
         /\ ~slot.active /\ slot.pending => PromisedState = "FINISHED"
         /\ ~slot.active /\ ~slot.pending => PromisedState = "FREE"
BY DEF SlotShape, PromisedState, CleanupOwed

\* Every step of the slot is a step of the promise, or nothing to it.
LEMMA PromiseStep ==
  ASSUME SlotShape, SlotShape', ~(slot.active /\ slot.pending), SlotStep
  PROVE  [Promise!Next]_(Promise!vars)
<1> DEFINE after == PromisedState'
<1>1. /\ slot'.active /\ slot'.phase # "POINTER_PARK" => after = "WORKING"
      /\ slot'.active /\ slot'.phase = "POINTER_PARK" => after = "PARKING"
      /\ ~slot'.active /\ slot'.pending => after = "FINISHED"
      /\ ~slot'.active /\ ~slot'.pending => after = "FREE"
  BY DEF SlotShape, PromisedState, CleanupOwed
<1> HIDE DEF after
<1>2. CASE slot' = slot
  <2>1. UNCHANGED <<PromisedState, PromisedCause, slot.cleanupAttempted>>
    BY <1>2 DEF PromisedState, PromisedCause, CleanupOwed
  <2> QED BY <2>1 DEF Promise!vars
<1>3. CASE Admitted
  <2>1. PromisedState = "FREE" /\ after = "WORKING" BY <1>1, <1>3, PromisedStates DEF Admitted
  <2>2. PromisedCause' = PromisedCause /\ slot'.cleanupAttempted = slot.cleanupAttempted
    BY <1>3 DEF Admitted, PromisedCause, SlotShape
  <2> QED BY <2>1, <2>2 DEF Promise!Next, Promise!Admit, after
<1>4. CASE Taken
  <2>1. PromisedState = "FINISHED" BY <1>4, PromisedStates DEF Taken
  <2>2. ~slot'.active /\ ~slot'.pending /\ slot'.outcome = "NONE" /\ slot'.cleanupAttempted = FALSE
    BY <1>4 DEF Taken, EmptySlot
  <2>3. after = "FREE" BY <1>1, <2>2
  <2>4. PromisedCause' = "NONE" BY <2>2 DEF PromisedCause
  <2> QED BY <2>1, <2>2, <2>3, <2>4 DEF Promise!Next, Promise!Take, after
<1>5. CASE Worked
  <2>1. PromisedState = "WORKING" /\ after = "WORKING" BY <1>1, <1>5, PromisedStates DEF Worked
  <2>2. PromisedCause' = PromisedCause /\ slot'.cleanupAttempted = slot.cleanupAttempted
    BY <1>5 DEF Worked, PromisedCause
  <2> QED BY <2>1, <2>2 DEF Promise!vars, after
<1>6. CASE EndedAtOnce
  <2>1. PromisedState = "WORKING" /\ after = "FINISHED" BY <1>1, <1>6, PromisedStates DEF EndedAtOnce
  <2>2. PromisedCause' \in TerminalOutcome /\ slot'.cleanupAttempted = slot.cleanupAttempted
    BY <1>6 DEF EndedAtOnce, PromisedCause
  <2> QED BY <2>1, <2>2 DEF Promise!Next, Promise!EndAtOnce, after, TerminalOutcome
<1>7. CASE CameToOwe
  <2>1. PromisedState = "WORKING" /\ after = "PARKING" BY <1>1, <1>7, PromisedStates DEF CameToOwe
  <2>2. PromisedCause' \in {"NONE", "FAILED"} /\ slot'.cleanupAttempted = slot.cleanupAttempted
    BY <1>7 DEF CameToOwe, PromisedCause, SlotShape
  <2> QED BY <2>1, <2>2 DEF Promise!Next, Promise!OwePark, after
<1>8. CASE Noted
  <2>1. PromisedState = "PARKING" /\ after = "PARKING" BY <1>1, <1>8, PromisedStates DEF Noted
  <2>2. slot'.cleanupAttempted = slot.cleanupAttempted BY <1>8 DEF Noted
  <2>3. CASE slot.requested = "NONE"
    <3>1. PromisedCause = "NONE" /\ PromisedCause' \in TerminalOutcome
      BY <1>8, <2>3 DEF Noted, PromisedCause, TerminalOutcome, Outcome
    <3> QED BY <2>1, <2>2, <3>1 DEF Promise!Next, Promise!Request, after, TerminalOutcome
  <2>4. CASE slot.requested # "NONE"
    <3>1. PromisedCause' = PromisedCause BY <1>8, <2>4 DEF Noted, PromisedCause
    <3> QED BY <2>1, <2>2, <3>1 DEF Promise!vars, after
  <2> QED BY <2>3, <2>4
<1>9. CASE ParkedAndEnded
  <2>1. PromisedState = "PARKING" /\ after = "FINISHED" BY <1>1, <1>9, PromisedStates DEF ParkedAndEnded
  <2>2. slot'.cleanupAttempted = TRUE BY <1>9 DEF ParkedAndEnded, SlotShape
  <2>3. IF PromisedCause = "NONE" THEN PromisedCause' \in {"SUCCEEDED", "FAILED"}
        ELSE PromisedCause' = PromisedCause
    BY <1>9 DEF ParkedAndEnded, PromisedCause
  <2> QED BY <2>1, <2>2, <2>3 DEF Promise!Next, Promise!EndWithPark, after
<1> QED BY <1>2, <1>3, <1>4, <1>5, <1>6, <1>7, <1>8, <1>9 DEF SlotStep

\* The driver implements OperationPromise: an admitted operation holds the slot
\* until its one result is taken, ends with exactly one park attempt when it came
\* to owe one, and reports the first terminal cause there was.
THEOREM PromiseIsKept == Spec => KeepsPromise
<1>1. Init => Promise!Init BY PromiseInit
<1>2. IInv /\ SlotShape /\ SlotShape' /\ [Next]_vars => [Promise!Next]_(Promise!vars)
  BY NextIsSlotStep, NotBoth, PromiseStep
<1> QED BY <1>1, <1>2, InvariantHolds, ShapeHolds, PTL DEF Spec, KeepsPromise, Promise!Spec

-----------------------------------------------------------------------------
(* What an operation on an image has read back *)

LastPhases == {"READ_INPUTS", "POINTER_PARK"}

\* The pairs whose readback lies behind a phase.
ReadBefore(phase) ==
  IF phase \in LastPhases THEN WritablePairs
  ELSE IF phase = "VERIFY_DIRECTIONS" THEN {"OUTPUTS", "POLARITY"}
  ELSE IF phase = "VERIFY_POLARITY" THEN {"OUTPUTS"}
  ELSE {}

\* Those pairs were seen; unless a difference is on record they are settled.
Confirmed(s, e, pairs) ==
  s.kind # "READ_INPUTS" =>
    \A pair \in pairs :
      /\ pair \in s.seen
      /\ s.mismatch = {} => pair \in e.valid /\ e.shadow[pair] = s.expected[pair]

\* An image operation goes on to the inputs only without a difference, and what it
\* found stays in its result.
ReadBack ==
  /\ slot.active =>
       /\ slot.outcome = "ACTIVE"
       /\ Confirmed(slot, ev, ReadBefore(slot.phase))
       /\ slot.kind # "READ_INPUTS" /\ slot.phase \in LastPhases => slot.mismatch = {}
  /\ slot.pending /\ slot.kind = "APPLY_IMAGE" /\ slot.terminalPhase \in LastPhases =>
       WritablePairs \subseteq slot.seen /\ slot.mismatch = {}
  /\ ~slot.active /\ ~slot.pending => slot.kind = "NONE"

\* All pairs are settled after the step, with the image of the operation.
ImageSettled ==
  \A pair \in WritablePairs : pair \in ev'.valid /\ ev'.shadow[pair] = slot.expected[pair]

\* What every step is to keep: the invariant, and success only of a settled image.
Accounted ==
  /\ ReadBack'
  /\ slot.active /\ slot'.outcome = "SUCCEEDED" /\ slot.kind # "READ_INPUTS" => ImageSettled

\* An operation that ends keeps what it found; its terminal phase tells how far
\* it came.
LEMMA EndAccounted ==
  ASSUME ReadBack, slot.active, ~slot'.active, slot'.pending,
         slot'.kind = slot.kind, slot'.seen = slot.seen, slot'.mismatch = slot.mismatch,
         slot'.terminalPhase = slot.phase \/ slot.phase = "POINTER_PARK",
         slot'.outcome # "SUCCEEDED" \/ ImageSettled \/ slot.kind = "READ_INPUTS"
  PROVE  Accounted
BY DEF Accounted, ReadBack, Confirmed, ReadBefore, LastPhases

\* An operation that goes on without a readback, the shadow as it was.
LEMMA GoOnAccounted ==
  ASSUME ReadBack, slot.active, slot'.active, ~slot'.pending,
         slot'.outcome = slot.outcome, slot'.kind = slot.kind, slot'.expected = slot.expected,
         slot.seen \subseteq slot'.seen, slot'.mismatch = slot.mismatch,
         ReadBefore(slot'.phase) \subseteq ReadBefore(slot.phase),
         slot'.phase \in LastPhases => slot.phase \in LastPhases,
         ReadBefore(slot'.phase) = {} \/ (ev'.valid = ev.valid /\ ev'.shadow = ev.shadow)
  PROVE  Accounted
<1>1. Confirmed(slot, ev, ReadBefore(slot.phase)) BY DEF ReadBack
<1>2. Confirmed(slot', ev', ReadBefore(slot'.phase)) BY <1>1 DEF Confirmed
<1> QED BY <1>2 DEF Accounted, ReadBack

\* The fields of a finished slot that tell what was found.
LEMMA FinishKeepsFound ==
  ASSUME NEW s \in Slots, NEW e, NEW outcome, NEW phase
  PROVE  LET t == finish(s, e, outcome, phase) IN
         /\ t.kind = s.kind /\ t.seen = s.seen /\ t.mismatch = s.mismatch
         /\ t.outcome = outcome /\ t.terminalPhase = phase
         /\ ~t.active /\ t.pending
BY DEF finish, Slots

\* They are not changed by the count of transactions.
LEMMA CountKeepsFound ==
  ASSUME NEW s, transferred(s)
  PROVE  /\ slot'.kind = s.kind /\ slot'.expected = s.expected
         /\ slot'.seen = s.seen /\ slot'.mismatch = s.mismatch
         /\ slot'.outcome = s.outcome /\ slot'.terminalPhase = s.terminalPhase
         /\ slot'.active = s.active /\ slot'.pending = s.pending /\ slot'.phase = s.phase
BY DEF transferred

\* Between two polls the operation is ended where it stands.
LEMMA FinishAccounted ==
  ASSUME ReadBack, slot \in Slots, slot.active, NEW outcome \in {"CANCELLED", "TIMED_OUT"},
         slot' = finish(slot, ev, outcome, slot.phase)
  PROVE  Accounted
BY FinishKeepsFound, EndAccounted

\* Admission begins with nothing found.
LEMMA StartAccounted ==
  ASSUME NEW kind, NEW expected, NEW firstPhase, start(kind, expected, firstPhase),
         \/ firstPhase \in {"APPLY_OUTPUTS", "VERIFY_OUTPUTS"}
         \/ kind = "READ_INPUTS"
  PROVE  Accounted
<1>1. PICK requestId \in RequestIds :
        slot' = [EmptySlot EXCEPT !.active = TRUE, !.requestId = requestId, !.kind = kind,
                                  !.phase = firstPhase, !.expected = expected,
                                  !.outcome = "ACTIVE"]
  BY DEF start
<1>2. /\ slot'.active /\ ~slot'.pending /\ slot'.outcome = "ACTIVE" /\ slot'.kind = kind
      /\ slot'.phase = firstPhase /\ ~slot.active
  BY <1>1 DEF EmptySlot, start
<1>3. firstPhase \in {"APPLY_OUTPUTS", "VERIFY_OUTPUTS"} =>
        firstPhase \notin LastPhases /\ ReadBefore(firstPhase) = {}
  BY DEF ReadBefore, LastPhases
<1>4. Confirmed(slot', ev', ReadBefore(slot'.phase))
  BY <1>2, <1>3 DEF Confirmed
<1> QED BY <1>2, <1>3, <1>4 DEF Accounted, ReadBack

\* Cancellation and the owner's timeout change nothing that was found.
LEMMA RequestAccounted ==
  ASSUME IInv, ReadBack, NEW outcome \in {"CANCELLED", "TIMED_OUT"}, requestTerminal(outcome)
  PROVE  Accounted
<1>1. slot \in Slots /\ slot.active /\ ~slot.pending
  BY NotBoth DEF IInv, TypeOK, requestTerminal
<1>2. CASE CleanupOwed(slot)
  <2>1. slot' = [slot EXCEPT !.requested = outcome, !.requestedPhase = slot.phase] /\ ev' = ev
    BY <1>2 DEF requestTerminal
  <2>2. /\ slot'.active /\ ~slot'.pending /\ slot'.outcome = slot.outcome /\ slot'.kind = slot.kind
        /\ slot'.expected = slot.expected /\ slot'.seen = slot.seen
        /\ slot'.mismatch = slot.mismatch /\ slot'.phase = slot.phase
    BY <1>1, <2>1 DEF Slots
  <2> QED BY <1>1, <2>1, <2>2, GoOnAccounted
<1>3. CASE ~CleanupOwed(slot)
  BY <1>1, <1>3, FinishAccounted DEF requestTerminal
<1> QED BY <1>2, <1>3

\* Nor does the entry of a poll.
LEMMA PollAccounted ==
  ASSUME IInv, ReadBack, slot.active, slot' = enterPoll, ev' = ev
  PROVE  Accounted
<1>1. slot \in Slots /\ ~slot.pending BY NotBoth DEF IInv, TypeOK
<1>2. CASE late /\ ~CleanupOwed(slot)
  BY <1>1, <1>2, FinishAccounted DEF enterPoll
<1>3. CASE ~late
  BY <1>1, <1>3, GoOnAccounted DEF enterPoll
<1>4. CASE late /\ CleanupOwed(slot)
  <2>1. slot' = [slot EXCEPT !.cleanupAfterDeadline = TRUE,
                             !.requested = IF @ = "NONE" THEN "TIMED_OUT" ELSE @,
                             !.requestedPhase = IF slot.requested = "NONE" THEN slot.phase ELSE @]
    BY <1>4 DEF enterPoll
  <2>2. /\ slot'.active /\ ~slot'.pending /\ slot'.outcome = slot.outcome /\ slot'.kind = slot.kind
        /\ slot'.expected = slot.expected /\ slot'.seen = slot.seen
        /\ slot'.mismatch = slot.mismatch /\ slot'.phase = slot.phase
    BY <1>1, <2>1 DEF Slots
  <2> QED BY <1>1, <2>2, GoOnAccounted
<1> QED BY <1>2, <1>3, <1>4

\* The writes of the image come before any readback.
LEMMA ApplyAccounted ==
  ASSUME IInv, ReadBack, slot.active, applyPair
  PROVE  Accounted
<1>1. PICK pair \in WritablePairs, outcome \in WriteOutcome[3] :
        /\ slot.phase = ApplyPhase[pair]
        /\ LET written == [slot EXCEPT !.lastWriteEffect = outcome.effect] IN
           transferred(
             IF outcome.ok
             THEN [written EXCEPT !.completed = @ \cup {pair}, !.phase = AfterApply[pair]]
             ELSE finish(written, ev',
                         IF outcome.effect = "MAY_HAVE_COMMITTED" THEN "INDETERMINATE" ELSE "FAILED",
                         slot.phase))
  BY DEF applyPair
<1> DEFINE written == [slot EXCEPT !.lastWriteEffect = outcome.effect]
           going == [written EXCEPT !.completed = @ \cup {pair}, !.phase = AfterApply[pair]]
           verdict == IF outcome.effect = "MAY_HAVE_COMMITTED" THEN "INDETERMINATE" ELSE "FAILED"
           over == finish(written, ev', verdict, slot.phase)
<1>2. slot \in Slots /\ ~slot.pending BY NotBoth DEF IInv, TypeOK
<1>3. CASE outcome.ok
  <2>1. transferred(going) BY <1>1, <1>3
  <2>2. /\ going.active = slot.active /\ going.pending = slot.pending
        /\ going.outcome = slot.outcome /\ going.kind = slot.kind /\ going.expected = slot.expected
        /\ going.seen = slot.seen /\ going.mismatch = slot.mismatch /\ going.phase = AfterApply[pair]
    BY <1>2 DEF Slots
  <2>3. ReadBefore(AfterApply[pair]) = {} /\ AfterApply[pair] \notin LastPhases
    BY DEF ReadBefore, AfterApply, WritablePairs, LastPhases
  <2> HIDE DEF going
  <2> QED BY <1>2, <2>1, <2>2, <2>3, CountKeepsFound, GoOnAccounted
<1>4. CASE ~outcome.ok
  <2>1. transferred(over) BY <1>1, <1>4
  <2>2. written \in Slots /\ written.kind = slot.kind /\ written.seen = slot.seen
        /\ written.mismatch = slot.mismatch
    <3>1. outcome.effect \in WriteEffect BY WriteOutcomeFacts DEF WriteEffect
    <3> QED BY <1>2, <3>1 DEF Slots
  <2>3. verdict # "SUCCEEDED" OBVIOUS
  <2> HIDE DEF written, verdict
  <2>4. /\ over.kind = slot.kind /\ over.seen = slot.seen /\ over.mismatch = slot.mismatch
        /\ over.outcome = verdict /\ over.terminalPhase = slot.phase /\ ~over.active /\ over.pending
    BY <2>2, FinishKeepsFound
  <2> HIDE DEF over
  <2> QED BY <2>1, <2>3, <2>4, CountKeepsFound, EndAccounted
<1> QED BY <1>3, <1>4

\* A readback settles its pair or records a difference, and leaves the other
\* pairs' shadows alone.
LEMMA ReadbackSettles ==
  ASSUME IInv, NEW pair \in WritablePairs, NEW outcome \in ReadOutcome[2],
         ev' = IF outcome.ok
               THEN compareObserved(recordPairObservation(ev, pair, chip.regs[pair]),
                                    pair, slot.expected[pair])
               ELSE failedPairRead(ev, pair)
  PROVE  /\ \A other \in WritablePairs \ {pair} :
              (other \in ev.valid => other \in ev'.valid) /\ ev'.shadow[other] = ev.shadow[other]
         /\ outcome.ok /\ differing(slot, pair) = {} =>
              /\ slot.mismatch = {}
              /\ pair \in ev'.valid /\ ev'.shadow[pair] = slot.expected[pair]
<1>1. ev \in Evidence /\ slot.expected[pair] \in Values /\ pair \in Pairs
  BY DEF IInv, TypeOK, Slots, Images, Pairs
<1>2. CASE ~outcome.ok
  BY <1>1, <1>2 DEF failedPairRead, Evidence
<1>3. CASE outcome.ok
  <2> DEFINE read == recordPairObservation(ev, pair, chip.regs[pair])
  <2>1. /\ read.shadow = ev.shadow /\ read.observed[pair] = chip.regs[pair]
        /\ \A other \in WritablePairs \ {pair} : other \in ev.valid => other \in read.valid
    BY <1>1 DEF recordPairObservation, Evidence, Images
  <2>2. read \in Evidence
    <3>1. chip.regs[pair] \in Values BY DEF IInv, TypeOK, Chip, Images
    <3>2. EvidenceInv BY EvidencePart
    <3> QED BY <3>1, <3>2, RecordPairOK DEF EvidenceInv
  <2>3. ev' = compareObserved(read, pair, slot.expected[pair]) BY <1>3
  <2> HIDE DEF read
  <2>4. CASE chip.regs[pair] = slot.expected[pair]
    <3>1. ev' = establishShadowPair(read, pair, slot.expected[pair])
      BY <2>1, <2>3, <2>4 DEF compareObserved
    <3>2. ev'.valid = read.valid \cup {pair} /\ ev'.shadow = [read.shadow EXCEPT ![pair] = slot.expected[pair]]
      BY <2>2, <3>1 DEF establishShadowPair, Evidence
    <3> QED BY <2>1, <2>2, <2>4, <3>2 DEF Evidence, Images, differing
  <2>5. CASE chip.regs[pair] # slot.expected[pair]
    <3>1. ev' = read BY <2>1, <2>3, <2>5 DEF compareObserved
    <3> QED BY <2>1, <2>5, <3>1 DEF differing
  <2> QED BY <2>4, <2>5
<1> QED BY <1>2, <1>3

\* With the pair just read the confirmed pairs are those of the next phase.
LEMMA VerifyAccounted ==
  ASSUME IInv, ReadBack, slot.active, verifyPair
  PROVE  Accounted
<1>0. PICK pair \in WritablePairs, outcome \in ReadOutcome[2] : \E s :
        /\ slot.phase = VerifyPhase[pair]
        /\ ev' = IF outcome.ok
                 THEN compareObserved(recordPairObservation(ev, pair, chip.regs[pair]),
                                      pair, slot.expected[pair])
                 ELSE failedPairRead(ev, pair)
        /\ transferred(s)
        /\ AfterReadback(pair, outcome.ok, s)
  BY ReadbackCases
<1>1. PICK s :
        /\ slot.phase = VerifyPhase[pair]
        /\ ev' = IF outcome.ok
                 THEN compareObserved(recordPairObservation(ev, pair, chip.regs[pair]),
                                      pair, slot.expected[pair])
                 ELSE failedPairRead(ev, pair)
        /\ transferred(s)
        /\ AfterReadback(pair, outcome.ok, s)
  BY <1>0
<1>2. slot \in Slots /\ ~slot.pending BY NotBoth DEF IInv, TypeOK
<1> DEFINE t == SeenToo(pair)
<1>3. /\ t \in Slots /\ t.active = slot.active /\ t.pending = slot.pending
      /\ t.kind = slot.kind /\ t.expected = slot.expected
      /\ t.seen = slot.seen \cup {pair} /\ t.mismatch = differing(slot, pair)
  BY <1>2, SeenTooFields
<1>4. t.outcome = slot.outcome BY <1>2 DEF SeenToo, Slots
<1> HIDE DEF t
<1>5. slot.phase \notin LastPhases BY <1>1 DEF VerifyPhase, WritablePairs, LastPhases
<1>6. outcome.ok => Confirmed(t, ev', ReadBefore(slot.phase) \cup {pair})
  <2> SUFFICES ASSUME outcome.ok, slot.kind # "READ_INPUTS", NEW other \in ReadBefore(slot.phase) \cup {pair}
               PROVE  /\ other \in t.seen
                      /\ t.mismatch = {} => other \in ev'.valid /\ ev'.shadow[other] = t.expected[other]
    BY <1>3 DEF Confirmed
  <2>1. CASE other = pair BY <1>1, <1>3, <2>1, ReadbackSettles
  <2>2. CASE other # pair
    <3>1. other \in ReadBefore(slot.phase) /\ other \in WritablePairs
      BY <1>1, <2>2 DEF ReadBefore, LastPhases, WritablePairs
    <3>2. other \in slot.seen /\ (slot.mismatch = {} => other \in ev.valid /\ ev.shadow[other] = slot.expected[other])
      BY <3>1 DEF ReadBack, Confirmed
    <3>3. (other \in ev.valid => other \in ev'.valid) /\ ev'.shadow[other] = ev.shadow[other]
      BY <1>1, <2>2, <3>1, ReadbackSettles
    <3>4. t.mismatch = {} => slot.mismatch = {} BY <1>1, <1>3, ReadbackSettles
    <3> QED BY <1>3, <3>2, <3>3, <3>4
  <2> QED BY <2>1, <2>2
<1>7. ReadBefore(slot.phase) \cup {pair} =
        IF pair = "DIRECTIONS" THEN WritablePairs ELSE ReadBefore(AfterVerify[pair])
  BY <1>1 DEF ReadBefore, LastPhases, VerifyPhase, AfterVerify, WritablePairs
<1>8. CASE ~outcome.ok /\ s = finish(slot, ev', "FAILED", slot.phase)
  BY <1>1, <1>2, <1>8, FinishKeepsFound, CountKeepsFound, EndAccounted
<1>9. CASE outcome.ok /\ pair = "DIRECTIONS" /\ s = finish(t, ev', "MISMATCH", slot.phase)
  <2>1. /\ s.kind = t.kind /\ s.seen = t.seen /\ s.mismatch = t.mismatch /\ s.outcome = "MISMATCH"
        /\ s.terminalPhase = slot.phase /\ ~s.active /\ s.pending
    BY <1>3, <1>9, FinishKeepsFound
  <2>2. /\ ~slot'.active /\ slot'.pending /\ slot'.terminalPhase = slot.phase
        /\ slot'.outcome = "MISMATCH"
    BY <1>1, <2>1, CountKeepsFound
  <2> QED BY <1>5, <2>2 DEF Accounted, ReadBack
<1>10. CASE outcome.ok /\ pair = "DIRECTIONS" /\ t.mismatch = {} /\ s = finish(t, ev', "SUCCEEDED", slot.phase)
  <2>1. /\ s.outcome = "SUCCEEDED" /\ s.terminalPhase = slot.phase /\ ~s.active /\ s.pending
    BY <1>3, <1>10, FinishKeepsFound
  <2>2. ~slot'.active /\ slot'.pending /\ slot'.terminalPhase = slot.phase
    BY <1>1, <2>1, CountKeepsFound
  <2>3. slot.kind # "READ_INPUTS" => ImageSettled
    BY <1>3, <1>6, <1>7, <1>10 DEF Confirmed, ImageSettled
  <2> QED BY <1>5, <2>2, <2>3 DEF Accounted, ReadBack
<1>11. ASSUME NEW phase, outcome.ok, s = [t EXCEPT !.phase = phase],
              ReadBefore(phase) = ReadBefore(slot.phase) \cup {pair},
              phase \in LastPhases => t.mismatch = {}
       PROVE  Accounted
  <2>1. /\ s.active = slot.active /\ s.pending = slot.pending /\ s.phase = phase
        /\ s.outcome = slot.outcome /\ s.kind = t.kind /\ s.expected = t.expected
        /\ s.seen = t.seen /\ s.mismatch = t.mismatch
    BY <1>3, <1>4, <1>11 DEF Slots
  <2>2. /\ slot'.active /\ ~slot'.pending /\ slot'.phase = phase /\ slot'.outcome = slot.outcome
        /\ slot'.kind = t.kind /\ slot'.expected = t.expected /\ slot'.seen = t.seen
        /\ slot'.mismatch = t.mismatch
    BY <1>1, <1>2, <2>1, CountKeepsFound
  <2>3. Confirmed(slot', ev', ReadBefore(slot'.phase))
    BY <1>6, <1>11, <2>2 DEF Confirmed
  <2> QED BY <1>11, <2>2, <2>3 DEF Accounted, ReadBack
<1>12. pair # "DIRECTIONS" => AfterVerify[pair] \notin LastPhases
  BY DEF AfterVerify, WritablePairs, LastPhases
<1>13. ReadBefore("READ_INPUTS") = WritablePairs BY DEF ReadBefore, LastPhases
<1> QED BY <1>1, <1>7, <1>8, <1>9, <1>10, <1>11, <1>12, <1>13 DEF AfterReadback, t

\* The read of the inputs leaves the writable pairs' evidence alone.
LEMMA ReadInputsAccounted ==
  ASSUME IInv, ReadBack, slot.active, readInputsTransfer
  PROVE  Accounted
<1>1. slot \in Slots /\ ~slot.pending /\ ev \in Evidence BY NotBoth DEF IInv, TypeOK
<1>2. PICK outcome \in ReadOutcome[2] :
        /\ slot.phase = "READ_INPUTS"
        /\ ev' = IF outcome.ok THEN recordInputs(ev) ELSE failedPairRead(ev, "INPUTS")
        /\ LET parking == [slot EXCEPT !.cleanupRequired = TRUE, !.phase = "POINTER_PARK"] IN
           transferred(
             CASE outcome.ok -> [parking EXCEPT !.seen = @ \cup {"INPUTS"},
                                                !.completed = @ \cup {"INPUTS"}]
               [] ~outcome.ok /\ outcome.effect # "NOT_ATTEMPTED" ->
                    [parking EXCEPT !.requested = "FAILED", !.requestedPhase = slot.phase]
               [] OTHER -> finish(slot, ev', "FAILED", slot.phase))
  BY DEF readInputsTransfer
<1>3. ev'.valid = ev.valid /\ ev'.shadow = ev.shadow
  BY <1>1, <1>2 DEF recordInputs, failedPairRead, Evidence
<1> DEFINE parking == [slot EXCEPT !.cleanupRequired = TRUE, !.phase = "POINTER_PARK"]
           parkingRead == [parking EXCEPT !.seen = @ \cup {"INPUTS"}, !.completed = @ \cup {"INPUTS"}]
           parkingFailed == [parking EXCEPT !.requested = "FAILED", !.requestedPhase = slot.phase]
           failed == finish(slot, ev', "FAILED", slot.phase)
<1>4. transferred(parkingRead) \/ transferred(parkingFailed) \/ transferred(failed)
  <2> HIDE DEF parkingRead, parkingFailed, failed
  <2>1. transferred(CASE outcome.ok -> parkingRead
                      [] ~outcome.ok /\ outcome.effect # "NOT_ATTEMPTED" -> parkingFailed
                      [] OTHER -> failed)
    BY <1>2 DEF parkingRead, parkingFailed, failed
  <2>2. CASE outcome.ok BY <2>1, <2>2, Zenon
  <2>3. CASE ~outcome.ok /\ outcome.effect # "NOT_ATTEMPTED" BY <2>1, <2>3, Zenon
  <2>4. CASE ~outcome.ok /\ outcome.effect = "NOT_ATTEMPTED" BY <2>1, <2>4, Zenon
  <2> QED BY <2>2, <2>3, <2>4
<1>5. CASE transferred(failed)
  <2>1. /\ failed.kind = slot.kind /\ failed.seen = slot.seen /\ failed.mismatch = slot.mismatch
        /\ failed.outcome = "FAILED" /\ failed.terminalPhase = slot.phase
        /\ ~failed.active /\ failed.pending
    BY <1>1, FinishKeepsFound
  <2> HIDE DEF failed
  <2> QED BY <1>5, <2>1, CountKeepsFound, EndAccounted
<1>6. ASSUME NEW s, transferred(s), s.active = slot.active, s.pending = slot.pending,
             s.outcome = slot.outcome, s.kind = slot.kind, s.expected = slot.expected,
             slot.seen \subseteq s.seen, s.mismatch = slot.mismatch, s.phase = "POINTER_PARK"
      PROVE  Accounted
  <2>1. ReadBefore("POINTER_PARK") = ReadBefore(slot.phase) /\ slot.phase \in LastPhases
    BY <1>2 DEF ReadBefore, LastPhases
  <2> QED BY <1>1, <1>3, <1>6, <2>1, CountKeepsFound, GoOnAccounted
<1>7. /\ parkingRead.active = slot.active /\ parkingRead.pending = slot.pending
      /\ parkingRead.outcome = slot.outcome /\ parkingRead.kind = slot.kind
      /\ parkingRead.expected = slot.expected /\ slot.seen \subseteq parkingRead.seen
      /\ parkingRead.mismatch = slot.mismatch /\ parkingRead.phase = "POINTER_PARK"
  BY <1>1 DEF Slots
<1>8. /\ parkingFailed.active = slot.active /\ parkingFailed.pending = slot.pending
      /\ parkingFailed.outcome = slot.outcome /\ parkingFailed.kind = slot.kind
      /\ parkingFailed.expected = slot.expected /\ slot.seen \subseteq parkingFailed.seen
      /\ parkingFailed.mismatch = slot.mismatch /\ parkingFailed.phase = "POINTER_PARK"
  BY <1>1 DEF Slots
<1> HIDE DEF parkingRead, parkingFailed
<1> QED BY <1>4, <1>5, <1>6, <1>7, <1>8

\* The park comes last, when everything is settled.
LEMMA ParkAccounted ==
  ASSUME IInv, ReadBack, slot.active, parkTransfer
  PROVE  Accounted
<1>1. slot \in Slots BY DEF IInv, TypeOK
<1>2. PICK outcome \in WriteOutcome[1] :
        /\ slot.phase = "POINTER_PARK"
        /\ ev' = ev
        /\ LET attempted == [slot EXCEPT !.cleanupAttempted = TRUE,
                                         !.cleanupRequired = @ /\ ~outcome.ok] IN
           transferred(
             IF slot.requested # "NONE"
             THEN finish(attempted, ev, slot.requested, slot.requestedPhase)
             ELSE finish(attempted, ev, IF outcome.ok THEN "SUCCEEDED" ELSE "FAILED", slot.phase))
  BY DEF parkTransfer
<1> DEFINE attempted == [slot EXCEPT !.cleanupAttempted = TRUE, !.cleanupRequired = @ /\ ~outcome.ok]
           verdict == IF slot.requested # "NONE" THEN slot.requested
                      ELSE IF outcome.ok THEN "SUCCEEDED" ELSE "FAILED"
           phase == IF slot.requested # "NONE" THEN slot.requestedPhase ELSE slot.phase
           over == finish(attempted, ev, verdict, phase)
<1>3. transferred(over) BY <1>2
<1>4. /\ attempted \in Slots /\ attempted.kind = slot.kind /\ attempted.seen = slot.seen
      /\ attempted.mismatch = slot.mismatch
  BY <1>1 DEF Slots
<1>5. slot.kind # "READ_INPUTS" => ImageSettled
  <2>1. ReadBefore(slot.phase) = WritablePairs /\ slot.phase \in LastPhases
    BY <1>2 DEF ReadBefore, LastPhases
  <2> QED BY <1>2, <2>1 DEF ReadBack, Confirmed, ImageSettled
<1> HIDE DEF attempted, verdict, phase
<1>6. /\ over.kind = slot.kind /\ over.seen = slot.seen /\ over.mismatch = slot.mismatch
      /\ ~over.active /\ over.pending
  BY <1>4, FinishKeepsFound
<1> HIDE DEF over
<1> QED BY <1>2, <1>3, <1>5, <1>6, CountKeepsFound, EndAccounted

\* A step that leaves the slot alone, and its evidence while it is active.
LEMMA QuietAccounted ==
  ASSUME ReadBack, slot' = slot, slot.active => ev' = ev
  PROVE  Accounted
BY DEF Accounted, ReadBack, Confirmed

\* Detaching ends active work, or leaves the slot alone.
LEMMA DetachAccounted ==
  ASSUME IInv, ReadBack, detach
  PROVE  Accounted
<1>1. slot \in Slots BY DEF IInv, TypeOK
<1>2. CASE slot.active BY <1>1, <1>2, FinishAccounted DEF detach
<1>3. CASE ~slot.active BY <1>3, QuietAccounted DEF detach
<1> QED BY <1>2, <1>3

\* Every step of the driver accounts for what an operation found.
LEMMA NextAccounted ==
  ASSUME IInv, ReadBack, [Next]_vars
  PROVE  Accounted
<1>1. CASE SyncCall
  BY <1>1, SyncCallStep, QuietAccounted DEF IInv, CallbackStep
<1>2. CASE ContinueCall
  BY <1>2, ContinueCallStep, QuietAccounted DEF IInv, CallbackStep
<1>3. CASE startApplyImage
  BY <1>3, StartAccounted DEF startApplyImage
<1>4. CASE startVerifyImage
  BY <1>4, StartAccounted DEF startVerifyImage
<1>5. CASE startReadInputs
  BY <1>5, StartAccounted DEF startReadInputs
<1>6. CASE takeOperationResult
  <2>1. slot' = EmptySlot /\ ~slot.active BY <1>6, NotBoth DEF takeOperationResult
  <2> QED BY <2>1 DEF EmptySlot, Accounted, ReadBack
<1>7. CASE cancelOperation \/ timeoutOperation
  BY <1>7, RequestAccounted DEF cancelOperation, timeoutOperation
<1>8. CASE bind BY <1>8, QuietAccounted DEF bind
<1>9. CASE detach BY <1>9, DetachAccounted
<1>10. CASE pollOperation \/ pollWithoutBudget
  BY <1>10, PollAccounted DEF pollOperation, pollWithoutBudget
<1>11. CASE executeOperationTransfer
  <2>1. slot.active
    BY <1>11 DEF executeOperationTransfer, IInv, CallInv
  <2> QED BY <1>11, <2>1, ApplyAccounted, VerifyAccounted, ReadInputsAccounted, ParkAccounted
          DEF executeOperationTransfer
<1>12. CASE DeadlinePasses BY <1>12, QuietAccounted DEF DeadlinePasses
<1>13. CASE PowerCycle BY <1>13, QuietAccounted DEF PowerCycle
<1>14. CASE UNCHANGED vars BY <1>14, QuietAccounted DEF vars
<1> QED BY <1>1, <1>2, <1>3, <1>4, <1>5, <1>6, <1>7, <1>8, <1>9, <1>10, <1>11, <1>12, <1>13, <1>14
        DEF Next, OperationCall

\* It holds of the empty slot.
LEMMA InitReadBack ==
  ASSUME Init
  PROVE  ReadBack
BY DEF Init, EmptySlot, ReadBack

\* An image operation goes on to the inputs only when it has read back every pair
\* and found its image: what ReadBack says in the words of the property.
LEMMA ReadBackIsVerified ==
  ASSUME IInv, ReadBack
  PROVE  VerifiedBeforeInputs
<1> SUFFICES ASSUME slot.kind = "APPLY_IMAGE",
                    (IF slot.active THEN slot.phase ELSE slot.terminalPhase) \in LastPhases
             PROVE  /\ WritablePairs \subseteq slot.seen
                    /\ slot.mismatch = {}
                    /\ slot.active => ev.valid = WritablePairs /\ ev.shadow = slot.expected
  BY DEF VerifiedBeforeInputs, LastPhases
<1>1. CASE slot.active
  <2>1. slot.mismatch = {} BY <1>1 DEF ReadBack
  <2>2. ReadBefore(slot.phase) = WritablePairs BY <1>1 DEF ReadBefore
  <2>3. \A pair \in WritablePairs :
          pair \in slot.seen /\ pair \in ev.valid /\ ev.shadow[pair] = slot.expected[pair]
    BY <1>1, <2>1, <2>2 DEF ReadBack, Confirmed
  <2>4. /\ ev.valid \subseteq WritablePairs
        /\ ev.shadow \in [WritablePairs -> Values] /\ slot.expected \in [WritablePairs -> Values]
    BY DEF IInv, TypeOK, Evidence, Slots, Images
  <2>5. ev.shadow = slot.expected BY <2>3, <2>4
  <2> QED BY <2>1, <2>3, <2>4, <2>5
<1>2. CASE ~slot.active
  BY <1>2 DEF ReadBack
<1> QED BY <1>1, <1>2

\* No operation on an image reads the inputs, or reports that it came so far,
\* unless it has read back all three pairs and each was the caller's.
THEOREM ImagesAreVerified == Spec => []VerifiedBeforeInputs
<1>1. Init => ReadBack BY InitReadBack
<1>2. IInv /\ ReadBack /\ [Next]_vars => ReadBack' BY NextAccounted DEF Accounted
<1>3. IInv /\ ReadBack => VerifiedBeforeInputs BY ReadBackIsVerified
<1> QED BY <1>1, <1>2, <1>3, InvariantHolds, PTL DEF Spec

\* A step that ends an image operation successfully ends it with the image in the chip.
LEMMA SuccessHasImage ==
  ASSUME IInv, IInv', ReadBack, [Next]_vars,
         slot.active, slot'.outcome = "SUCCEEDED", slot.kind # "READ_INPUTS"
  PROVE  /\ ev'.valid = WritablePairs
         /\ \A pair \in WritablePairs : \A pin \in Pins \ stale'[pair] :
              pin \in chip'.regs[pair] <=> pin \in slot.expected[pair]
<1>1. ImageSettled BY NextAccounted DEF Accounted
<1>2. ev'.valid \subseteq WritablePairs BY DEF IInv, TypeOK, Evidence
<1>3. ShadowSound' BY DEF IInv
<1> QED BY <1>1, <1>2, <1>3 DEF ImageSettled, ShadowSound

\* An image operation that succeeds leaves the caller's image in the chip, whatever
\* was cut, refused or cancelled on the way.
THEOREM SuccessIsTheImage == Spec => SuccessMeansImage
<1>1. Init => ReadBack BY InitReadBack
<1>2. IInv /\ ReadBack /\ [Next]_vars => ReadBack' BY NextAccounted DEF Accounted
<1>3. IInv /\ IInv' /\ ReadBack /\ [Next]_vars =>
        [slot.active /\ slot'.outcome = "SUCCEEDED" /\ slot.kind # "READ_INPUTS" =>
           /\ ev'.valid = WritablePairs
           /\ \A pair \in WritablePairs : \A pin \in Pins \ stale'[pair] :
                pin \in chip'.regs[pair] <=> pin \in slot.expected[pair]]_vars
  BY SuccessHasImage
<1> QED BY <1>1, <1>2, <1>3, InvariantHolds, PTL DEF Spec, SuccessMeansImage

-----------------------------------------------------------------------------
(* The command pointer.  While a park is owed the driver knows it; a step     *)
(* that finds no park owed finds no pointer left on the inputs unexplained,   *)
(* and leaves none unless it comes to owe one.                                *)

Parking == call.stage \in {"PARK_NOTHING", "PARK_PAIR", "PARK_PORT"}

Owes == Parking \/ (slot.active /\ CleanupOwed(slot))

\* The pointer is elsewhere, or the owner knows why it is not.
Explained == chip.pointer = "INPUTS" => excused

\* The property is: a pointer left on the inputs is explained, or a park is owed.
LEMMA DebtOrExplained == PointerDebt <=> Owes \/ Explained
BY DEF PointerDebt, Owes, Parking, Explained

\* A command or a write to another pair moves the pointer, or nothing.
LEMMA AwayExplained ==
  ASSUME chip \in Chip, Explained, NEW pair \in WritablePairs, NEW accepted \in Nat,
         chip'.pointer = AcceptCommand(chip, pair, accepted).pointer,
         excused' = (excused /\ accepted = 0)
  PROVE  Explained'
<1>1. CASE accepted = 0
  <2>1. chip'.pointer = chip.pointer BY <1>1 DEF AcceptCommand, Chip
  <2>2. excused' <=> excused BY <1>1
  <2> QED BY <2>1, <2>2 DEF Explained
<1>2. CASE accepted >= 1
  <2>1. chip'.pointer = pair BY <1>2 DEF AcceptCommand, Chip
  <2> QED BY <2>1 DEF Explained, WritablePairs
<1> QED BY <1>1, <1>2

\* A write,
LEMMA WriteExplained ==
  ASSUME chip \in Chip, Explained, NEW pair \in WritablePairs, NEW first, NEW value,
         NEW length \in 1..3, NEW outcome \in WriteOutcome[length], Write(pair, first, value, outcome)
  PROVE  Explained'
<1>1. outcome.accepted \in Nat BY WriteOutcomeFacts
<1>2. chip'.pointer = AcceptCommand(chip, pair, outcome.accepted).pointer
  BY DEF Write, AcceptWrite
<1>3. excused' = (excused /\ outcome.accepted = 0) BY DEF Write
<1> QED BY <1>1, <1>2, <1>3, AwayExplained

\* and a command to another pair, leave the pointer explained.
LEMMA CommandExplained ==
  ASSUME chip \in Chip, Explained, NEW pair \in WritablePairs, NEW outcome,
         outcome.accepted \in Nat, Command(pair, outcome)
  PROVE  Explained'
<1>1. chip'.pointer = AcceptCommand(chip, pair, outcome.accepted).pointer
  BY DEF Command
<1>2. excused' = (excused /\ outcome.accepted = 0) BY DEF Command
<1> QED BY <1>1, <1>2, AwayExplained

\* A command that the chip did not accept moves nothing.
LEMMA RefusedExplained ==
  ASSUME chip \in Chip, Explained, NEW pair, NEW outcome, outcome.accepted = 0, Command(pair, outcome)
  PROVE  Explained'
<1>1. chip'.pointer = chip.pointer BY DEF Command, AcceptCommand, Chip
<1>2. excused' <=> excused BY DEF Command
<1> QED BY <1>1, <1>2 DEF Explained

\* After a park attempt the pointer is away, or the owner has been told.
LEMMA ParkExplained ==
  ASSUME chip \in Chip, NEW outcome \in WriteOutcome[1], parkPointer(outcome)
  PROVE  Explained'
<1>1. outcome.accepted \in 0..1 BY WriteOutcomeFacts
<1>2. CASE outcome.accepted = 0
  <2>1. chip'.pointer = chip.pointer BY <1>2 DEF parkPointer, AcceptCommand, Chip
  <2>2. chip.pointer = "INPUTS" => excused' BY <1>2 DEF parkPointer
  <2> QED BY <2>1, <2>2 DEF Explained
<1>3. CASE outcome.accepted = 1
  BY <1>3 DEF parkPointer, AcceptCommand, Chip, Explained
<1> QED BY <1>1, <1>2, <1>3

\* The callback of a synchronous call that owes no park comes to owe one, or leaves
\* the pointer explained.
LEMMA CallbackPays ==
  ASSUME chip \in Chip, Explained, CallbackStep
  PROVE  Owes' \/ Explained'
<1>1. CASE PairWriteStep
  BY <1>1, WriteExplained DEF PairWriteStep, writePairTo
<1>2. CASE PortWriteStep
  BY <1>2, WriteExplained DEF PortWriteStep, writePortTo
<1>3. CASE RawWriteStep
  <2>1. PICK pair \in RawWritablePairs, first \in Ports, length \in 1..2, value \in Values :
          \E outcome \in WriteOutcome[length + 1] : Write(pair, first, value, outcome)
    BY <1>3 DEF RawWriteStep
  <2>2. length + 1 \in 1..3 /\ pair \in WritablePairs BY DEF RawWritablePairs
  <2> QED BY <2>1, <2>2, WriteExplained
<1>4. CASE PairReadStep
  <2>1. PICK pair \in WritablePairs, outcome \in ReadOutcome[2] : Command(pair, outcome)
    BY <1>4 DEF PairReadStep, readPair
  <2>2. outcome.accepted \in Nat BY ReadOutcomeFacts
  <2> QED BY <2>1, <2>2, CommandExplained
<1>5. CASE PortReadStep
  <2>1. PICK pair \in WritablePairs, outcome \in ReadOutcome[1] : Command(pair, outcome)
    BY <1>5 DEF PortReadStep, readWritablePortRegister
  <2>2. outcome.accepted \in Nat BY ReadOutcomeFacts
  <2> QED BY <2>1, <2>2, CommandExplained
<1>6. CASE InputReadStep
  <2>1. PICK length \in 1..2 : \E outcome \in ReadOutcome[length] :
          /\ Command("INPUTS", outcome)
          /\ \/ outcome.effect = "NOT_ATTEMPTED"
             \/ \E seen \in {"PARK_NOTHING", "PARK_PAIR", "PARK_PORT"} : call' = Then(seen, {}, 0)
    BY <1>6 DEF InputReadStep, readInputRegisters
  <2>2. PICK outcome \in ReadOutcome[length] :
          /\ Command("INPUTS", outcome)
          /\ \/ outcome.effect = "NOT_ATTEMPTED"
             \/ \E seen \in {"PARK_NOTHING", "PARK_PAIR", "PARK_PORT"} : call' = Then(seen, {}, 0)
    BY <2>1
  <2>3. CASE outcome.effect = "NOT_ATTEMPTED"
    BY <2>2, <2>3, ReadOutcomeFacts, RefusedExplained
  <2>4. CASE \E seen \in {"PARK_NOTHING", "PARK_PAIR", "PARK_PORT"} : call' = Then(seen, {}, 0)
    BY <2>4 DEF Then, Owes, Parking
  <2> QED BY <2>2, <2>3, <2>4
<1>7. CASE ParkStep
  BY <1>7, ParkExplained DEF ParkStep
<1>8. CASE ProbeStep
  <2>1. PICK outcome \in WriteOutcome[1] : Command("DIRECTIONS", outcome)
    BY <1>8 DEF ProbeStep
  <2>2. outcome.accepted \in Nat /\ "DIRECTIONS" \in WritablePairs
    BY WriteOutcomeFacts DEF WritablePairs
  <2> QED BY <2>1, <2>2, CommandExplained
<1> QED BY <1>1, <1>2, <1>3, <1>4, <1>5, <1>6, <1>7, <1>8 DEF CallbackStep

\* Every synchronous call begins when no call is in progress and no operation is active.
LEMMA SyncCallIsReady ==
  ASSUME SyncCall
  PROVE  Ready
<1>1. ASSUME NEW pin \in Pins, PinCall(pin)
      PROVE  Ready
  BY <1>1 DEF PinCall, writePin, preloadOutput, preloadOutputs, setDirection, configureInputBits,
              configureOutputBits, configureOutputs, setPinPolarity, setInvertBits, clearInvertBits,
              togglePin, toggleOutputBits, readOutputPin, readOutput, getPinDirection,
              getPortConfiguration, getPinPolarity, getPortPolarity, readPortOf, shadowStatus
<1>2. ASSUME NEW port \in Ports, PortCall(port)
      PROVE  Ready
  BY <1>2 DEF PortCall, writeOutput, writePortOf, setPortConfiguration, setPortPolarity,
              writeRegister, rawWrite, readOutput, getPortConfiguration, getPortPolarity,
              readRegister, readPortOf
<1>3. ASSUME NEW mask \in NonEmptyMasks, MaskCall(mask)
      PROVE  Ready
  BY <1>3 DEF MaskCall, preloadOutputs, configureOutputs, setOutputBits, clearOutputBits,
              toggleOutputBits, configureInputBits, configureOutputBits, setInvertBits,
              clearInvertBits, shadowStatus
<1>4. ASSUME PairCall
      PROVE  Ready
  BY <1>4 DEF PairCall, writeOutputs, setConfiguration, setPolarity, writeRegisters, rawWrite,
              readOutputs, getConfiguration, checkPorDefaults, getPolarity, readRegisters,
              readWhole, readObservedState, readInputs, readInput, readPin,
              applyInterruptErrataWorkaround, probe
<1> QED BY <1>1, <1>2, <1>3, <1>4 DEF SyncCall

\* The transfers of an operation: the read of the inputs comes to owe the park
\* unless its command never arrived, and the park settles it.
LEMMA TransferPays ==
  ASSUME IInv, PointerDebt, executeOperationTransfer
  PROVE  Owes' \/ Explained'
<1>1. /\ slot \in Slots /\ chip \in Chip /\ slot.active /\ ~Parking
  BY DEF executeOperationTransfer, IInv, TypeOK, CallInv, Parking
<1>2. slot.phase # "POINTER_PARK" => Explained
  BY <1>1, DebtOrExplained DEF Owes, CleanupOwed
<1>3. CASE applyPair
  <2>1. slot.phase # "POINTER_PARK" BY <1>3 DEF applyPair, ApplyPhase, WritablePairs
  <2> QED BY <1>1, <1>2, <1>3, <2>1, WriteExplained DEF applyPair, writePairTo
<1>4. CASE verifyPair
  <2>1. PICK pair \in WritablePairs, outcome \in ReadOutcome[2] :
          slot.phase = VerifyPhase[pair] /\ Command(pair, outcome)
    BY <1>4 DEF verifyPair
  <2>2. slot.phase # "POINTER_PARK" BY <2>1 DEF VerifyPhase, WritablePairs
  <2>3. outcome.accepted \in Nat BY ReadOutcomeFacts
  <2> QED BY <1>1, <1>2, <2>1, <2>2, <2>3, CommandExplained
<1>5. CASE readInputsTransfer
  <2>1. PICK outcome \in ReadOutcome[2] :
          /\ slot.phase = "READ_INPUTS"
          /\ Command("INPUTS", outcome)
          /\ LET parking == [slot EXCEPT !.cleanupRequired = TRUE, !.phase = "POINTER_PARK"] IN
             transferred(
               CASE outcome.ok -> [parking EXCEPT !.seen = @ \cup {"INPUTS"},
                                                  !.completed = @ \cup {"INPUTS"}]
                 [] ~outcome.ok /\ outcome.effect # "NOT_ATTEMPTED" ->
                      [parking EXCEPT !.requested = "FAILED", !.requestedPhase = slot.phase]
                 [] OTHER -> finish(slot, ev', "FAILED", slot.phase))
    BY <1>5 DEF readInputsTransfer
  <2> DEFINE parking == [slot EXCEPT !.cleanupRequired = TRUE, !.phase = "POINTER_PARK"]
             parkingRead == [parking EXCEPT !.seen = @ \cup {"INPUTS"}, !.completed = @ \cup {"INPUTS"}]
             parkingFailed == [parking EXCEPT !.requested = "FAILED", !.requestedPhase = slot.phase]
  <2>2. ASSUME NEW s, transferred(s), s.active, s.phase = "POINTER_PARK", s.cleanupRequired
        PROVE  Owes'
    <3>1. slot'.active /\ slot'.phase = "POINTER_PARK" /\ slot'.cleanupRequired
      BY <2>2, CountedFields
    <3> QED BY <3>1 DEF Owes, CleanupOwed
  <2>3. parkingRead.active /\ parkingRead.phase = "POINTER_PARK" /\ parkingRead.cleanupRequired
    BY <1>1 DEF Slots
  <2>4. parkingFailed.active /\ parkingFailed.phase = "POINTER_PARK" /\ parkingFailed.cleanupRequired
    BY <1>1 DEF Slots
  <2>5. CASE outcome.ok
    <3>1. transferred(parkingRead) BY <2>1, <2>5, Zenon
    <3> HIDE DEF parkingRead
    <3> QED BY <2>2, <2>3, <3>1
  <2>6. CASE ~outcome.ok /\ outcome.effect # "NOT_ATTEMPTED"
    <3>1. transferred(parkingFailed) BY <2>1, <2>6, Zenon
    <3> HIDE DEF parkingFailed
    <3> QED BY <2>2, <2>4, <3>1
  <2>7. CASE outcome.effect = "NOT_ATTEMPTED"
    <3>1. outcome.accepted = 0 BY <2>7, ReadOutcomeFacts
    <3>2. Explained BY <1>2, <2>1
    <3> QED BY <1>1, <2>1, <3>1, <3>2, RefusedExplained
  <2> QED BY <2>5, <2>6, <2>7
<1>6. CASE parkTransfer
  BY <1>1, <1>6, ParkExplained DEF parkTransfer
<1> QED BY <1>3, <1>4, <1>5, <1>6 DEF executeOperationTransfer

\* Cancellation, a timeout and the entry of a poll keep the park that is owed.
LEMMA RequestPays ==
  ASSUME slot \in Slots, slot.active, call = Idle, PointerDebt, UNCHANGED <<chip, excused>>,
         CleanupOwed(slot) => slot'.active /\ slot'.phase = slot.phase
                              /\ slot'.cleanupRequired = slot.cleanupRequired
  PROVE  Owes' \/ Explained'
<1>1. ~Parking BY IdleStage DEF Parking
<1>2. CASE CleanupOwed(slot) BY <1>2 DEF Owes, CleanupOwed
<1>3. CASE ~CleanupOwed(slot)
  <2>1. Explained BY <1>1, <1>3, DebtOrExplained DEF Owes
  <2> QED BY <2>1 DEF Explained
<1> QED BY <1>2, <1>3

\* What a step without a callback does when no park is owed, or keeps the debt.
LEMMA StillPays ==
  ASSUME PointerDebt, UNCHANGED <<chip, excused>>, Owes => Owes'
  PROVE  Owes' \/ Explained'
BY DebtOrExplained DEF Explained

\* Every step keeps the property.
LEMMA NextPays ==
  ASSUME IInv, PointerDebt, [Next]_vars
  PROVE  PointerDebt'
<1> SUFFICES Owes' \/ Explained'
  BY DEF PointerDebt, Owes, Parking, Explained
<1>1. chip \in Chip /\ slot \in Slots BY DEF IInv, TypeOK
<1>2. CASE SyncCall
  <2>1. ~Owes BY <1>2, SyncCallIsReady, IdleStage DEF Ready, Owes, Parking
  <2> QED BY <1>1, <1>2, <2>1, DebtOrExplained, SyncCallStep, CallbackPays DEF IInv
<1>3. CASE EnablePair \/ EnablePort \/ ObserveOn
  <2>1. ~Parking /\ ContinueCall
    BY <1>3 DEF EnablePair, EnablePort, ObserveOn, ContinueCall, Parking
  <2>2. CallbackStep BY <2>1, ContinueCallStep DEF IInv
  <2>3. Explained BY <2>1, <2>2, DebtOrExplained DEF Owes, CallbackStep
  <2> QED BY <1>1, <2>2, <2>3, CallbackPays
<1>4. CASE ParkAfterRead
  BY <1>1, <1>4, ParkExplained DEF ParkAfterRead
<1>5. CASE startApplyImage \/ startVerifyImage \/ startReadInputs
  BY <1>5, StillPays, IdleStage
     DEF startApplyImage, startVerifyImage, startReadInputs, start, Owes, Parking
<1>6. CASE takeOperationResult
  BY <1>6, NotBoth, StillPays, IdleStage DEF takeOperationResult, Owes, Parking
<1>7. CASE cancelOperation \/ timeoutOperation
  <2>1. PICK outcome \in {"CANCELLED", "TIMED_OUT"} : requestTerminal(outcome)
    BY <1>7 DEF cancelOperation, timeoutOperation
  <2>2. /\ call = Idle /\ slot.active /\ UNCHANGED <<chip, excused>>
        /\ CleanupOwed(slot) =>
             slot' = [slot EXCEPT !.requested = outcome, !.requestedPhase = slot.phase]
    BY <2>1 DEF requestTerminal
  <2> QED BY <1>1, <2>2, RequestPays DEF Slots
<1>8. CASE bind
  BY <1>8, StillPays, IdleStage DEF bind, Owes, Parking
<1>9. CASE detach
  BY <1>9, StillPays, IdleStage DEF detach, Owes, Parking
<1>10. CASE pollOperation \/ pollWithoutBudget
  <2>1. call = Idle /\ slot.active /\ UNCHANGED <<chip, excused>> /\ slot' = enterPoll
    BY <1>10 DEF pollOperation, pollWithoutBudget
  <2>2. ASSUME CleanupOwed(slot)
        PROVE  slot'.active /\ slot'.phase = slot.phase /\ slot'.cleanupRequired = slot.cleanupRequired
    <3>1. CASE ~late BY <2>1, <3>1 DEF enterPoll
    <3>2. CASE late
      <4>1. slot' = [slot EXCEPT !.cleanupAfterDeadline = TRUE,
                                 !.requested = IF @ = "NONE" THEN "TIMED_OUT" ELSE @,
                                 !.requestedPhase = IF slot.requested = "NONE" THEN slot.phase ELSE @]
        BY <2>1, <2>2, <3>2 DEF enterPoll
      <4> QED BY <1>1, <2>1, <4>1 DEF Slots
    <3> QED BY <3>1, <3>2
  <2> QED BY <1>1, <2>1, <2>2, RequestPays
<1>11. CASE executeOperationTransfer
  BY <1>11, TransferPays
<1>12. CASE DeadlinePasses
  BY <1>12, StillPays DEF DeadlinePasses, Owes, Parking
<1>13. CASE PowerCycle
  BY <1>13 DEF PowerCycle, Explained
<1>14. CASE UNCHANGED vars
  BY <1>14, StillPays DEF vars, Owes, Parking
<1> QED BY <1>2, <1>3, <1>4, <1>5, <1>6, <1>7, <1>8, <1>9, <1>10, <1>11, <1>12, <1>13, <1>14
        DEF Next, OperationCall, ContinueCall

\* Unless a park is still owed, or an attempt at it failed and said so, or the power
\* was lost, the command pointer is not on an input register.
THEOREM PointerIsParked == Spec => []PointerDebt
<1>1. Init => PointerDebt BY DEF Init, PointerDebt
<1>2. IInv /\ PointerDebt /\ [Next]_vars => PointerDebt' BY NextPays
<1> QED BY <1>1, <1>2, InvariantHolds, PTL DEF Spec

-----------------------------------------------------------------------------
(* Failed writes are classified *)

\* What the end of an apply phase reports of its pair.
Classified(pair) ==
  \/ slot'.outcome = "INDETERMINATE" /\ pair \in slot'.uncertain \ slot'.shadowValid
  \/ slot'.outcome = "FAILED" /\ chip'.regs = chip.regs

\* A write of a pair that the chip cut after the command changed no register.
LEMMA CutWriteChangesNothing ==
  ASSUME chip \in Chip, NEW pair \in WritablePairs, NEW value \in Values, NEW outcome,
         outcome.accepted \in 0..1, Write(pair, 0, value, outcome)
  PROVE  chip'.regs = chip.regs
<1>1. Reached(0, outcome.accepted) = {} BY DEF Reached
<1>2. Overlay(chip.regs[pair], {}, value) = chip.regs[pair] BY DEF Overlay
<1>3. chip'.regs = [chip.regs EXCEPT ![pair] = Overlay(@, Reached(0, outcome.accepted), value)]
  BY DEF Write, AcceptWrite
<1>4. chip.regs \in [WritablePairs -> Values] BY DEF Chip, Images
<1> QED BY <1>1, <1>2, <1>3, <1>4

\* A write phase that ends the operation tells what its write has done.
LEMMA ApplyClassifies ==
  ASSUME IInv, slot.active, applyPair, ~slot'.active,
         NEW written \in WritablePairs, slot.phase = ApplyPhase[written]
  PROVE  Classified(written)
<1>1. PICK pair \in WritablePairs, outcome \in WriteOutcome[3] :
        /\ slot.phase = ApplyPhase[pair]
        /\ writePairTo(pair, slot.expected[pair], outcome)
        /\ LET noted == [slot EXCEPT !.lastWriteEffect = outcome.effect] IN
           transferred(
             IF outcome.ok
             THEN [noted EXCEPT !.completed = @ \cup {pair}, !.phase = AfterApply[pair]]
             ELSE finish(noted, ev',
                         IF outcome.effect = "MAY_HAVE_COMMITTED" THEN "INDETERMINATE" ELSE "FAILED",
                         slot.phase))
  BY DEF applyPair
<1> DEFINE noted == [slot EXCEPT !.lastWriteEffect = outcome.effect]
           going == [noted EXCEPT !.completed = @ \cup {pair}, !.phase = AfterApply[pair]]
           verdict == IF outcome.effect = "MAY_HAVE_COMMITTED" THEN "INDETERMINATE" ELSE "FAILED"
           ended == finish(noted, ev', verdict, slot.phase)
<1>2. pair = written BY <1>1 DEF ApplyPhase, WritablePairs
<1>3. slot \in Slots /\ chip \in Chip /\ ev \in Evidence BY DEF IInv, TypeOK
<1>4. slot.expected[pair] \in Values BY <1>3 DEF Slots, Images
<1>5. ~outcome.ok
  <2> SUFFICES ASSUME outcome.ok PROVE FALSE OBVIOUS
  <2>1. slot' = [going EXCEPT !.used = @ + 1] BY <1>1 DEF transferred
  <2>2. slot'.active = slot.active BY <1>3, <2>1 DEF Slots
  <2> QED BY <2>2
<1>6. slot' = [ended EXCEPT !.used = @ + 1] BY <1>1, <1>5 DEF transferred
<1>7. /\ slot'.outcome = verdict
      /\ slot'.uncertain = ev'.uncertain
      /\ slot'.shadowValid = ev'.valid
  BY <1>3, <1>6 DEF finish, Slots
<1>8. CASE outcome.effect = "MAY_HAVE_COMMITTED"
  <2>1. ev' = invalidateShadowPair(ev, pair) BY <1>1, <1>8 DEF writePairTo, writeRegs
  <2>2. pair \in ev'.uncertain /\ pair \notin ev'.valid
    BY <1>3, <2>1 DEF invalidateShadowPair, Evidence
  <2> QED BY <1>2, <1>7, <1>8, <2>2 DEF Classified
<1>9. CASE outcome.effect # "MAY_HAVE_COMMITTED"
  <2>1. outcome.accepted \in 0..1 BY <1>5, <1>9, WriteOutcomeFacts
  <2>2. Write(pair, 0, slot.expected[pair], outcome) BY <1>1 DEF writePairTo
  <2>3. chip'.regs = chip.regs BY <1>3, <1>4, <2>1, <2>2, CutWriteChangesNothing
  <2> QED BY <1>7, <1>9, <2>3 DEF Classified
<1> QED BY <1>8, <1>9

\* A write of an apply that may have happened is reported as such, with its pair
\* uncertain; one that is reported as failed changed no register.
THEOREM FailedWritesAreClassified == Spec => WriteFailureClassified
<1> DEFINE Told == \A pair \in WritablePairs :
                     slot.active /\ slot.phase = ApplyPhase[pair] /\ call.stage = "POLLING"
                       /\ ~slot'.active => Classified(pair)
<1>1. IInv /\ [Next]_vars => [Told]_vars
  <2> SUFFICES ASSUME IInv, Next, NEW pair \in WritablePairs, slot.active,
                      slot.phase = ApplyPhase[pair], call.stage = "POLLING", ~slot'.active
               PROVE  Classified(pair)
    OBVIOUS
  <2>1. call # Idle BY IdleStage
  <2>2. CASE SyncCall BY <2>2, SyncCallStep DEF IInv, CallbackStep
  <2>3. CASE ContinueCall BY <2>3, ContinueCallStep DEF IInv, CallbackStep
  <2>4. CASE OperationCall
    <3>1. executeOperationTransfer
      BY <2>1, <2>4 DEF OperationCall, startApplyImage, startVerifyImage, startReadInputs, start,
         takeOperationResult, cancelOperation, timeoutOperation, requestTerminal, bind, detach,
         pollOperation, pollWithoutBudget
    <3>2. slot.phase \in {"APPLY_OUTPUTS", "APPLY_POLARITY", "APPLY_DIRECTIONS"}
      BY DEF ApplyPhase, WritablePairs
    <3>3. ~verifyPair
      <4>1. \A read \in WritablePairs : slot.phase # VerifyPhase[read]
        BY <3>2 DEF VerifyPhase, WritablePairs
      <4> QED BY <4>1 DEF verifyPair
    <3>4. ~readInputsTransfer BY <3>2 DEF readInputsTransfer
    <3>5. ~parkTransfer BY <3>2 DEF parkTransfer
    <3>6. applyPair BY <3>1, <3>3, <3>4, <3>5 DEF executeOperationTransfer
    <3> QED BY <3>6, ApplyClassifies
  <2>5. CASE DeadlinePasses \/ PowerCycle BY <2>5 DEF DeadlinePasses, PowerCycle
  <2> QED BY <2>2, <2>3, <2>4, <2>5 DEF Next
<1>2. [Told]_vars =>
        [\A pair \in WritablePairs :
           slot.active /\ slot.phase = ApplyPhase[pair] /\ call.stage = "POLLING" /\ ~slot'.active =>
             \/ slot'.outcome = "INDETERMINATE" /\ pair \in slot'.uncertain \ slot'.shadowValid
             \/ slot'.outcome = "FAILED" /\ chip'.regs = chip.regs]_vars
  BY DEF Classified
<1> QED BY <1>1, <1>2, InvariantHolds, PTL DEF WriteFailureClassified, Spec

-----------------------------------------------------------------------------
(* Observations are whole *)

\* The record of a pair after the step is that before it, or void, or the pair.
ObservedWell(pair) ==
  pair \in ev'.obsValid =>
    \/ pair \in ev.obsValid /\ ev'.observed[pair] = ev.observed[pair]
    \/ ev'.observed[pair] = chip.regs[pair]

\* What a write does to the shadow leaves the observations alone.
LEMMA WritesObserveNothing ==
  ASSUME NEW e \in Evidence, NEW pair, NEW value, NEW f,
         f \in {e, invalidateShadowPair(e, pair), establishShadowPair(e, pair, value)}
  PROVE  f.observed = e.observed /\ f.obsValid = e.obsValid
BY DEF invalidateShadowPair, establishShadowPair, Evidence

\* A whole readback records the pair; the comparison after it changes no record.
LEMMA ReadbackObserves ==
  ASSUME ev \in Evidence, NEW pair \in WritablePairs, NEW other \in WritablePairs, NEW e,
         e = recordPairObservation(ev, pair, chip.regs[pair]),
         ev' \in {e, establishShadowPair(e, pair, e.observed[pair])}
  PROVE  ObservedWell(other)
<1>1. e.observed = [ev.observed EXCEPT ![pair] = chip.regs[pair]] /\ e.obsValid = ev.obsValid \cup {pair}
  BY DEF recordPairObservation, Evidence
<1>2. establishShadowPair(e, pair, e.observed[pair]).observed = e.observed
      /\ establishShadowPair(e, pair, e.observed[pair]).obsValid = e.obsValid
  BY DEF establishShadowPair, recordPairObservation, Evidence
<1>3. ev'.observed = e.observed /\ ev'.obsValid = e.obsValid BY <1>2
<1>4. ev.observed \in [WritablePairs -> Values] BY DEF Evidence, Images
<1> QED BY <1>1, <1>3, <1>4 DEF ObservedWell

\* No record that was not there before: the old ones stand or are void.
LEMMA KeptIsWell ==
  ASSUME NEW pair \in WritablePairs, ev'.observed[pair] = ev.observed[pair],
         ev'.obsValid \cap WritablePairs \subseteq ev.obsValid
  PROVE  ObservedWell(pair)
BY DEF ObservedWell

\* A callback of a synchronous call records a pair that it has read whole, or none.
LEMMA CallbackObserves ==
  ASSUME ev \in Evidence, CallbackStep, NEW pair \in WritablePairs
  PROVE  ObservedWell(pair)
<1> DEFINE Kept == ev'.observed[pair] = ev.observed[pair] /\ ev'.obsValid \cap WritablePairs \subseteq ev.obsValid
<1>0. Kept => ObservedWell(pair) BY KeptIsWell
<1>1. CASE PairWriteStep
  <2>1. PICK p \in WritablePairs, value \in Values, outcome \in WriteOutcome[3] :
          ev' = writeRegs(ev, p, value, TRUE, outcome)
    BY <1>1 DEF PairWriteStep, writePairTo
  <2>2. ev' \in {ev, invalidateShadowPair(ev, p), establishShadowPair(ev, p, value)}
    BY <2>1 DEF writeRegs
  <2>3. ev'.observed = ev.observed /\ ev'.obsValid = ev.obsValid BY <2>2, WritesObserveNothing
  <2> QED BY <1>0, <2>3
<1>2. CASE PortWriteStep
  <2>1. \E p \in WritablePairs, outcome \in WriteOutcome[2] : \E intended :
          ev' = writePort(ev, p, intended, outcome)
    BY <1>2 DEF PortWriteStep, writePortTo
  <2>2. PICK p \in WritablePairs, outcome \in WriteOutcome[2] : \E intended :
          ev' = writePort(ev, p, intended, outcome)
    BY <2>1
  <2>3. PICK intended : ev' = writePort(ev, p, intended, outcome) BY <2>2
  <2> DEFINE written == writeRegs(ev, p, intended, FALSE, outcome)
  <2>4. written \in {ev, invalidateShadowPair(ev, p), establishShadowPair(ev, p, intended)}
    BY DEF writeRegs
  <2>5. written.observed = ev.observed /\ written.obsValid = ev.obsValid
    <3> HIDE DEF written
    <3> QED BY <2>4, WritesObserveNothing
  <2>6. /\ establishShadowPair(written, p, intended).observed = written.observed
        /\ establishShadowPair(written, p, intended).obsValid = written.obsValid
    BY <2>4 DEF establishShadowPair, invalidateShadowPair, Evidence
  <2>7. ev' \in {written, establishShadowPair(written, p, intended)} BY <2>3 DEF writePort
  <2> QED BY <1>0, <2>5, <2>6, <2>7
<1>3. CASE RawWriteStep
  <2>1. PICK p \in RawWritablePairs, first \in Ports, length \in 1..2, value \in Values :
          \E outcome \in WriteOutcome[length + 1] :
            ev' = writeRegs([ev EXCEPT !.valid = @ \ {p}], p, value, length = 2, outcome)
    BY <1>3 DEF RawWriteStep
  <2>2. PICK outcome \in WriteOutcome[length + 1] :
          ev' = writeRegs([ev EXCEPT !.valid = @ \ {p}], p, value, length = 2, outcome)
    BY <2>1
  <2> DEFINE given == [ev EXCEPT !.valid = @ \ {p}]
  <2>3. given \in Evidence /\ given.observed = ev.observed /\ given.obsValid = ev.obsValid
    BY DEF Evidence
  <2> HIDE DEF given
  <2>4. ev' = writeRegs(given, p, value, length = 2, outcome) BY <2>2 DEF given
  <2>5. ev' \in {given, invalidateShadowPair(given, p), establishShadowPair(given, p, value)}
    BY <2>4 DEF writeRegs
  <2>6. ev'.observed = given.observed /\ ev'.obsValid = given.obsValid
    BY <2>3, <2>5, WritesObserveNothing
  <2> QED BY <1>0, <2>3, <2>6
<1>4. CASE PairReadStep
  <2>1. PICK p \in WritablePairs, outcome \in ReadOutcome[2] :
          ev' = IF outcome.ok THEN recordPairObservation(ev, p, chip.regs[p])
                              ELSE failedPairRead(ev, p)
    BY <1>4 DEF PairReadStep, readPair
  <2>2. CASE outcome.ok BY <2>1, <2>2, ReadbackObserves
  <2>3. CASE ~outcome.ok BY <1>0, <2>1, <2>3 DEF failedPairRead, Evidence
  <2> QED BY <2>2, <2>3
<1>5. CASE PortReadStep
  <2>1. PICK p \in WritablePairs, port \in Ports, outcome \in ReadOutcome[1] :
          ev' = IF outcome.ok
                THEN syncObservedRegister(ev, p, port, portValue(chip.regs[p], port)) ELSE ev
    BY <1>5 DEF PortReadStep, readWritablePortRegister
  <2>2. CASE outcome.ok /\ pair # p
    BY <1>0, <2>1, <2>2 DEF syncObservedRegister, Evidence, Images
  <2>3. CASE outcome.ok /\ pair = p
    BY <2>1, <2>3 DEF syncObservedRegister, Evidence, ObservedWell
  <2>4. CASE ~outcome.ok BY <1>0, <2>1, <2>4
  <2> QED BY <2>2, <2>3, <2>4
<1>6. CASE InputReadStep
  BY <1>0, <1>6 DEF InputReadStep, readInputRegisters, failedPairRead, Evidence
<1>7. CASE ParkStep
  BY <1>0, <1>7 DEF ParkStep, recordInputs, syncInputs, Evidence, WritablePairs
<1>8. CASE ProbeStep BY <1>0, <1>8 DEF ProbeStep
<1> QED BY <1>1, <1>2, <1>3, <1>4, <1>5, <1>6, <1>7, <1>8 DEF CallbackStep

\* So does a transfer of the operation.
LEMMA TransferObserves ==
  ASSUME ev \in Evidence, executeOperationTransfer, NEW pair \in WritablePairs
  PROVE  ObservedWell(pair)
<1> DEFINE Kept == ev'.observed[pair] = ev.observed[pair] /\ ev'.obsValid \cap WritablePairs \subseteq ev.obsValid
<1>0. Kept => ObservedWell(pair) BY KeptIsWell
<1>1. CASE applyPair
  <2>1. PICK p \in WritablePairs, outcome \in WriteOutcome[3] :
          ev' = writeRegs(ev, p, slot.expected[p], TRUE, outcome)
    BY <1>1 DEF applyPair, writePairTo
  <2>2. ev' \in {ev, invalidateShadowPair(ev, p), establishShadowPair(ev, p, slot.expected[p])}
    BY <2>1 DEF writeRegs
  <2>3. ev'.observed = ev.observed /\ ev'.obsValid = ev.obsValid BY <2>2, WritesObserveNothing
  <2> QED BY <1>0, <2>3
<1>2. CASE verifyPair
  <2>1. PICK p \in WritablePairs, outcome \in ReadOutcome[2] :
          ev' = IF outcome.ok
                THEN compareObserved(recordPairObservation(ev, p, chip.regs[p]), p, slot.expected[p])
                ELSE failedPairRead(ev, p)
    BY <1>2 DEF verifyPair
  <2>2. CASE outcome.ok
    <3> DEFINE e == recordPairObservation(ev, p, chip.regs[p])
    <3>1. ev' = compareObserved(e, p, slot.expected[p]) BY <2>1, <2>2
    <3>2. ev' \in {e, establishShadowPair(e, p, e.observed[p])} BY <3>1 DEF compareObserved
    <3> QED BY <3>2, ReadbackObserves
  <2>3. CASE ~outcome.ok BY <1>0, <2>1, <2>3 DEF failedPairRead, Evidence
  <2> QED BY <2>2, <2>3
<1>3. CASE readInputsTransfer
  BY <1>0, <1>3 DEF readInputsTransfer, recordInputs, failedPairRead, Evidence, WritablePairs
<1>4. CASE parkTransfer BY <1>0, <1>4 DEF parkTransfer
<1> QED BY <1>1, <1>2, <1>3, <1>4 DEF executeOperationTransfer

\* A pair that the driver reports as observed is one the chip held at the time of one
\* transfer: readings of single bytes, at different times, never make one up.
THEOREM ObservationsAreWhole == Spec => ObservationWhole
<1> DEFINE Whole == \A pair \in WritablePairs \cap ev'.obsValid :
                      (pair \notin ev.obsValid \/ ev'.observed[pair] # ev.observed[pair])
                        => ev'.observed[pair] = chip.regs[pair]
<1>1. IInv /\ [Next]_vars => [Whole]_vars
  <2> SUFFICES ASSUME IInv, Next, NEW pair \in WritablePairs
               PROVE  ObservedWell(pair)
    BY DEF ObservedWell
  <2>1. ev \in Evidence BY DEF IInv, TypeOK
  <2>2. CASE SyncCall BY <2>1, <2>2, SyncCallStep, CallbackObserves DEF IInv
  <2>3. CASE ContinueCall BY <2>1, <2>3, ContinueCallStep, CallbackObserves DEF IInv
  <2>4. CASE executeOperationTransfer BY <2>1, <2>4, TransferObserves
  <2>5. CASE bind \/ detach
    <3>1. ev'.obsValid = {} BY <2>5 DEF bind, detach, NoEvidence
    <3> QED BY <3>1 DEF ObservedWell
  <2>6. CASE \/ DeadlinePasses \/ PowerCycle
             \/ OperationCall /\ ~(executeOperationTransfer \/ bind \/ detach)
    <3>1. ev' = ev
      BY <2>6 DEF DeadlinePasses, PowerCycle, OperationCall, startApplyImage, startVerifyImage,
         startReadInputs, start, takeOperationResult, cancelOperation, timeoutOperation,
         requestTerminal, pollOperation, pollWithoutBudget
    <3> QED BY <3>1 DEF ObservedWell
  <2> QED BY <2>2, <2>3, <2>4, <2>5, <2>6 DEF Next
<1> QED BY <1>1, InvariantHolds, PTL DEF ObservationWhole, Spec

=============================================================================
