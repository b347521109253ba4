------------------------------ MODULE Evidence ------------------------------
(***************************************************************************)
(* What the driver knows about the chip.  The protocol shadow is the value *)
(* last written to each writable pair; `valid` names the pairs on which a  *)
(* cached read-modify-write may rely, `uncertain` those a write may have   *)
(* changed without proof.  The observation half (observed, obsValid,       *)
(* mismatch, obsUncertain) is _observed; it is evidence for the caller and *)
(* never intent.  Input values and timestamps are left out: no decision of *)
(* the driver depends on them.                                             *)
(***************************************************************************)
EXTENDS Registers

Evidence == [shadow : Images, valid : SUBSET WritablePairs,
             uncertain : SUBSET WritablePairs, mismatch : SUBSET WritablePairs,
             observed : Images, obsValid : SUBSET Pairs,
             obsUncertain : SUBSET WritablePairs]

\* No evidence at all, over a given shadow.
NoEvidence(shadow) ==
  [shadow |-> shadow, valid |-> {}, uncertain |-> {}, mismatch |-> {},
   observed |-> PorImage, obsValid |-> {}, obsUncertain |-> {}]

invalidateShadowPair(e, pair) ==
  [e EXCEPT !.valid = @ \ {pair},
            !.uncertain = @ \cup {pair},
            !.obsUncertain = e.uncertain \cup {pair}]

\* Mistake: the contradiction of an earlier readback stays on record.
establishKeepingMismatch(e, pair, value) ==
  [e EXCEPT !.shadow[pair] = value, !.valid = @ \cup {pair}, !.uncertain = @ \ {pair},
            !.obsUncertain = e.uncertain \ {pair}]

establishShadowPair(e, pair, value) ==
  [e EXCEPT !.shadow[pair] = value,
            !.valid = @ \cup {pair},
            !.uncertain = @ \ {pair},
            !.obsUncertain = e.uncertain \ {pair},
            !.mismatch = @ \ {pair}]

\* Both bytes of a writable pair were read in one transfer.
recordPairObservation(e, pair, value) ==
  LET contradicted == pair \in e.valid /\ value # e.shadow[pair] IN
  [e EXCEPT !.observed[pair] = value,
            !.mismatch = IF contradicted THEN @ \cup {pair} ELSE @ \ {pair},
            !.valid = IF contradicted THEN @ \ {pair} ELSE @,
            !.obsValid = @ \cup {pair},
            !.obsUncertain = e.uncertain]

recordInputs(e) ==
  [e EXCEPT !.obsValid = @ \cup {"INPUTS"}, !.obsUncertain = e.uncertain]

\* Mistake: a one-byte read counts as an observation of the pair.
syncAsWholePair(e, pair, port, value) ==
  recordPairObservation(e, pair, withPort(e.observed[pair], port, value))

\* One byte of a writable pair was read: it can contradict the shadow, but the
\* pair is no longer an observation made in one transfer.
syncObservedRegister(e, pair, port, value) ==
  LET contradicted == pair \in e.valid /\ value # portValue(e.shadow[pair], port) IN
  [e EXCEPT !.observed[pair] = withPort(@, port, value),
            !.mismatch = IF contradicted THEN @ \cup {pair} ELSE @,
            !.valid = IF contradicted THEN @ \ {pair} ELSE @,
            !.obsValid = @ \ {pair},
            !.obsUncertain = e.uncertain]

syncInputs(e) ==
  [e EXCEPT !.obsValid = @ \ {"INPUTS"}, !.obsUncertain = e.uncertain]

\* A callback that failed to read both bytes voids the pair's old observation.
failedPairRead(e, pair) == [e EXCEPT !.obsValid = @ \ {pair}]

\* What a register write leaves behind, once the effect of its one callback is
\* known (_writeRegs after the callback).
writeRegs(e, pair, intended, establishWholePair, outcome) ==
  CASE outcome.effect = "MAY_HAVE_COMMITTED" -> invalidateShadowPair(e, pair)
    [] outcome.ok /\ outcome.effect = "COMMITTED" /\ establishWholePair
         -> establishShadowPair(e, pair, intended)
    [] OTHER -> e

\* Mistake: the other port's byte is adopted from a shadow that was not valid.
writePortAdoptingOther(e, pair, intended, outcome) ==
  writeRegs(e, pair, intended, TRUE, outcome)

\* A one-port write keeps a whole-pair shadow only where there was one.
writePort(e, pair, intended, outcome) ==
  LET pairWasValid == pair \in e.valid \ e.uncertain
      written == writeRegs(e, pair, intended, FALSE, outcome)
  IN  IF outcome.ok /\ pairWasValid
      THEN establishShadowPair(written, pair, intended) ELSE written

=============================================================================
