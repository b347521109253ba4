--------------------------- MODULE PCA9555_proofs ---------------------------
(***************************************************************************)
(* The safety theorems about the driver, for any pins and ports, any honest*)
(* transport, any callers and any loss of power.                           *)
(*                                                                         *)
(* The lemmas about the operators come first, each stated once: what honest*)
(* transports can report, that every update of the evidence keeps it       *)
(* consistent, and that none of them makes a false shadow valid.  The many *)
(* synchronous calls are then reduced to eight kinds of callback           *)
(* (CallbackStep).  The inductive invariant IInv adds to the properties    *)
(* what a call in progress may still do and what the slot's phase implies; *)
(* each action preserves it; the theorems at the end follow.               *)
(***************************************************************************)
EXTENDS PCA9555, TLAPS

-----------------------------------------------------------------------------
(* The operators *)

\* What an honest write leaves behind: success is complete, and a write that was
\* proven not attempted reached no register.
LEMMA WriteOutcomeFacts ==
  ASSUME NEW length \in 1..3, NEW outcome \in WriteOutcome[length]
  PROVE  /\ outcome.ok \in BOOLEAN
         /\ outcome.effect \in {"COMMITTED", "NOT_ATTEMPTED", "MAY_HAVE_COMMITTED"}
         /\ outcome.accepted \in 0..length
         /\ outcome.ok => outcome.effect = "COMMITTED"
         /\ outcome.effect = "COMMITTED" => outcome.ok /\ outcome.accepted = length
         /\ outcome.effect = "NOT_ATTEMPTED" => outcome.accepted <= 1
<1>1. outcome \in WriteOutcomes(length)
  <2>1. CASE length = 1 BY <2>1 DEF WriteOutcome
  <2>2. CASE length = 2 BY <2>2 DEF WriteOutcome
  <2>3. CASE length = 3 BY <2>3 DEF WriteOutcome
  <2> QED BY <2>1, <2>2, <2>3
<1>2. PICK attempt \in HonestWrites(length) :
        outcome = [ok |-> Complete(attempt[1], length, 0),
                   effect |-> RegisterWriteEffect(attempt[1], length),
                   accepted |-> attempt[2]]
  BY <1>1 DEF WriteOutcomes
<1> DEFINE result == attempt[1]
           accepted == attempt[2]
<1>3. /\ result \in TransportResult
      /\ accepted \in 0..length
      /\ HonestWrite(result, length, accepted)
  BY DEF HonestWrites
<1> HIDE DEF result, accepted
<1>4. /\ outcome.ok = Complete(result, length, 0)
      /\ outcome.effect = RegisterWriteEffect(result, length)
      /\ outcome.accepted = accepted
  BY <1>2 DEF result, accepted
<1>5. Complete(result, length, 0) \in BOOLEAN
  BY DEF Complete
<1>6. CASE Complete(result, length, 0)
  <2>1. RegisterWriteEffect(result, length) = "COMMITTED"
    BY <1>6 DEF RegisterWriteEffect
  <2>2. accepted = length
    BY <1>3, <1>6 DEF Complete, HonestWrite, TransportResult
  <2> QED BY <1>3, <1>4, <1>6, <2>1, <2>2
<1>7. CASE ~Complete(result, length, 0)
  <2>1. RegisterWriteEffect(result, length) \in {"NOT_ATTEMPTED", "MAY_HAVE_COMMITTED"}
    BY <1>7 DEF RegisterWriteEffect
  <2>2. RegisterWriteEffect(result, length) = "NOT_ATTEMPTED" => accepted <= 1
    BY <1>3, <1>7 DEF RegisterWriteEffect, HonestWrite
  <2> QED BY <1>3, <1>4, <1>5, <1>7, <2>1, <2>2
<1> QED BY <1>6, <1>7

\* What an honest read leaves behind: success, or a reported byte, means the
\* command was accepted, and NOT_ATTEMPTED that it was not.
LEMMA ReadOutcomeFacts ==
  ASSUME NEW length \in 1..2, NEW outcome \in ReadOutcome[length]
  PROVE  /\ outcome.ok \in BOOLEAN
         /\ outcome.effect \in {"COMMITTED", "NOT_ATTEMPTED", "MAY_HAVE_COMMITTED"}
         /\ outcome.accepted \in 0..1
         /\ outcome.ok => outcome.effect = "COMMITTED"
         /\ outcome.effect = "NOT_ATTEMPTED" => outcome.accepted = 0
<1>1. outcome \in ReadOutcomes(length)
  <2>1. CASE length = 1 BY <2>1 DEF ReadOutcome
  <2>2. CASE length = 2 BY <2>2 DEF ReadOutcome
  <2> QED BY <2>1, <2>2
<1>2. PICK attempt \in HonestReads(length) :
        outcome = [ok |-> Complete(attempt[1], 1, length),
                   effect |-> CommandEffect(attempt[1]),
                   accepted |-> attempt[2]]
  BY <1>1 DEF ReadOutcomes
<1> DEFINE result == attempt[1]
           accepted == attempt[2]
<1>3. /\ result \in TransportResult
      /\ accepted \in 0..1
      /\ HonestRead(result, length, accepted)
  BY DEF HonestReads
<1> HIDE DEF result, accepted
<1>4. /\ outcome.ok = Complete(result, 1, length)
      /\ outcome.effect = CommandEffect(result)
      /\ outcome.accepted = accepted
  BY <1>2 DEF result, accepted
<1>5. Complete(result, 1, length) => CommandEffect(result) = "COMMITTED"
  BY DEF Complete, CommandEffect
<1>6. CommandEffect(result) \in {"COMMITTED", "NOT_ATTEMPTED", "MAY_HAVE_COMMITTED"}
  BY DEF CommandEffect
<1>7. CommandEffect(result) = "NOT_ATTEMPTED" => accepted = 0
  BY <1>3 DEF CommandEffect, HonestRead
<1>8. Complete(result, 1, length) \in BOOLEAN
  BY DEF Complete
<1> QED BY <1>3, <1>4, <1>5, <1>6, <1>7, <1>8

-----------------------------------------------------------------------------

Consistent(e) ==
  /\ e.valid \cap (e.uncertain \cup e.mismatch) = {}
  /\ e.obsUncertain = e.uncertain
  /\ \A pair \in e.mismatch \cap e.obsValid : e.observed[pair] # e.shadow[pair]

\* A binding begins with consistent evidence.
LEMMA NoEvidenceOK ==
  ASSUME NEW shadow \in Images
  PROVE  NoEvidence(shadow) \in Evidence /\ Consistent(NoEvidence(shadow))
BY DEF NoEvidence, Evidence, Consistent, Images, PorImage, Values

\* Invalidating a pair keeps the evidence consistent.
LEMMA InvalidateOK ==
  ASSUME NEW e \in Evidence, NEW pair \in WritablePairs, Consistent(e)
  PROVE  invalidateShadowPair(e, pair) \in Evidence /\ Consistent(invalidateShadowPair(e, pair))
<1> DEFINE f == invalidateShadowPair(e, pair)
<1>1. f \in Evidence
  BY DEF invalidateShadowPair, Evidence
<1>2. Consistent(f)
  BY DEF invalidateShadowPair, Evidence, Consistent
<1> QED BY <1>1, <1>2

\* Establishing a pair keeps the evidence consistent: doubt and contradiction go.
LEMMA EstablishOK ==
  ASSUME NEW e \in Evidence, NEW pair \in WritablePairs, NEW value \in Values, Consistent(e)
  PROVE  /\ establishShadowPair(e, pair, value) \in Evidence
         /\ Consistent(establishShadowPair(e, pair, value))
<1> DEFINE f == establishShadowPair(e, pair, value)
<1>1. f \in Evidence
  BY DEF establishShadowPair, Evidence, Images
<1>2. Consistent(f)
  BY DEF establishShadowPair, Evidence, Consistent, Images
<1> QED BY <1>1, <1>2

\* A whole readback keeps the evidence consistent.
LEMMA RecordPairOK ==
  ASSUME NEW e \in Evidence, NEW pair \in WritablePairs, NEW value \in Values, Consistent(e)
  PROVE  /\ recordPairObservation(e, pair, value) \in Evidence
         /\ Consistent(recordPairObservation(e, pair, value))
<1> DEFINE f == recordPairObservation(e, pair, value)
<1>1. f \in Evidence
  BY DEF recordPairObservation, Evidence, Images, Pairs
<1>2. Consistent(f)
  BY DEF recordPairObservation, Evidence, Consistent, Images, Pairs
<1> QED BY <1>1, <1>2

\* So does the readback of one register.
LEMMA SyncRegisterOK ==
  ASSUME NEW e \in Evidence, NEW pair \in WritablePairs, NEW port \in Ports,
         NEW value \in SUBSET PinsOf(port), Consistent(e)
  PROVE  /\ syncObservedRegister(e, pair, port, value) \in Evidence
         /\ Consistent(syncObservedRegister(e, pair, port, value))
<1> DEFINE f == syncObservedRegister(e, pair, port, value)
<1>1. e.observed[pair] \in Values
  BY DEF Evidence, Images
<1>2. withPort(e.observed[pair], port, value) \in Values
  BY <1>1 DEF withPort, PinsOf, Values
<1>3. f \in Evidence
  BY <1>2 DEF syncObservedRegister, Evidence, Images, Pairs
<1>4. Consistent(f)
  BY DEF syncObservedRegister, Evidence, Consistent, Images, Pairs
<1> QED BY <1>3, <1>4

\* Input reads say nothing about the writable pairs.
LEMMA InputEvidenceOK ==
  ASSUME NEW e \in Evidence, Consistent(e)
  PROVE  /\ recordInputs(e) \in Evidence /\ Consistent(recordInputs(e))
         /\ syncInputs(e) \in Evidence /\ Consistent(syncInputs(e))
         /\ \A pair \in Pairs : failedPairRead(e, pair) \in Evidence /\ Consistent(failedPairRead(e, pair))
<1>1. recordInputs(e) \in Evidence /\ Consistent(recordInputs(e))
  BY DEF recordInputs, Evidence, Consistent, Pairs, WritablePairs
<1>2. syncInputs(e) \in Evidence /\ Consistent(syncInputs(e))
  BY DEF syncInputs, Evidence, Consistent, Pairs, WritablePairs
<1>3. ASSUME NEW pair \in Pairs
      PROVE  failedPairRead(e, pair) \in Evidence /\ Consistent(failedPairRead(e, pair))
  BY DEF failedPairRead, Evidence, Consistent, Pairs, WritablePairs
<1> QED BY <1>1, <1>2, <1>3

\* Whatever a pair write reports, the evidence stays consistent.
LEMMA WriteRegsOK ==
  ASSUME NEW e \in Evidence, NEW pair \in WritablePairs, NEW value \in Values,
         NEW whole \in BOOLEAN, NEW outcome, Consistent(e)
  PROVE  /\ writeRegs(e, pair, value, whole, outcome) \in Evidence
         /\ Consistent(writeRegs(e, pair, value, whole, outcome))
BY InvalidateOK, EstablishOK DEF writeRegs

\* Whatever a one-port write reports, the evidence stays consistent.
LEMMA WritePortOK ==
  ASSUME NEW e \in Evidence, NEW pair \in WritablePairs, NEW value \in Values,
         NEW outcome, Consistent(e)
  PROVE  /\ writePort(e, pair, value, outcome) \in Evidence
         /\ Consistent(writePort(e, pair, value, outcome))
BY WriteRegsOK, EstablishOK DEF writePort

-----------------------------------------------------------------------------

Sound(e, regs, reset) ==
  \A pair \in e.valid : \A pin \in Pins \ reset[pair] :
    pin \in e.shadow[pair] <=> pin \in regs[pair]

Resets == [WritablePairs -> Values]

ResetLess(reset, pair, pins) == [reset EXCEPT ![pair] = @ \ pins]

\* The bits a cut write reaches are pins.
LEMMA ReachedIsPins ==
  ASSUME NEW port \in Ports, NEW accepted \in 0..MaxTxBytes
  PROVE  Reached(port, accepted) \in Values
BY DEF Reached, PinsOf, Values, MaxTxBytes

\* A write leaves a chip.
LEMMA AcceptWriteTyped ==
  ASSUME NEW c \in Chip, NEW pair \in WritablePairs, NEW firstPort \in Ports,
         NEW value \in Values, NEW accepted \in 0..MaxTxBytes
  PROVE  AcceptWrite(c, pair, firstPort, value, accepted) \in Chip
<1>1. Reached(firstPort, accepted) \in Values
  BY ReachedIsPins
<1>2. Overlay(c.regs[pair], Reached(firstPort, accepted), value) \in Values
  BY <1>1 DEF Overlay, Chip, Images, Values
<1>3. AcceptCommand(c, pair, accepted).pointer \in Pairs
  BY DEF AcceptCommand, Chip, Pairs
<1> QED BY <1>2, <1>3 DEF AcceptWrite, Chip, Images

\* A command byte leaves a chip.
LEMMA AcceptCommandTyped ==
  ASSUME NEW c \in Chip, NEW pair \in Pairs, NEW accepted \in 0..MaxTxBytes
  PROVE  AcceptCommand(c, pair, accepted) \in Chip /\ AcceptCommand(c, pair, accepted).regs = c.regs
BY DEF AcceptCommand, Chip

\* The key fact about a pair write: whatever part of it the chip accepted and
\* whatever the honest transport reported, a shadow still valid is true.
LEMMA WritePairSound ==
  ASSUME NEW e \in Evidence, NEW c \in Chip, NEW reset \in Resets, Sound(e, c.regs, reset),
         NEW pair \in WritablePairs, NEW value \in Values, NEW outcome \in WriteOutcome[3]
  PROVE  Sound(writeRegs(e, pair, value, TRUE, outcome),
               AcceptWrite(c, pair, 0, value, outcome.accepted).regs,
               ResetLess(reset, pair, Reached(0, outcome.accepted)))
<1> DEFINE f == writeRegs(e, pair, value, TRUE, outcome)
           regs == AcceptWrite(c, pair, 0, value, outcome.accepted).regs
           left == ResetLess(reset, pair, Reached(0, outcome.accepted))
<1>1. /\ outcome.ok \in BOOLEAN
      /\ outcome.effect \in {"COMMITTED", "NOT_ATTEMPTED", "MAY_HAVE_COMMITTED"}
      /\ outcome.accepted \in 0..3
      /\ outcome.ok => outcome.effect = "COMMITTED"
      /\ outcome.effect = "COMMITTED" => outcome.ok /\ outcome.accepted = 3
      /\ outcome.effect = "NOT_ATTEMPTED" => outcome.accepted <= 1
  BY WriteOutcomeFacts
<1>2. \A other \in WritablePairs \ {pair} : regs[other] = c.regs[other] /\ left[other] = reset[other]
  BY DEF AcceptWrite, Chip, Images, ResetLess, Resets
<1>3. CASE outcome.effect = "MAY_HAVE_COMMITTED"
  <2>1. f = invalidateShadowPair(e, pair)
    BY <1>3 DEF writeRegs
  <2>2. f.valid = e.valid \ {pair} /\ f.shadow = e.shadow
    BY <2>1 DEF invalidateShadowPair, Evidence
  <2> QED BY <1>2, <2>2 DEF Sound, Evidence
<1>4. CASE outcome.effect = "COMMITTED"
  <2>1. f = establishShadowPair(e, pair, value)
    BY <1>1, <1>4 DEF writeRegs
  <2>2. f.valid = e.valid \cup {pair} /\ f.shadow = [e.shadow EXCEPT ![pair] = value]
    BY <2>1 DEF establishShadowPair, Evidence
  <2>3. regs[pair] = value
    BY <1>1, <1>4 DEF AcceptWrite, Chip, Images, Overlay, Reached, Values
  <2>4. f.shadow[pair] = value /\ \A other \in WritablePairs \ {pair} : f.shadow[other] = e.shadow[other]
    BY <2>2 DEF Evidence, Images
  <2> QED BY <1>2, <2>2, <2>3, <2>4 DEF Sound, Evidence
<1>5. CASE outcome.effect \notin {"MAY_HAVE_COMMITTED", "COMMITTED"}
  <2>1. f = e
    BY <1>5 DEF writeRegs
  <2>2. outcome.accepted <= 1
    BY <1>1, <1>5
  <2>3. Reached(0, outcome.accepted) = {}
    BY <1>1, <2>2 DEF Reached
  <2>4. regs[pair] = c.regs[pair] /\ left[pair] = reset[pair]
    BY <2>3 DEF AcceptWrite, Chip, Images, Overlay, ResetLess, Resets
  <2> QED BY <1>2, <2>1, <2>4 DEF Sound, Evidence
<1> QED BY <1>3, <1>4, <1>5

\* The same of a one-port write, whose intended pair comes from the shadow.
LEMMA WritePortSound ==
  ASSUME NEW e \in Evidence, Consistent(e),
         NEW c \in Chip, NEW reset \in Resets, Sound(e, c.regs, reset),
         NEW pair \in WritablePairs, NEW port \in Ports, NEW value \in SUBSET PinsOf(port),
         NEW outcome \in WriteOutcome[2]
  PROVE  Sound(writePort(e, pair, withPort(e.shadow[pair], port, value), outcome),
               AcceptWrite(c, pair, port, value, outcome.accepted).regs,
               ResetLess(reset, pair, Reached(port, outcome.accepted)))
<1> DEFINE intended == withPort(e.shadow[pair], port, value)
           f == writePort(e, pair, intended, outcome)
           regs == AcceptWrite(c, pair, port, value, outcome.accepted).regs
           left == ResetLess(reset, pair, Reached(port, outcome.accepted))
<1>1. /\ outcome.ok \in BOOLEAN
      /\ outcome.effect \in {"COMMITTED", "NOT_ATTEMPTED", "MAY_HAVE_COMMITTED"}
      /\ outcome.accepted \in 0..2
      /\ outcome.ok => outcome.effect = "COMMITTED"
      /\ outcome.effect = "COMMITTED" => outcome.ok /\ outcome.accepted = 2
      /\ outcome.effect = "NOT_ATTEMPTED" => outcome.accepted <= 1
  BY WriteOutcomeFacts
<1>2. \A other \in WritablePairs \ {pair} : regs[other] = c.regs[other] /\ left[other] = reset[other]
  BY DEF AcceptWrite, Chip, Images, ResetLess, Resets
<1>3. CASE outcome.effect = "MAY_HAVE_COMMITTED"
  <2>1. f = invalidateShadowPair(e, pair)
    BY <1>1, <1>3 DEF writeRegs, writePort
  <2>2. f.valid = e.valid \ {pair} /\ f.shadow = e.shadow
    BY <2>1 DEF invalidateShadowPair, Evidence
  <2> QED BY <1>2, <2>2 DEF Sound, Evidence
<1>4. CASE outcome.effect = "COMMITTED"
  <2>1. outcome.ok /\ Reached(port, outcome.accepted) = PinsOf(port)
    BY <1>1, <1>4 DEF Reached
  <2>2. writeRegs(e, pair, intended, FALSE, outcome) = e
    BY <1>4 DEF writeRegs
  <2>3. CASE pair \notin e.valid
    <3>1. f = e
      BY <2>2, <2>3 DEF writePort
    <3> QED BY <1>2, <2>3, <3>1 DEF Sound, Evidence
  <2>4. CASE pair \in e.valid
    <3>1. f = establishShadowPair(e, pair, intended)
      BY <2>1, <2>2, <2>4 DEF writePort, Consistent
    <3>2. f.valid = e.valid /\ f.shadow = [e.shadow EXCEPT ![pair] = intended]
      BY <2>4, <3>1 DEF establishShadowPair, Evidence
    <3>3. /\ regs[pair] = (c.regs[pair] \ PinsOf(port)) \cup (value \cap PinsOf(port))
          /\ left[pair] = reset[pair] \ PinsOf(port)
      BY <2>1 DEF AcceptWrite, Chip, Images, Overlay, ResetLess, Resets
    <3>4. f.shadow[pair] = (e.shadow[pair] \ PinsOf(port)) \cup value
      BY <3>2 DEF withPort, Evidence, Images
    <3>5. \A other \in WritablePairs \ {pair} : f.shadow[other] = e.shadow[other]
      BY <3>2 DEF Evidence, Images
    <3>6. \A pin \in Pins \ left[pair] : pin \in f.shadow[pair] <=> pin \in regs[pair]
      BY <2>4, <3>3, <3>4 DEF Sound
    <3> QED BY <1>2, <3>2, <3>5, <3>6 DEF Sound, Evidence
  <2> QED BY <2>3, <2>4
<1>5. CASE outcome.effect = "NOT_ATTEMPTED"
  <2>1. f = e
    BY <1>1, <1>5 DEF writeRegs, writePort
  <2>2. Reached(port, outcome.accepted) = {}
    BY <1>1, <1>5 DEF Reached
  <2>3. regs[pair] = c.regs[pair] /\ left[pair] = reset[pair]
    BY <2>2 DEF AcceptWrite, Chip, Images, Overlay, ResetLess, Resets
  <2> QED BY <1>2, <2>1, <2>3 DEF Sound, Evidence
<1> QED BY <1>1, <1>3, <1>4, <1>5

\* The same of a raw write, which starts at either port and gives up the shadow first.
LEMMA RawWriteSound ==
  ASSUME NEW e \in Evidence, NEW c \in Chip, NEW reset \in Resets, Sound(e, c.regs, reset),
         NEW pair \in WritablePairs, NEW first \in Ports, NEW length \in 1..2,
         NEW value \in Values, NEW outcome \in WriteOutcome[length + 1]
  PROVE  Sound(writeRegs([e EXCEPT !.valid = @ \ {pair}], pair, value, length = 2, outcome),
               AcceptWrite(c, pair, first, value, outcome.accepted).regs,
               ResetLess(reset, pair, Reached(first, outcome.accepted)))
<1> DEFINE d == [e EXCEPT !.valid = @ \ {pair}]
           f == writeRegs(d, pair, value, length = 2, outcome)
           regs == AcceptWrite(c, pair, first, value, outcome.accepted).regs
           left == ResetLess(reset, pair, Reached(first, outcome.accepted))
<1>1. \A other \in WritablePairs \ {pair} : regs[other] = c.regs[other] /\ left[other] = reset[other]
  BY DEF AcceptWrite, Chip, Images, ResetLess, Resets
<1>2. d.valid = e.valid \ {pair} /\ d.shadow = e.shadow /\ d \in Evidence
  BY DEF Evidence
<1> SUFFICES Sound(f, regs, left)
  OBVIOUS
<1> HIDE DEF d
<1>3. CASE outcome.ok /\ outcome.effect = "COMMITTED" /\ length = 2
  <2>1. f = establishShadowPair(d, pair, value)
    BY <1>3 DEF writeRegs
  <2>2. f.valid = d.valid \cup {pair} /\ f.shadow = [d.shadow EXCEPT ![pair] = value]
    BY <1>2, <2>1 DEF establishShadowPair, Evidence
  <2>3. outcome.accepted = 3
    BY <1>3, WriteOutcomeFacts
  <2>4. regs[pair] = value
    BY <2>3 DEF AcceptWrite, Chip, Images, Overlay, Reached, Values
  <2>5. f.shadow[pair] = value /\ \A other \in WritablePairs \ {pair} : f.shadow[other] = e.shadow[other]
    BY <1>2, <2>2 DEF Evidence, Images
  <2> QED BY <1>1, <1>2, <2>2, <2>4, <2>5 DEF Sound, Evidence
<1>4. CASE ~(outcome.ok /\ outcome.effect = "COMMITTED" /\ length = 2)
  <2>1. f = d \/ f = invalidateShadowPair(d, pair)
    BY <1>4 DEF writeRegs
  <2>2. f.valid = e.valid \ {pair} /\ f.shadow = e.shadow
    BY <1>2, <2>1 DEF invalidateShadowPair, Evidence
  <2> QED BY <1>1, <2>2 DEF Sound, Evidence
<1> QED BY <1>3, <1>4

\* A whole readback keeps a sound shadow sound: a contradicted one is dropped.
LEMMA RecordPairSound ==
  ASSUME NEW e \in Evidence, NEW c \in Chip, NEW reset \in Resets, Sound(e, c.regs, reset),
         NEW pair \in WritablePairs
  PROVE  Sound(recordPairObservation(e, pair, c.regs[pair]), c.regs, [reset EXCEPT ![pair] = {}])
<1> DEFINE f == recordPairObservation(e, pair, c.regs[pair])
<1>1. f.shadow = e.shadow
  BY DEF recordPairObservation, Evidence
<1>2. f.valid = IF pair \in e.valid /\ c.regs[pair] # e.shadow[pair] THEN e.valid \ {pair} ELSE e.valid
  BY DEF recordPairObservation, Evidence
<1>3. pair \in f.valid => e.shadow[pair] = c.regs[pair]
  BY <1>2
<1>4. \A other \in WritablePairs \ {pair} : [reset EXCEPT ![pair] = {}][other] = reset[other]
  BY DEF Resets
<1> QED BY <1>1, <1>2, <1>3, <1>4 DEF Sound, Evidence

\* A readback that matches the caller's image may establish it.
LEMMA CompareSound ==
  ASSUME NEW e \in Evidence, NEW c \in Chip, NEW reset \in Resets, Sound(e, c.regs, reset),
         NEW pair \in WritablePairs, NEW expected \in Values, e.observed[pair] = c.regs[pair]
  PROVE  Sound(compareObserved(e, pair, expected), c.regs, reset)
<1>1. CASE e.observed[pair] = expected
  <2> DEFINE f == establishShadowPair(e, pair, expected)
  <2>1. f.valid = e.valid \cup {pair} /\ f.shadow = [e.shadow EXCEPT ![pair] = expected]
    BY DEF establishShadowPair, Evidence
  <2>2. f.shadow[pair] = c.regs[pair] /\ \A other \in WritablePairs \ {pair} : f.shadow[other] = e.shadow[other]
    BY <1>1, <2>1 DEF Evidence, Images
  <2> QED BY <1>1, <2>1, <2>2 DEF compareObserved, Sound, Evidence
<1>2. CASE e.observed[pair] # expected
  BY <1>2 DEF compareObserved
<1> QED BY <1>1, <1>2

\* The readback of one register keeps a sound shadow sound.
LEMMA SyncRegisterSound ==
  ASSUME NEW e \in Evidence, NEW c \in Chip, NEW reset \in Resets, Sound(e, c.regs, reset),
         NEW pair \in WritablePairs, NEW port \in Ports
  PROVE  Sound(syncObservedRegister(e, pair, port, portValue(c.regs[pair], port)), c.regs,
               ResetLess(reset, pair, PinsOf(port)))
<1> DEFINE value == portValue(c.regs[pair], port)
           f == syncObservedRegister(e, pair, port, value)
<1>1. f.shadow = e.shadow
  BY DEF syncObservedRegister, Evidence
<1>2. f.valid = IF pair \in e.valid /\ value # portValue(e.shadow[pair], port) THEN e.valid \ {pair} ELSE e.valid
  BY DEF syncObservedRegister, Evidence
<1>3. pair \in f.valid => pair \in e.valid /\ e.shadow[pair] \cap PinsOf(port) = c.regs[pair] \cap PinsOf(port)
  BY <1>2 DEF portValue
<1>4. /\ \A other \in WritablePairs \ {pair} : ResetLess(reset, pair, PinsOf(port))[other] = reset[other]
      /\ ResetLess(reset, pair, PinsOf(port))[pair] = reset[pair] \ PinsOf(port)
  BY DEF ResetLess, Resets
<1>5. f.valid \subseteq e.valid
  BY <1>2
<1> HIDE DEF f
<1>6. ASSUME pair \in f.valid
      PROVE  \A pin \in Pins \ ResetLess(reset, pair, PinsOf(port))[pair] :
               pin \in f.shadow[pair] <=> pin \in c.regs[pair]
  BY <1>1, <1>3, <1>4, <1>6 DEF Sound
<1>7. ASSUME NEW other \in f.valid \ {pair}
      PROVE  \A pin \in Pins \ ResetLess(reset, pair, PinsOf(port))[other] :
               pin \in f.shadow[other] <=> pin \in c.regs[other]
  BY <1>1, <1>4, <1>5, <1>7 DEF Sound, Evidence
<1> QED BY <1>6, <1>7 DEF Sound, f

-----------------------------------------------------------------------------
(* The steps of the synchronous calls, by the kind of their callback. *)

\* A direction write that can enable an output knows the latches.
MayEnable(highest) ==
  \/ "OUTPUTS" \in ev.valid
  \/ call = Idle /\ "DIRECTIONS" \in ev.valid /\ ev.shadow["DIRECTIONS"] \subseteq highest

PairWriteStep ==
  \E pair \in WritablePairs, value \in Values, outcome \in WriteOutcome[3] :
    /\ writePairTo(pair, value, outcome)
    /\ pair = "DIRECTIONS" => value = Pins \/ MayEnable(value)
    /\ \/ call' = Idle
       \/ /\ pair = "OUTPUTS" /\ outcome.ok
          /\ \E directions \in Values : call' = Then("ENABLE_PAIR", directions, 0)

PortWriteStep ==
  \E pair \in WritablePairs, port \in Ports, outcome \in WriteOutcome[2] :
  \E value \in SUBSET PinsOf(port) :
    /\ writePortTo(pair, port, value, withPort(ev.shadow[pair], port, value), outcome)
    /\ pair = "DIRECTIONS" => value = PinsOf(port) \/ "OUTPUTS" \in ev.valid
    /\ \/ call' = Idle
       \/ /\ pair = "OUTPUTS" /\ outcome.ok /\ "OUTPUTS" \in ev.valid
          /\ \E directions \in SUBSET PinsOf(port) : call' = Then("ENABLE_PORT", directions, port)

RawWriteStep ==
  \E pair \in RawWritablePairs, first \in Ports, length \in 1..2, value \in Values :
  \E outcome \in WriteOutcome[length + 1] :
    /\ Write(pair, first, value, outcome)
    /\ ev' = writeRegs([ev EXCEPT !.valid = @ \ {pair}], pair, value, length = 2, outcome)
    /\ call' = Idle

PairReadStep ==
  \E pair \in WritablePairs, outcome \in ReadOutcome[2] :
    /\ readPair(pair, outcome)
    /\ call' \in {Idle, Then("OBSERVE_POLARITY", {}, 0), Then("OBSERVE_DIRECTIONS", {}, 0)}

PortReadStep ==
  \E pair \in WritablePairs, port \in Ports, outcome \in ReadOutcome[1] :
    readWritablePortRegister(pair, port, outcome) /\ call' = Idle

InputReadStep ==
  \E whole \in BOOLEAN, length \in 1..2 : \E outcome \in ReadOutcome[length] :
    /\ readInputRegisters(whole, outcome)
    /\ \/ call' = Idle /\ outcome.effect = "NOT_ATTEMPTED"
       \/ \E seen \in {"PARK_NOTHING", "PARK_PAIR", "PARK_PORT"} : call' = Then(seen, {}, 0)

ParkStep ==
  /\ \E outcome \in WriteOutcome[1] : parkPointer(outcome)
  /\ ev' \in {ev, recordInputs(ev), syncInputs(ev)}
  /\ call' = Idle

ProbeStep ==
  /\ \E outcome \in WriteOutcome[1] : Command("DIRECTIONS", outcome)
  /\ UNCHANGED <<ev, stale>>
  /\ call' = Idle

CallbackStep ==
  /\ ~slot.active
  /\ call.stage # "POLLING"
  /\ UNCHANGED <<bound, slot, late, owed>>
  /\ \/ PairWriteStep \/ PortWriteStep \/ RawWriteStep \/ PairReadStep
     \/ PortReadStep \/ InputReadStep \/ ParkStep \/ ProbeStep

\* What holds between the callbacks of a call.
CallInv ==
  /\ call.stage = "POLLING" => slot.active /\ call.left > 0
  /\ call.stage \notin {"IDLE", "POLLING"} => ~slot.active
  /\ call.stage \in {"ENABLE_PAIR", "ENABLE_PORT"} => "OUTPUTS" \in ev.valid
  /\ call.stage = "ENABLE_PORT" => call.value \subseteq PinsOf(call.port)

-----------------------------------------------------------------------------

\* No call in progress.
LEMMA IdleStage == Idle.stage = "IDLE" /\ Idle \in Calls
BY DEF Idle, Calls, Stages, Values, Ports, MaxBudget

\* A call that is one pair write is a PairWriteStep.
LEMMA PairWriteCall ==
  ASSUME TypeOK, NEW pair \in {"OUTPUTS", "POLARITY"}, NEW value \in Values,
         Ready, writePair(pair, value)
  PROVE  CallbackStep
<1>1. PICK outcome \in WriteOutcome[3] : writePairTo(pair, value, outcome)
  BY DEF writePair
<1>2. PairWriteStep
  BY <1>1 DEF PairWriteStep, WritablePairs, writePair, Ready
<1> QED BY <1>2, IdleStage DEF CallbackStep, writePair, Ready

\* A write of the direction pair that enables nothing new, or is preloaded.
LEMMA DirectionWriteCall ==
  ASSUME TypeOK, NEW value \in Values,
         Ready, value = Pins \/ MayEnable(value), writePair("DIRECTIONS", value)
  PROVE  CallbackStep
<1>1. PICK outcome \in WriteOutcome[3] : writePairTo("DIRECTIONS", value, outcome)
  BY DEF writePair
<1>2. PairWriteStep
  BY <1>1 DEF PairWriteStep, WritablePairs, writePair, Ready
<1> QED BY <1>2, IdleStage DEF CallbackStep, writePair, Ready

\* A call that is one one-port write is a PortWriteStep.
LEMMA PortWriteCall ==
  ASSUME TypeOK, NEW pair \in WritablePairs, NEW port \in Ports, NEW value \in SUBSET PinsOf(port),
         pair = "DIRECTIONS" => value = PinsOf(port), writePortOf(pair, port, value)
  PROVE  CallbackStep
<1>1. PICK outcome \in WriteOutcome[2] :
        writePortTo(pair, port, value, withPort(ev.shadow[pair], port, value), outcome)
  BY DEF writePortOf
<1>2. PortWriteStep
  BY <1>1 DEF PortWriteStep, writePortOf, Ready
<1> QED BY <1>2, IdleStage DEF CallbackStep, writePortOf, Ready

\* A call that is one pair read is a PairReadStep.
LEMMA PairReadCall ==
  ASSUME TypeOK, NEW pair \in WritablePairs, readWhole(pair)
  PROVE  CallbackStep
<1>1. PairReadStep
  BY DEF PairReadStep, readWhole, Ready
<1> QED BY <1>1, IdleStage DEF CallbackStep, readWhole, Ready

\* A call that is one register read is a PortReadStep.
LEMMA PortReadCall ==
  ASSUME TypeOK, NEW pair \in WritablePairs, NEW port \in Ports, readPortOf(pair, port)
  PROVE  CallbackStep
<1>1. PortReadStep
  BY DEF PortReadStep, readPortOf, Ready
<1> QED BY <1>1, IdleStage DEF CallbackStep, readPortOf, Ready

\* A raw write is a RawWriteStep.
LEMMA RawWriteCall ==
  ASSUME TypeOK, NEW pair \in Pairs, NEW first \in Ports, NEW length \in 1..2, NEW value \in Values,
         rawWrite(pair, first, length, value)
  PROVE  CallbackStep
<1>1. PICK outcome \in WriteOutcome[length + 1] :
         /\ Write(pair, first, value, outcome)
         /\ ev' = writeRegs([ev EXCEPT !.valid = @ \ {pair}], pair, value, length = 2, outcome)
  BY DEF rawWrite
<1>2. RawWriteStep
  BY <1>1 DEF RawWriteStep, rawWrite, Ready
<1> QED BY <1>2, IdleStage DEF CallbackStep, rawWrite, Ready

\* Every call that reads inputs is an InputReadStep.
LEMMA InputReadCall ==
  ASSUME TypeOK, Ready, NEW whole \in BOOLEAN, NEW length \in 1..2, NEW outcome \in ReadOutcome[length],
         NEW seen \in {"PARK_PAIR", "PARK_PORT"}, inputReadThen(whole, seen, outcome)
  PROVE  CallbackStep
<1>1. \/ call' = Idle /\ outcome.effect = "NOT_ATTEMPTED"
      \/ call' = Then(seen, {}, 0) \/ call' = Then("PARK_NOTHING", {}, 0)
  BY DEF inputReadThen
<1>2. InputReadStep
  BY <1>1 DEF InputReadStep, inputReadThen
<1> QED BY <1>2, IdleStage DEF CallbackStep, inputReadThen, Ready

\* The shadow of a pair is a set of pins.
LEMMA ShadowTyped ==
  ASSUME TypeOK
  PROVE  \A pair \in WritablePairs : ev.shadow[pair] \in Values
BY DEF TypeOK, Evidence, Images

\* A port's part of a value belongs to the port.
LEMMA PortPins ==
  \A port \in Ports : PinsOf(port) \in Values
BY DEF PinsOf, Values

\* Every pin has a port.
LEMMA PinPort ==
  \A pin \in Pins : PortOf[pin] \in Ports
BY PortAssumption DEF PortAssumption

-----------------------------------------------------------------------------
(* Every public call begins with one of these callbacks. *)

\* The calls on output latches.
LEMMA WriteOutputsCalls ==
  ASSUME TypeOK
  PROVE  /\ \A value \in Values : writeOutputs(value) => CallbackStep
         /\ \A pin \in Pins, high \in BOOLEAN :
              writePin(pin, high) \/ preloadOutput(pin, high) \/ togglePin(pin) => CallbackStep
         /\ \A mask, value \in Values : preloadOutputs(mask, value) => CallbackStep
         /\ \A mask \in Values :
              setOutputBits(mask) \/ clearOutputBits(mask) \/ toggleOutputBits(mask) => CallbackStep
<1> USE ShadowTyped DEF WritablePairs
<1>1. ASSUME NEW value \in Values, writeOutputs(value)
      PROVE  CallbackStep
  BY <1>1, PairWriteCall DEF writeOutputs
<1>2. ASSUME NEW pin \in Pins, NEW high \in BOOLEAN, writePin(pin, high)
      PROVE  CallbackStep
  <2>1. PICK latches \in Values : writePair("OUTPUTS", latches)
    BY <1>2 DEF writePin, Values
  <2> QED BY <1>2, <2>1, PairWriteCall DEF writePin, shadowStatus
<1>3. ASSUME NEW bits \in Values, NEW levels \in Values, preloadOutputs(bits, levels)
      PROVE  CallbackStep
  <2>1. PICK latches \in Values : writePair("OUTPUTS", latches)
    BY <1>3 DEF preloadOutputs, Overlay, Values
  <2> QED BY <1>3, <2>1, PairWriteCall DEF preloadOutputs, shadowStatus
<1>4. ASSUME NEW pin \in Pins, NEW high \in BOOLEAN, preloadOutput(pin, high)
      PROVE  CallbackStep
  BY <1>3, <1>4 DEF preloadOutput, Values
<1>5. ASSUME NEW mask \in Values, setOutputBits(mask) \/ clearOutputBits(mask)
      PROVE  CallbackStep
  <2>1. PICK latches \in Values : writePair("OUTPUTS", latches)
    BY <1>5 DEF setOutputBits, clearOutputBits, Values
  <2> QED BY <1>5, <2>1, PairWriteCall DEF setOutputBits, clearOutputBits, shadowStatus
<1>6. ASSUME NEW bits \in Values, toggleOutputBits(bits)
      PROVE  CallbackStep
  <2>1. PICK latches \in Values : writePair("OUTPUTS", latches)
    BY <1>6 DEF toggleOutputBits, Values
  <2> QED BY <1>6, <2>1, PairWriteCall DEF toggleOutputBits, shadowStatus
<1>7. ASSUME NEW pin \in Pins, togglePin(pin)
      PROVE  CallbackStep
  BY <1>6, <1>7 DEF togglePin, Values
<1> QED BY <1>1, <1>2, <1>3, <1>4, <1>5, <1>6, <1>7

\* The calls on polarity.
LEMMA PolarityCalls ==
  ASSUME TypeOK
  PROVE  /\ \A value \in Values : setPolarity(value) => CallbackStep
         /\ \A mask \in Values : setInvertBits(mask) \/ clearInvertBits(mask) => CallbackStep
         /\ \A pin \in Pins, inverted \in BOOLEAN : setPinPolarity(pin, inverted) => CallbackStep
<1> USE ShadowTyped DEF WritablePairs
<1>1. ASSUME NEW value \in Values, setPolarity(value)
      PROVE  CallbackStep
  BY <1>1, PairWriteCall DEF setPolarity
<1>2. ASSUME NEW bits \in Values, setInvertBits(bits) \/ clearInvertBits(bits)
      PROVE  CallbackStep
  <2>1. PICK inversion \in Values : writePair("POLARITY", inversion)
    BY <1>2 DEF setInvertBits, clearInvertBits, Values
  <2> QED BY <1>2, <2>1, PairWriteCall DEF setInvertBits, clearInvertBits, shadowStatus
<1>3. ASSUME NEW pin \in Pins, NEW inverted \in BOOLEAN, setPinPolarity(pin, inverted)
      PROVE  CallbackStep
  BY <1>2, <1>3 DEF setPinPolarity, Values
<1> QED BY <1>1, <1>2, <1>3

\* A preload of the whole pair, with a direction pair to follow.
LEMMA PreloadPairCall ==
  ASSUME TypeOK, Ready, NEW latches \in Values, NEW directions \in Values,
         NEW outcome \in WriteOutcome[3], writePairTo("OUTPUTS", latches, outcome),
         preloadThen(outcome, Then("ENABLE_PAIR", directions, 0))
  PROVE  CallbackStep
<1>1. PairWriteStep
  BY DEF PairWriteStep, WritablePairs, preloadThen
<1> QED BY <1>1, IdleStage DEF CallbackStep, preloadThen, Ready

\* The one-port direction call preloads the port's latches.
LEMMA PreloadPortCall ==
  ASSUME TypeOK, Ready, NEW port \in Ports, NEW directions \in SUBSET PinsOf(port),
         "OUTPUTS" \in ev.valid, NEW outcome \in WriteOutcome[2],
         writePortTo("OUTPUTS", port, portValue(ev.shadow["OUTPUTS"], port),
                     ev.shadow["OUTPUTS"], outcome),
         preloadThen(outcome, Then("ENABLE_PORT", directions, port))
  PROVE  CallbackStep
<1> DEFINE latches == portValue(ev.shadow["OUTPUTS"], port)
<1>1. latches \in SUBSET PinsOf(port)
  BY DEF portValue
<1>2. withPort(ev.shadow["OUTPUTS"], port, latches) = ev.shadow["OUTPUTS"]
  BY DEF withPort, portValue
<1>3. \/ call' = Idle
      \/ /\ outcome.ok
         /\ \E d \in SUBSET PinsOf(port) : call' = Then("ENABLE_PORT", d, port)
  BY DEF preloadThen
<1>4. PortWriteStep
  <2> HIDE DEF latches
  <2>1. writePortTo("OUTPUTS", port, latches, withPort(ev.shadow["OUTPUTS"], port, latches), outcome)
    BY <1>2 DEF latches
  <2>2. "OUTPUTS" \in WritablePairs
    BY DEF WritablePairs
  <2> QED BY <1>1, <1>3, <2>1, <2>2 DEF PortWriteStep
<1> QED BY <1>4, IdleStage DEF CallbackStep, preloadThen, Ready

\* The calls on the direction pair.
LEMMA DirectionCalls ==
  ASSUME TypeOK
  PROVE  /\ \A value \in Values : setConfiguration(value) => CallbackStep
         /\ \A mask, value \in Values : configureOutputs(mask, value) => CallbackStep
         /\ \A mask \in Values : configureInputBits(mask) \/ configureOutputBits(mask) => CallbackStep
         /\ \A pin \in Pins, input \in BOOLEAN : setDirection(pin, input) => CallbackStep
<1> USE ShadowTyped DEF WritablePairs
<1>1. ASSUME NEW value \in Values, setConfiguration(value)
      PROVE  CallbackStep
  <2>1. CASE value = Pins
    BY <1>1, <2>1, DirectionWriteCall DEF setConfiguration
  <2>2. CASE value # Pins
    <3>1. PICK outcome \in WriteOutcome[3] :
            /\ writePairTo("OUTPUTS", ev.shadow["OUTPUTS"], outcome)
            /\ preloadThen(outcome, Then("ENABLE_PAIR", value, 0))
      BY <1>1, <2>2 DEF setConfiguration
    <3>2. Ready
      BY <1>1 DEF setConfiguration
    <3> QED BY <3>1, <3>2, PreloadPairCall
  <2> QED BY <2>1, <2>2
<1>2. ASSUME NEW bits \in Values, NEW levels \in Values, configureOutputs(bits, levels)
      PROVE  CallbackStep
  <2>1. PICK outcome \in WriteOutcome[3] :
          /\ writePairTo("OUTPUTS", Overlay(ev.shadow["OUTPUTS"], bits, levels), outcome)
          /\ preloadThen(outcome, Then("ENABLE_PAIR", ev.shadow["DIRECTIONS"] \ bits, 0))
    BY <1>2 DEF configureOutputs
  <2>2. /\ Overlay(ev.shadow["OUTPUTS"], bits, levels) \in Values
        /\ ev.shadow["DIRECTIONS"] \ bits \in Values
    BY DEF Overlay, Values
  <2>3. Ready
    BY <1>2 DEF configureOutputs, shadowStatus
  <2> QED BY <2>1, <2>2, <2>3, PreloadPairCall
<1>3. ASSUME NEW bits \in Values, configureInputBits(bits)
      PROVE  CallbackStep
  <2> DEFINE wider == ev.shadow["DIRECTIONS"] \cup bits
  <2>1. wider \in Values
    BY DEF Values
  <2>2. Ready /\ MayEnable(wider) /\ writePair("DIRECTIONS", wider)
    BY <1>3 DEF configureInputBits, shadowStatus, Ready, MayEnable
  <2> QED BY <2>1, <2>2, DirectionWriteCall
<1>4. ASSUME NEW bits \in Values, configureOutputBits(bits)
      PROVE  CallbackStep
  BY <1>2, <1>4 DEF configureOutputBits
<1>5. ASSUME NEW pin \in Pins, NEW input \in BOOLEAN, setDirection(pin, input)
      PROVE  CallbackStep
  BY <1>3, <1>4, <1>5 DEF setDirection, Values
<1> QED BY <1>1, <1>2, <1>3, <1>4, <1>5

\* The calls on one port.
LEMMA PortCallSteps ==
  ASSUME TypeOK, NEW port \in Ports, PortCall(port)
  PROVE  CallbackStep
<1> USE DEF WritablePairs
<1>1. ASSUME NEW value \in PortValues(port), writeOutput(port, value) \/ setPortPolarity(port, value)
      PROVE  CallbackStep
  BY <1>1, PortWriteCall DEF writeOutput, setPortPolarity, PortValues
<1>2. ASSUME NEW value \in PortValues(port), setPortConfiguration(port, value)
      PROVE  CallbackStep
  <2>1. CASE value = PinsOf(port)
    BY <1>2, <2>1, PortWriteCall DEF setPortConfiguration, PortValues
  <2>2. CASE value # PinsOf(port)
    <3>1. PICK outcome \in WriteOutcome[2] :
            /\ writePortTo("OUTPUTS", port, portValue(ev.shadow["OUTPUTS"], port),
                           ev.shadow["OUTPUTS"], outcome)
            /\ preloadThen(outcome, Then("ENABLE_PORT", value, port))
      BY <1>2, <2>2 DEF setPortConfiguration
    <3>2. Ready /\ "OUTPUTS" \in ev.valid
      BY <1>2, <2>2 DEF setPortConfiguration, shadowStatus
    <3> QED BY <3>1, <3>2, PreloadPortCall DEF PortValues
  <2> QED BY <2>1, <2>2
<1>3. ASSUME NEW value \in PortValues(port), NEW pair \in CallPairs, writeRegister(pair, port, value)
      PROVE  CallbackStep
  BY <1>3, RawWriteCall, PortPins, CallerAssumption DEF writeRegister, PortValues, Values, CallerAssumption
<1>4. CASE readOutput(port) \/ getPortConfiguration(port) \/ getPortPolarity(port)
  BY <1>4, PortReadCall DEF readOutput, getPortConfiguration, getPortPolarity
<1>5. ASSUME NEW pair \in CallPairs, readRegister(pair, port)
      PROVE  CallbackStep
  BY <1>5, PortReadCall DEF readRegister
<1> QED BY <1>1, <1>2, <1>3, <1>4, <1>5 DEF PortCall

\* The calls on one pin.
LEMMA PinCallSteps ==
  ASSUME TypeOK, NEW pin \in Pins, PinCall(pin)
  PROVE  CallbackStep
<1> USE DEF WritablePairs
<1>1. ASSUME NEW high \in BOOLEAN, writePin(pin, high) \/ preloadOutput(pin, high)
      PROVE  CallbackStep
  BY <1>1, WriteOutputsCalls
<1>2. ASSUME NEW input \in BOOLEAN, setDirection(pin, input)
      PROVE  CallbackStep
  BY <1>2, DirectionCalls
<1>3. ASSUME NEW inverted \in BOOLEAN, setPinPolarity(pin, inverted)
      PROVE  CallbackStep
  BY <1>3, PolarityCalls
<1>4. CASE togglePin(pin)
  BY <1>4, WriteOutputsCalls
<1>5. CASE readOutputPin(pin) \/ getPinDirection(pin) \/ getPinPolarity(pin)
  BY <1>5, PinPort, PortReadCall DEF readOutputPin, readOutput, getPinDirection, getPortConfiguration,
     getPinPolarity, getPortPolarity
<1> QED BY <1>1, <1>2, <1>3, <1>4, <1>5 DEF PinCall

\* The calls on a mask of pins.
LEMMA MaskCallSteps ==
  ASSUME TypeOK, NEW mask \in NonEmptyMasks, MaskCall(mask)
  PROVE  CallbackStep
<1>1. mask \in Values
  BY DEF NonEmptyMasks
<1>2. ASSUME NEW values \in Values, preloadOutputs(mask, values) \/ configureOutputs(mask, values)
      PROVE  CallbackStep
  BY <1>1, <1>2, WriteOutputsCalls, DirectionCalls
<1>3. CASE setOutputBits(mask) \/ clearOutputBits(mask) \/ toggleOutputBits(mask)
  BY <1>1, <1>3, WriteOutputsCalls
<1>4. CASE configureInputBits(mask) \/ configureOutputBits(mask)
  BY <1>1, <1>4, DirectionCalls
<1>5. CASE setInvertBits(mask) \/ clearInvertBits(mask)
  BY <1>1, <1>5, PolarityCalls
<1> QED BY <1>2, <1>3, <1>4, <1>5 DEF MaskCall

\* readObservedState and the calls that read one pair.
LEMMA ObserveCall ==
  ASSUME TypeOK, NEW pair \in WritablePairs,
         NEW next \in {"OBSERVE_POLARITY", "OBSERVE_DIRECTIONS", "IDLE"},
         observe(pair, next), ~slot.active, call.stage # "POLLING"
  PROVE  CallbackStep
<1>1. Then("IDLE", {}, 0) = Idle
  BY DEF Then, Idle
<1>2. PICK outcome \in ReadOutcome[2] :
         /\ readPair(pair, outcome)
         /\ call' = IF outcome.ok THEN Then(next, {}, 0) ELSE Idle
  BY DEF observe
<1>3. PairReadStep
  BY <1>1, <1>2 DEF PairReadStep
<1> QED BY <1>3 DEF CallbackStep, observe

\* The calls on a pair named by the caller.
LEMMA PairCallSteps ==
  ASSUME TypeOK, PairCall
  PROVE  CallbackStep
<1> USE DEF WritablePairs
<1>1. ASSUME NEW value \in Values, writeOutputs(value) \/ setConfiguration(value) \/ setPolarity(value)
      PROVE  CallbackStep
  BY <1>1, WriteOutputsCalls, DirectionCalls, PolarityCalls
<1>2. ASSUME NEW value \in Values, NEW pair \in CallPairs, NEW first \in Ports,
             writeRegisters(pair, first, value)
      PROVE  CallbackStep
  BY <1>2, RawWriteCall, CallerAssumption DEF writeRegisters, CallerAssumption
<1>3. CASE readOutputs \/ getConfiguration \/ checkPorDefaults \/ getPolarity
  BY <1>3, PairReadCall DEF readOutputs, getConfiguration, checkPorDefaults, getPolarity
<1>4. ASSUME NEW pair \in CallPairs, readRegisters(pair)
      PROVE  CallbackStep
  BY <1>4, PairReadCall DEF readRegisters
<1>5. CASE readObservedState
  BY <1>5, ObserveCall, IdleStage DEF readObservedState, Ready
<1>6. CASE readInputs
  <2>1. PICK outcome \in ReadOutcome[2] : inputReadThen(TRUE, "PARK_PAIR", outcome)
    BY <1>6 DEF readInputs
  <2>2. Ready /\ 2 \in 1..2 /\ TRUE \in BOOLEAN
    BY <1>6 DEF readInputs
  <2> QED BY <2>1, <2>2, InputReadCall
<1>7. CASE readInput \/ readPin
  <2>1. PICK outcome \in ReadOutcome[1] : inputReadThen(FALSE, "PARK_PORT", outcome)
    BY <1>7 DEF readInput, readPin
  <2>2. Ready
    BY <1>7 DEF readInput, readPin
  <2>3. 1 \in 1..2 /\ FALSE \in BOOLEAN
    OBVIOUS
  <2> QED BY <2>1, <2>2, <2>3, InputReadCall
<1>8. CASE applyInterruptErrataWorkaround
  <2>1. ParkStep
    BY <1>8 DEF applyInterruptErrataWorkaround, ParkStep, Ready
  <2> QED BY <1>8, <2>1, IdleStage DEF applyInterruptErrataWorkaround, CallbackStep, Ready
<1>9. CASE probe
  <2>1. ProbeStep
    BY <1>9 DEF probe, ProbeStep, Ready
  <2> QED BY <1>9, <2>1, IdleStage DEF probe, CallbackStep, Ready
<1> QED BY <1>1, <1>2, <1>3, <1>4, <1>5, <1>6, <1>7, <1>8, <1>9 DEF PairCall

\* Every step of a synchronous call is one of the eight kinds: what is proved of
\* the kinds is proved of all the public calls.
LEMMA SyncCallStep ==
  ASSUME TypeOK, SyncCall
  PROVE  CallbackStep
BY PinCallSteps, PortCallSteps, MaskCallSteps, PairCallSteps DEF SyncCall

\* ... and goes on with one of them.
LEMMA ContinueCallStep ==
  ASSUME TypeOK, CallInv, ContinueCall
  PROVE  CallbackStep
<1> USE DEF WritablePairs
<1>1. CASE EnablePair
  <2>1. call.value \in Values
    BY DEF TypeOK, Calls
  <2>2. ~slot.active /\ "OUTPUTS" \in ev.valid
    BY <1>1 DEF EnablePair, CallInv
  <2>3. PICK outcome \in WriteOutcome[3] : writePairTo("DIRECTIONS", call.value, outcome)
    BY <1>1 DEF EnablePair
  <2>4. PairWriteStep
    BY <1>1, <2>1, <2>2, <2>3 DEF PairWriteStep, EnablePair, MayEnable
  <2> QED BY <1>1, <2>2, <2>4 DEF CallbackStep, EnablePair
<1>2. CASE EnablePort
  <2>1. call.port \in Ports /\ call.value \in SUBSET PinsOf(call.port)
    BY <1>2 DEF TypeOK, Calls, EnablePort, CallInv
  <2>2. ~slot.active /\ "OUTPUTS" \in ev.valid
    BY <1>2 DEF EnablePort, CallInv
  <2>3. PICK outcome \in WriteOutcome[2] :
          writePortTo("DIRECTIONS", call.port, call.value,
                      withPort(ev.shadow["DIRECTIONS"], call.port, call.value), outcome)
    BY <1>2 DEF EnablePort
  <2>4. PortWriteStep
    BY <1>2, <2>1, <2>2, <2>3 DEF PortWriteStep, EnablePort
  <2> QED BY <1>2, <2>2, <2>4 DEF CallbackStep, EnablePort
<1>3. CASE ObserveOn
  <2>1. ~slot.active /\ call.stage # "POLLING"
    BY <1>3 DEF ObserveOn, CallInv
  <2> QED BY <1>3, <2>1, ObserveCall DEF ObserveOn
<1>4. CASE ParkAfterRead
  <2>1. ~slot.active
    BY <1>4 DEF ParkAfterRead, CallInv
  <2>2. ParkStep
    BY <1>4 DEF ParkAfterRead, ParkStep
  <2> QED BY <1>4, <2>1, <2>2 DEF CallbackStep, ParkAfterRead
<1> QED BY <1>1, <1>2, <1>3, <1>4 DEF ContinueCall

-----------------------------------------------------------------------------
(* One callback leaves the evidence typed, consistent and sound. *)

EvidenceInv ==
  /\ chip \in Chip
  /\ ev \in Evidence
  /\ stale \in Resets
  /\ excused \in BOOLEAN
  /\ Consistent(ev)
  /\ Sound(ev, chip.regs, stale)

\* Removing bits from the history of resets keeps its type.
LEMMA ResetLessTyped ==
  ASSUME NEW reset \in Resets, NEW pair \in WritablePairs, NEW pins
  PROVE  ResetLess(reset, pair, pins) \in Resets
BY DEF Resets, ResetLess, Values

\* A pair write keeps the evidence invariant.
LEMMA WritePairKeeps ==
  ASSUME EvidenceInv, NEW pair \in WritablePairs, NEW value \in Values,
         NEW outcome \in WriteOutcome[3], writePairTo(pair, value, outcome)
  PROVE  EvidenceInv'
<1>1. outcome.accepted \in 0..MaxTxBytes /\ 0 \in Ports
  BY WriteOutcomeFacts DEF MaxTxBytes, Ports
<1>2. /\ chip' = AcceptWrite(chip, pair, 0, value, outcome.accepted)
      /\ stale' = ResetLess(stale, pair, Reached(0, outcome.accepted))
      /\ excused' = (excused /\ outcome.accepted = 0)
      /\ ev' = writeRegs(ev, pair, value, TRUE, outcome)
  BY DEF writePairTo, Write, ResetLess
<1>3. chip' \in Chip
  BY <1>1, <1>2, AcceptWriteTyped DEF EvidenceInv
<1>4. ev' \in Evidence /\ Consistent(ev')
  BY <1>2, WriteRegsOK DEF EvidenceInv
<1>5. stale' \in Resets /\ excused' \in BOOLEAN
  BY <1>2, ResetLessTyped DEF EvidenceInv
<1>6. Sound(ev', chip'.regs, stale')
  BY <1>2, WritePairSound DEF EvidenceInv
<1>7. Consistent(ev)' /\ Sound(ev, chip.regs, stale)'
  BY <1>4, <1>6 DEF Consistent, Sound
<1> QED BY <1>3, <1>4, <1>5, <1>7 DEF EvidenceInv

\* A one-port write keeps the evidence invariant.
LEMMA WritePortKeeps ==
  ASSUME EvidenceInv, NEW pair \in WritablePairs, NEW port \in Ports, NEW value \in SUBSET PinsOf(port),
         NEW outcome \in WriteOutcome[2],
         writePortTo(pair, port, value, withPort(ev.shadow[pair], port, value), outcome)
  PROVE  EvidenceInv'
<1>1. outcome.accepted \in 0..MaxTxBytes /\ value \in Values
  BY WriteOutcomeFacts DEF MaxTxBytes, PinsOf, Values
<1>2. withPort(ev.shadow[pair], port, value) \in Values
  BY <1>1 DEF withPort, EvidenceInv, Evidence, Images, Values
<1>3. /\ chip' = AcceptWrite(chip, pair, port, value, outcome.accepted)
      /\ stale' = ResetLess(stale, pair, Reached(port, outcome.accepted))
      /\ excused' = (excused /\ outcome.accepted = 0)
      /\ ev' = writePort(ev, pair, withPort(ev.shadow[pair], port, value), outcome)
  BY DEF writePortTo, Write, ResetLess
<1>4. chip' \in Chip
  BY <1>1, <1>3, AcceptWriteTyped DEF EvidenceInv
<1>5. ev' \in Evidence /\ Consistent(ev')
  BY <1>2, <1>3, WritePortOK DEF EvidenceInv
<1>6. stale' \in Resets /\ excused' \in BOOLEAN
  BY <1>3, ResetLessTyped DEF EvidenceInv
<1>7. Sound(ev', chip'.regs, stale')
  BY <1>3, WritePortSound DEF EvidenceInv
<1>8. Consistent(ev)' /\ Sound(ev, chip.regs, stale)'
  BY <1>5, <1>7 DEF Consistent, Sound
<1> QED BY <1>4, <1>5, <1>6, <1>8 DEF EvidenceInv

\* A raw write keeps the evidence invariant.
LEMMA RawWriteKeeps ==
  ASSUME EvidenceInv, RawWriteStep
  PROVE  EvidenceInv'
<1>1. PICK pair \in WritablePairs, first \in Ports, length \in 1..2, value \in Values :
      \E outcome \in WriteOutcome[length + 1] :
         /\ Write(pair, first, value, outcome)
         /\ ev' = writeRegs([ev EXCEPT !.valid = @ \ {pair}], pair, value, length = 2, outcome)
  BY DEF RawWriteStep, RawWritablePairs
<1>2. PICK outcome \in WriteOutcome[length + 1] :
         /\ Write(pair, first, value, outcome)
         /\ ev' = writeRegs([ev EXCEPT !.valid = @ \ {pair}], pair, value, length = 2, outcome)
  BY <1>1
<1>3. outcome.accepted \in 0..MaxTxBytes
  BY WriteOutcomeFacts DEF MaxTxBytes
<1>4. /\ chip' = AcceptWrite(chip, pair, first, value, outcome.accepted)
      /\ stale' = ResetLess(stale, pair, Reached(first, outcome.accepted))
      /\ excused' = (excused /\ outcome.accepted = 0)
  BY <1>2 DEF Write, ResetLess
<1>5. chip' \in Chip
  BY <1>3, <1>4, AcceptWriteTyped DEF EvidenceInv
<1>6. [ev EXCEPT !.valid = @ \ {pair}] \in Evidence /\ Consistent([ev EXCEPT !.valid = @ \ {pair}])
  BY DEF EvidenceInv, Evidence, Consistent
<1>7. ev' \in Evidence /\ Consistent(ev')
  BY <1>2, <1>6, WriteRegsOK
<1>8. stale' \in Resets /\ excused' \in BOOLEAN
  BY <1>4, ResetLessTyped DEF EvidenceInv
<1>9. Sound(ev', chip'.regs, stale')
  BY <1>2, <1>4, RawWriteSound DEF EvidenceInv
<1>10. Consistent(ev)' /\ Sound(ev, chip.regs, stale)'
  BY <1>7, <1>9 DEF Consistent, Sound
<1> QED BY <1>5, <1>7, <1>8, <1>10 DEF EvidenceInv

\* A callback that transmits a command byte only leaves the registers alone.
LEMMA CommandKeepsRegisters ==
  ASSUME EvidenceInv, NEW pair \in Pairs, NEW outcome, outcome.accepted \in 0..1,
         chip' = AcceptCommand(chip, pair, outcome.accepted)
  PROVE  chip' \in Chip /\ chip'.regs = chip.regs
<1>1. outcome.accepted \in 0..MaxTxBytes
  BY DEF MaxTxBytes
<1> QED BY <1>1, AcceptCommandTyped DEF EvidenceInv

\* A pair read keeps the evidence invariant.
LEMMA PairReadKeeps ==
  ASSUME EvidenceInv, NEW pair \in WritablePairs, NEW outcome \in ReadOutcome[2],
         readPair(pair, outcome)
  PROVE  EvidenceInv'
<1>1. /\ chip' = AcceptCommand(chip, pair, outcome.accepted)
      /\ excused' = (excused /\ outcome.accepted = 0)
      /\ pair \in Pairs
  BY DEF readPair, Command, Pairs
<1>2. chip' \in Chip /\ chip'.regs = chip.regs
  BY <1>1, ReadOutcomeFacts, CommandKeepsRegisters
<1>3. chip.regs[pair] \in Values
  BY DEF EvidenceInv, Chip, Images
<1>4. CASE outcome.ok
  <2>1. ev' = recordPairObservation(ev, pair, chip.regs[pair]) /\ stale' = [stale EXCEPT ![pair] = {}]
    BY <1>4 DEF readPair
  <2>2. ev' \in Evidence /\ Consistent(ev')
    BY <1>3, <2>1, RecordPairOK DEF EvidenceInv
  <2>3. stale' \in Resets
    BY <2>1 DEF EvidenceInv, Resets, Values
  <2>4. Sound(ev', chip'.regs, stale')
    BY <1>2, <2>1, RecordPairSound DEF EvidenceInv
  <2>5. Consistent(ev)' /\ Sound(ev, chip.regs, stale)'
    BY <2>2, <2>4 DEF Consistent, Sound
  <2> QED BY <1>1, <1>2, <2>2, <2>3, <2>5 DEF EvidenceInv
<1>5. CASE ~outcome.ok
  <2>1. ev' = failedPairRead(ev, pair) /\ stale' = stale
    BY <1>5 DEF readPair
  <2>2. ev' \in Evidence /\ Consistent(ev')
    BY <1>1, <2>1, InputEvidenceOK DEF EvidenceInv
  <2>3. ev'.valid = ev.valid /\ ev'.shadow = ev.shadow
    BY <2>1 DEF failedPairRead, EvidenceInv, Evidence
  <2>4. Consistent(ev)' /\ Sound(ev, chip.regs, stale)'
    BY <1>2, <2>1, <2>2, <2>3 DEF Consistent, Sound, EvidenceInv
  <2> QED BY <1>1, <1>2, <2>1, <2>2, <2>4 DEF EvidenceInv
<1> QED BY <1>4, <1>5

\* A register read keeps the evidence invariant.
LEMMA PortReadKeeps ==
  ASSUME EvidenceInv, NEW pair \in WritablePairs, NEW port \in Ports, NEW outcome \in ReadOutcome[1],
         readWritablePortRegister(pair, port, outcome)
  PROVE  EvidenceInv'
<1>1. /\ chip' = AcceptCommand(chip, pair, outcome.accepted)
      /\ excused' = (excused /\ outcome.accepted = 0)
      /\ pair \in Pairs
  BY DEF readWritablePortRegister, Command, Pairs
<1>2. chip' \in Chip /\ chip'.regs = chip.regs
  BY <1>1, ReadOutcomeFacts, CommandKeepsRegisters
<1>3. portValue(chip.regs[pair], port) \in SUBSET PinsOf(port)
  BY DEF portValue
<1>4. CASE outcome.ok
  <2>1. /\ ev' = syncObservedRegister(ev, pair, port, portValue(chip.regs[pair], port))
        /\ stale' = ResetLess(stale, pair, PinsOf(port))
    BY <1>4 DEF readWritablePortRegister, ResetLess
  <2>2. ev' \in Evidence /\ Consistent(ev')
    BY <1>3, <2>1, SyncRegisterOK DEF EvidenceInv
  <2>3. stale' \in Resets
    BY <2>1, ResetLessTyped DEF EvidenceInv
  <2>4. Sound(ev', chip'.regs, stale')
    BY <1>2, <2>1, SyncRegisterSound DEF EvidenceInv
  <2>5. Consistent(ev)' /\ Sound(ev, chip.regs, stale)'
    BY <2>2, <2>4 DEF Consistent, Sound
  <2> QED BY <1>1, <1>2, <2>2, <2>3, <2>5 DEF EvidenceInv
<1>5. CASE ~outcome.ok
  <2>1. ev' = ev /\ stale' = stale
    BY <1>5 DEF readWritablePortRegister
  <2>2. Consistent(ev)' /\ Sound(ev, chip.regs, stale)'
    BY <1>2, <2>1 DEF Consistent, Sound, EvidenceInv
  <2> QED BY <1>1, <1>2, <2>1, <2>2 DEF EvidenceInv
<1> QED BY <1>4, <1>5

\* A step that moves the pointer, and of the evidence changes the input part only.
LEMMA PointerStepKeeps ==
  ASSUME EvidenceInv, chip' \in Chip, chip'.regs = chip.regs, stale' = stale, excused' \in BOOLEAN,
         ev' \in {ev, recordInputs(ev), syncInputs(ev), failedPairRead(ev, "INPUTS")}
  PROVE  EvidenceInv'
<1>1. ev' \in Evidence /\ Consistent(ev')
  BY InputEvidenceOK DEF EvidenceInv, Pairs
<1>2. ev'.valid = ev.valid /\ ev'.shadow = ev.shadow
  BY DEF recordInputs, syncInputs, failedPairRead, EvidenceInv, Evidence
<1>3. Consistent(ev)' /\ Sound(ev, chip.regs, stale)'
  BY <1>1, <1>2 DEF Consistent, Sound, EvidenceInv
<1> QED BY <1>1, <1>3 DEF EvidenceInv

\* An input read keeps the evidence invariant.
LEMMA InputReadKeeps ==
  ASSUME EvidenceInv, NEW whole \in BOOLEAN, NEW length \in 1..2, NEW outcome \in ReadOutcome[length],
         readInputRegisters(whole, outcome)
  PROVE  EvidenceInv'
<1>1. chip' \in Chip /\ chip'.regs = chip.regs
  BY ReadOutcomeFacts, CommandKeepsRegisters DEF readInputRegisters, Command, Pairs
<1>2. /\ stale' = stale /\ excused' \in BOOLEAN
      /\ ev' \in {ev, failedPairRead(ev, "INPUTS")}
  BY DEF readInputRegisters, Command, EvidenceInv
<1> QED BY <1>1, <1>2, PointerStepKeeps

\* A park keeps the evidence invariant.
LEMMA ParkKeeps ==
  ASSUME EvidenceInv, NEW outcome \in WriteOutcome[1], parkPointer(outcome),
         ev' \in {ev, recordInputs(ev), syncInputs(ev)}
  PROVE  EvidenceInv'
<1>1. outcome.accepted \in 0..1
  BY WriteOutcomeFacts
<1>2. chip' \in Chip /\ chip'.regs = chip.regs
  BY <1>1, CommandKeepsRegisters DEF parkPointer, Pairs, WritablePairs
<1>3. stale' = stale /\ excused' \in BOOLEAN
  BY DEF parkPointer
<1> QED BY <1>2, <1>3, PointerStepKeeps

\* A probe keeps the evidence invariant.
LEMMA ProbeKeeps ==
  ASSUME EvidenceInv, ProbeStep
  PROVE  EvidenceInv'
<1>1. PICK outcome \in WriteOutcome[1] : Command("DIRECTIONS", outcome)
  BY DEF ProbeStep
<1>2. outcome.accepted \in 0..1
  BY WriteOutcomeFacts
<1>3. chip' \in Chip /\ chip'.regs = chip.regs
  BY <1>1, <1>2, CommandKeepsRegisters DEF Command, Pairs, WritablePairs
<1>4. stale' = stale /\ excused' \in BOOLEAN /\ ev' = ev
  BY <1>1 DEF Command, ProbeStep
<1> QED BY <1>3, <1>4, PointerStepKeeps

\* So does every callback of a synchronous call.
LEMMA CallbackKeepsEvidence ==
  ASSUME EvidenceInv, CallbackStep
  PROVE  EvidenceInv'
<1>1. CASE PairWriteStep
  BY <1>1, WritePairKeeps DEF PairWriteStep
<1>2. CASE PortWriteStep
  BY <1>2, WritePortKeeps DEF PortWriteStep
<1>3. CASE PairReadStep
  BY <1>3, PairReadKeeps DEF PairReadStep
<1>4. CASE PortReadStep
  BY <1>4, PortReadKeeps DEF PortReadStep
<1>5. CASE InputReadStep
  BY <1>5, InputReadKeeps DEF InputReadStep
<1>6. CASE ParkStep
  BY <1>6, ParkKeeps DEF ParkStep
<1> QED BY <1>1, <1>2, <1>3, <1>4, <1>5, <1>6, RawWriteKeeps, ProbeKeeps DEF CallbackStep

-----------------------------------------------------------------------------
(* The inductive invariant. *)

\* The kind of the active operation, and the latches an apply has behind it
\* when it comes to the direction pair.
SlotInv ==
  slot.active => /\ slot.kind \in Kinds
                 /\ slot.phase \in {"APPLY_POLARITY", "APPLY_DIRECTIONS"} => "OUTPUTS" \in ev.valid

IInv == /\ TypeOK
        /\ EvidenceConsistent
        /\ ShadowSound
        /\ ExactlyOnce
        /\ ActiveOwnsBus
        /\ TransfersSuffice
        /\ CallInv
        /\ SlotInv

\* The evidence invariant is a part of the whole one,
LEMMA EvidencePart ==
  ASSUME IInv
  PROVE  EvidenceInv
BY DEF IInv, EvidenceInv, TypeOK, EvidenceConsistent, Consistent, ShadowSound, Sound, Resets

\* and of its next-state form.
LEMMA EvidencePartNext ==
  ASSUME EvidenceInv'
  PROVE  EvidenceConsistent' /\ ShadowSound' /\ (ev \in Evidence)' /\ (chip \in Chip)'
         /\ (stale \in [WritablePairs -> Values])' /\ (excused \in BOOLEAN)'
BY DEF EvidenceInv, EvidenceConsistent, Consistent, ShadowSound, Sound, Resets

\* The invariant holds initially.
LEMMA InitIInv ==
  ASSUME Init
  PROVE  IInv
<1> USE DEF Init
<1>1. ev \in Evidence /\ Consistent(ev)
  <2>1. PorImage \in Images
    BY DEF PorImage, Images, Values
  <2> QED BY <2>1, NoEvidenceOK
<1>2. chip \in Chip
  BY DEF PowerOnChip, Chip, PorImage, Images, Values, Pairs
<1>3. slot \in Slots
  BY DEF EmptySlot, Slots, OperationPhase, Outcome, WriteEffect, MaxBudget, PorImage, Images, Values
<1>4. stale \in [WritablePairs -> Values]
  BY DEF Values
<1>5. TypeOK
  BY <1>1, <1>2, <1>3, <1>4, IdleStage DEF TypeOK
<1>6. EvidenceConsistent /\ ShadowSound
  BY <1>1 DEF EvidenceConsistent, Consistent, ShadowSound, NoEvidence
<1>7. ~slot.active /\ ~slot.pending
  BY DEF EmptySlot
<1> QED BY <1>5, <1>6, <1>7, IdleStage
        DEF IInv, ExactlyOnce, ActiveOwnsBus, TransfersSuffice, CallInv, SlotInv

\* What a successful write of the latches establishes, or keeps.
LEMMA LatchesValid ==
  ASSUME EvidenceInv, NEW outcome, outcome.ok, outcome.effect = "COMMITTED"
  PROVE  /\ \A value : "OUTPUTS" \in writeRegs(ev, "OUTPUTS", value, TRUE, outcome).valid
         /\ \A value : "OUTPUTS" \in ev.valid => "OUTPUTS" \in writePort(ev, "OUTPUTS", value, outcome).valid
<1>1. \A value : "OUTPUTS" \in establishShadowPair(ev, "OUTPUTS", value).valid
  BY DEF establishShadowPair, EvidenceInv, Evidence
<1> QED BY <1>1 DEF writeRegs, writePort, EvidenceInv, Consistent

\* A callback leaves a call that may go on: enabling outputs only with known latches.
LEMMA CallbackKeepsCall ==
  ASSUME IInv, CallbackStep
  PROVE  (call \in Calls)' /\ CallInv'
<1> USE IdleStage
<1>1. /\ ~slot'.active
      /\ EvidenceInv
  BY EvidencePart DEF CallbackStep
<1>2. CASE call' = Idle
  BY <1>1, <1>2 DEF CallInv
<1>3. CASE PairWriteStep /\ call' # Idle
  <2>1. PICK value \in Values, outcome \in WriteOutcome[3], directions \in Values :
          /\ writePairTo("OUTPUTS", value, outcome)
          /\ outcome.ok
          /\ call' = Then("ENABLE_PAIR", directions, 0)
    BY <1>3 DEF PairWriteStep
  <2>2. outcome.effect = "COMMITTED"
    BY <2>1, WriteOutcomeFacts
  <2>3. "OUTPUTS" \in ev'.valid
    BY <1>1, <2>1, <2>2, LatchesValid DEF writePairTo
  <2>4. call'.stage = "ENABLE_PAIR" /\ call' \in Calls
    BY <2>1 DEF Then, Calls, Stages, Ports, MaxBudget
  <2> QED BY <1>1, <2>3, <2>4 DEF CallInv
<1>4. CASE PortWriteStep /\ call' # Idle
  <2>9. PICK port \in Ports, outcome \in WriteOutcome[2] :
        \E value \in SUBSET PinsOf(port) : \E directions \in SUBSET PinsOf(port) :
          /\ writePortTo("OUTPUTS", port, value, withPort(ev.shadow["OUTPUTS"], port, value), outcome)
          /\ outcome.ok /\ "OUTPUTS" \in ev.valid
          /\ call' = Then("ENABLE_PORT", directions, port)
    BY <1>4 DEF PortWriteStep
  <2>1. PICK value \in SUBSET PinsOf(port), directions \in SUBSET PinsOf(port) :
          /\ writePortTo("OUTPUTS", port, value, withPort(ev.shadow["OUTPUTS"], port, value), outcome)
          /\ outcome.ok /\ "OUTPUTS" \in ev.valid
          /\ call' = Then("ENABLE_PORT", directions, port)
    BY <2>9
  <2>2. outcome.effect = "COMMITTED"
    BY <2>1, WriteOutcomeFacts
  <2>3. "OUTPUTS" \in ev'.valid
    BY <1>1, <2>1, <2>2, LatchesValid DEF writePortTo
  <2>4. /\ call'.stage = "ENABLE_PORT" /\ call'.port = port /\ call'.value = directions
        /\ call' \in Calls
    BY <2>1, PortPins DEF Then, Calls, Stages, Values, MaxBudget
  <2> QED BY <1>1, <2>3, <2>4 DEF CallInv
<1>5. CASE (PairReadStep \/ InputReadStep) /\ call' # Idle
  <2>1. PICK stage \in {"OBSERVE_POLARITY", "OBSERVE_DIRECTIONS",
                         "PARK_NOTHING", "PARK_PAIR", "PARK_PORT"} : call' = Then(stage, {}, 0)
    BY <1>5 DEF PairReadStep, InputReadStep
  <2>2. call' \in Calls /\ call'.stage = stage
    BY <2>1 DEF Then, Calls, Stages, Values, Ports, MaxBudget
  <2> QED BY <1>1, <2>2 DEF CallInv
<1> QED BY <1>2, <1>3, <1>4, <1>5 DEF CallbackStep, RawWriteStep, PortReadStep, ParkStep, ProbeStep

\* Callbacks of synchronous calls preserve the invariant.
LEMMA CallbackKeepsIInv ==
  ASSUME IInv, CallbackStep
  PROVE  IInv'
<1>1. EvidenceInv'
  BY EvidencePart, CallbackKeepsEvidence
<1>2. /\ ~slot'.active
      /\ bound' = bound /\ slot' = slot /\ late' = late /\ owed' = owed
  BY DEF CallbackStep
<1>3. TypeOK'
  BY <1>1, <1>2, EvidencePartNext, CallbackKeepsCall DEF IInv, TypeOK
<1>4. ExactlyOnce'
  BY <1>2 DEF IInv, ExactlyOnce
<1>5. ActiveOwnsBus' /\ TransfersSuffice' /\ SlotInv'
  BY <1>2 DEF ActiveOwnsBus, TransfersSuffice, SlotInv
<1> QED BY <1>1, <1>3, <1>4, <1>5, EvidencePartNext, CallbackKeepsCall DEF IInv

-----------------------------------------------------------------------------
(* The operation slot: calls that make no callback. *)

\* Ending an operation leaves a slot.
LEMMA FinishTyped ==
  ASSUME NEW s \in Slots, NEW e \in Evidence, NEW outcome \in Outcome, NEW phase \in OperationPhase
  PROVE  /\ finish(s, e, outcome, phase) \in Slots
         /\ ~finish(s, e, outcome, phase).active
         /\ finish(s, e, outcome, phase).pending
         /\ finish(s, e, outcome, phase).used = s.used
<1>1. "COMPLETE" \in OperationPhase
  BY DEF OperationPhase
<1> QED BY <1>1 DEF finish, Slots, Evidence

\* The empty slot is a slot.
LEMMA EmptySlotTyped == EmptySlot \in Slots
BY DEF EmptySlot, Slots, OperationPhase, Outcome, WriteEffect, MaxBudget, PorImage, Images, Values

\* Without a callback, with the evidence as it was, only the slot is in question.
LEMMA QuietStep ==
  ASSUME IInv, UNCHANGED <<chip, ev, stale, excused>>
  PROVE  /\ EvidenceConsistent' /\ ShadowSound'
         /\ (ev \in Evidence)' /\ (chip \in Chip)'
         /\ (stale \in [WritablePairs -> Values])' /\ (excused \in BOOLEAN)'
<1>1. EvidenceInv'
  BY EvidencePart DEF EvidenceInv, Consistent, Sound
<1> QED BY <1>1, EvidencePartNext

\* Admission preserves the invariant: the first phase has all its transactions.
LEMMA StartKeepsIInv ==
  ASSUME IInv, NEW kind \in {"APPLY_IMAGE", "VERIFY_IMAGE", "READ_INPUTS"}, NEW expected \in Images,
         NEW firstPhase, start(kind, expected, firstPhase),
         firstPhase = [APPLY_IMAGE |-> "APPLY_OUTPUTS", VERIFY_IMAGE |-> "VERIFY_OUTPUTS",
                       READ_INPUTS |-> "READ_INPUTS"][kind]
  PROVE  IInv'
<1>1. PICK requestId \in RequestIds :
        slot' = [EmptySlot EXCEPT !.active = TRUE, !.requestId = requestId, !.kind = kind,
                                  !.phase = firstPhase, !.expected = expected,
                                  !.outcome = "ACTIVE"]
  BY DEF start
<1>2. firstPhase \in OperationPhase
  BY DEF OperationPhase, AppliedPhases, VerifiedPhases, ApplyPhase, VerifyPhase, WritablePairs
<1>3. slot' \in Slots
  <2>1. "ACTIVE" \in Outcome /\ kind \in Kinds
    BY DEF Outcome, start
  <2> QED BY <1>1, <1>2, <2>1, EmptySlotTyped DEF Slots
<1>4. /\ slot'.active /\ ~slot'.pending /\ slot'.kind = kind /\ slot'.phase = firstPhase
      /\ slot'.used = 0
  BY <1>1 DEF EmptySlot
<1>5. /\ UNCHANGED <<chip, bound, ev, call, stale, excused>>
      /\ late' = FALSE /\ owed' = owed + 1 /\ call = Idle /\ bound /\ kind \in Kinds
      /\ ~slot.active /\ ~slot.pending
  BY DEF start
<1>6. TypeOK'
  <2>1. late' \in BOOLEAN
    BY <1>5
  <2>2. owed' \in Nat
    BY <1>5 DEF IInv, TypeOK
  <2>3. bound' \in BOOLEAN /\ call' \in Calls
    BY <1>5 DEF IInv, TypeOK
  <2> QED BY <1>3, <1>5, <2>1, <2>2, <2>3, QuietStep DEF TypeOK
<1>7. ExactlyOnce' /\ ActiveOwnsBus'
  BY <1>4, <1>5, IdleStage DEF IInv, ExactlyOnce, ActiveOwnsBus
<1>8. TransfersSuffice'
  BY <1>4 DEF TransfersSuffice, CallbacksFrom, MaxTransactions
<1>9. CallInv'
  BY <1>5, IdleStage DEF CallInv
<1>10. SlotInv'
  BY <1>4, <1>5 DEF SlotInv
<1> QED BY <1>5, <1>6, <1>7, <1>8, <1>9, <1>10, QuietStep DEF IInv

\* A slot that is not active any more, between calls.
LEMMA InactiveKeepsIInv ==
  ASSUME IInv, EvidenceInv', (slot \in Slots)', ~slot'.active, (bound \in BOOLEAN)', (late \in BOOLEAN)',
         call' = Idle, (owed \in Nat)', owed' = IF slot'.pending THEN 1 ELSE 0
  PROVE  IInv'
<1>1. TypeOK'
  BY EvidencePartNext, IdleStage DEF TypeOK
<1>2. ExactlyOnce'
  BY DEF ExactlyOnce
<1>3. ActiveOwnsBus' /\ TransfersSuffice' /\ SlotInv' /\ CallInv'
  BY IdleStage DEF ActiveOwnsBus, TransfersSuffice, SlotInv, CallInv
<1> QED BY <1>1, <1>2, <1>3, EvidencePartNext DEF IInv

\* A step that touches neither chip nor evidence keeps the evidence invariant.
LEMMA QuietEvidence ==
  ASSUME IInv, UNCHANGED <<chip, ev, stale, excused>>
  PROVE  EvidenceInv'
BY EvidencePart DEF EvidenceInv, Consistent, Sound

\* Taking a result preserves the invariant.
LEMMA TakeKeepsIInv ==
  ASSUME IInv, takeOperationResult
  PROVE  IInv'
<1>1. /\ slot' = EmptySlot /\ ~slot'.active /\ ~slot'.pending
      /\ slot' \in Slots
  BY EmptySlotTyped DEF takeOperationResult, EmptySlot
<1>2. owed' = 0
  BY DEF takeOperationResult, IInv, ExactlyOnce
<1>3. EvidenceInv' /\ call' = Idle
  BY QuietEvidence DEF takeOperationResult
<1> QED BY <1>1, <1>2, <1>3, InactiveKeepsIInv DEF takeOperationResult, IInv, TypeOK

\* Bookkeeping of an active slot that leaves kind, phase and count alone.
LEMMA ActiveKeepsIInv ==
  ASSUME IInv, slot.active, (slot \in Slots)',
         slot'.active, slot'.pending = slot.pending, slot'.kind = slot.kind,
         slot'.phase = slot.phase, slot'.used = slot.used,
         UNCHANGED <<chip, bound, ev, stale, excused, owed>>, (late \in BOOLEAN)',
         (call \in Calls)', call'.stage \in {"IDLE", "POLLING"},
         call'.stage = "POLLING" => call'.left > 0
  PROVE  IInv'
<1>1. TypeOK'
  BY QuietStep DEF IInv, TypeOK
<1>2. ExactlyOnce' /\ ActiveOwnsBus' /\ TransfersSuffice'
  BY DEF IInv, ExactlyOnce, ActiveOwnsBus, TransfersSuffice
<1>3. SlotInv' /\ CallInv'
  BY DEF IInv, SlotInv, CallInv
<1> QED BY <1>1, <1>2, <1>3, QuietStep DEF IInv

\* Ending the operation between two calls preserves the invariant.
LEMMA FinishKeepsIInv ==
  ASSUME IInv, slot.active, NEW outcome \in Outcome, NEW phase \in OperationPhase,
         slot' = finish(slot, ev, outcome, phase), EvidenceInv', call' = Idle,
         (bound \in BOOLEAN)', (late \in BOOLEAN)', owed' = owed
  PROVE  IInv'
<1>1. slot' \in Slots /\ ~slot'.active /\ slot'.pending
  BY FinishTyped DEF IInv, TypeOK
<1>2. owed' = 1
  BY DEF IInv, ExactlyOnce
<1> QED BY <1>1, <1>2, InactiveKeepsIInv

\* Cancellation and the caller's timeout preserve the invariant.
LEMMA RequestKeepsIInv ==
  ASSUME IInv, NEW outcome \in {"CANCELLED", "TIMED_OUT"}, requestTerminal(outcome)
  PROVE  IInv'
<1>1. outcome \in Outcome /\ slot.phase \in OperationPhase /\ slot \in Slots /\ slot.active
  BY DEF Outcome, IInv, TypeOK, Slots, requestTerminal
<1>2. call' = Idle /\ UNCHANGED <<chip, bound, ev, stale, excused, owed>> /\ late' \in BOOLEAN
  BY DEF requestTerminal, IInv, TypeOK
<1>3. CASE CleanupOwed(slot)
  <2>1. slot' = [slot EXCEPT !.requested = outcome, !.requestedPhase = slot.phase]
    BY <1>3 DEF requestTerminal
  <2>2. /\ slot' \in Slots
        /\ slot'.active /\ slot'.pending = slot.pending /\ slot'.kind = slot.kind
        /\ slot'.phase = slot.phase /\ slot'.used = slot.used
    BY <1>1, <2>1 DEF Slots
  <2> QED BY <1>1, <1>2, <2>2, ActiveKeepsIInv, IdleStage
<1>4. CASE ~CleanupOwed(slot)
  <2>1. slot' = finish(slot, ev, outcome, slot.phase)
    BY <1>4 DEF requestTerminal
  <2> QED BY <1>1, <1>2, <2>1, FinishKeepsIInv, QuietEvidence DEF IInv, TypeOK
<1> QED BY <1>3, <1>4

\* A new binding preserves the invariant.
LEMMA BindKeepsIInv ==
  ASSUME IInv, bind
  PROVE  IInv'
<1>1. PorImage \in Images
  BY DEF PorImage, Images, Values
<1>2. EvidenceInv'
  BY <1>1, NoEvidenceOK, EvidencePart DEF bind, EvidenceInv, Consistent, Sound, NoEvidence
<1>3. (slot \in Slots)' /\ ~slot'.active /\ owed' = 0 /\ ~slot'.pending /\ owed' \in Nat
  BY DEF bind, IInv, TypeOK, ExactlyOnce
<1> QED BY <1>2, <1>3, InactiveKeepsIInv DEF bind, IInv, TypeOK

\* Detaching preserves the invariant: no active operation is left unbound.
LEMMA DetachKeepsIInv ==
  ASSUME IInv, detach
  PROVE  IInv'
<1>1. EvidenceInv'
  BY NoEvidenceOK, EvidencePart DEF detach, EvidenceInv, Consistent, Sound, NoEvidence, Evidence
<1>2. slot.phase \in OperationPhase /\ "CANCELLED" \in Outcome
  BY DEF Outcome, IInv, TypeOK, Slots
<1>3. bound' \in BOOLEAN /\ late' \in BOOLEAN /\ owed' = owed /\ call' = Idle
  BY DEF detach, IInv, TypeOK
<1>4. CASE slot.active
  BY <1>1, <1>2, <1>3, <1>4, FinishKeepsIInv DEF detach
<1>5. CASE ~slot.active
  <2>1. slot' = slot
    BY <1>5 DEF detach
  <2> QED BY <1>1, <1>3, <1>5, <2>1, InactiveKeepsIInv DEF IInv, TypeOK, ExactlyOnce
<1> QED BY <1>4, <1>5

\* What the entry of a poll makes of the slot.
LEMMA EnterPollFacts ==
  ASSUME IInv, slot.active
  PROVE  \/ enterPoll = finish(slot, ev, "TIMED_OUT", slot.phase)
         \/ /\ enterPoll \in Slots /\ enterPoll.active
            /\ enterPoll.pending = slot.pending /\ enterPoll.kind = slot.kind
            /\ enterPoll.phase = slot.phase /\ enterPoll.used = slot.used
<1>1. slot \in Slots /\ slot.phase \in OperationPhase /\ "TIMED_OUT" \in Outcome
  BY DEF IInv, TypeOK, Slots, Outcome
<1>2. CASE ~late
  BY <1>1, <1>2 DEF enterPoll
<1>3. CASE late /\ ~CleanupOwed(slot)
  BY <1>3 DEF enterPoll
<1>4. CASE late /\ CleanupOwed(slot)
  <2> DEFINE cause == IF slot.requested = "NONE" THEN "TIMED_OUT" ELSE slot.requested
             phase == IF slot.requested = "NONE" THEN slot.phase ELSE slot.requestedPhase
  <2>1. enterPoll = [slot EXCEPT !.cleanupAfterDeadline = TRUE, !.requested = cause,
                                 !.requestedPhase = phase]
    BY <1>1, <1>4 DEF enterPoll, Slots
  <2>2. cause \in Outcome /\ phase \in OperationPhase
    BY <1>1 DEF Slots
  <2> HIDE DEF cause, phase
  <2> QED BY <1>1, <2>1, <2>2 DEF Slots
<1> QED BY <1>2, <1>3, <1>4

\* An active operation has one to eight transactions left.
LEMMA RemainingBound ==
  ASSUME IInv, slot.active
  PROVE  Remaining \in 1..MaxBudget
<1>1. slot.kind \in {"APPLY_IMAGE", "VERIFY_IMAGE", "READ_INPUTS"} /\ slot.used \in 0..MaxBudget
  BY CallerAssumption DEF CallerAssumption, IInv, SlotInv, TypeOK, Slots
<1>2. MaxTransactions[slot.kind] \in 1..8
  BY <1>1 DEF MaxTransactions
<1> QED BY <1>1, <1>2 DEF Remaining, MaxBudget

\* A poll's rest of callbacks is a call.
LEMMA PollingTyped ==
  ASSUME NEW left \in 0..MaxBudget
  PROVE  /\ Polling(left) \in Calls
         /\ Polling(left).stage \in {"IDLE", "POLLING"}
         /\ left > 0 => Polling(left).stage = "POLLING"
         /\ Polling(left).stage = "POLLING" => Polling(left).left > 0
<1>1. CASE left = 0
  BY <1>1, IdleStage DEF Polling
<1>2. CASE left # 0
  <2>1. Polling(left) = [stage |-> "POLLING", value |-> {}, port |-> 0, left |-> left]
    BY <1>2 DEF Polling, Idle
  <2>2. left > 0
    BY <1>2 DEF MaxBudget
  <2>3. {} \in Values /\ 0 \in Ports /\ "POLLING" \in Stages
    BY DEF Values, Ports, Stages
  <2> QED BY <2>1, <2>2, <2>3 DEF Calls
<1> QED BY <1>1, <1>2

\* Entering a poll preserves the invariant.
LEMMA PollKeepsIInv ==
  ASSUME IInv, pollOperation \/ pollWithoutBudget
  PROVE  IInv'
<1>1. /\ slot.active /\ call = Idle /\ slot' = enterPoll
      /\ UNCHANGED <<chip, bound, ev, stale, excused, owed>>
      /\ late' \in BOOLEAN
  BY DEF pollOperation, pollWithoutBudget, IInv, TypeOK
<1>2. slot.phase \in OperationPhase /\ "TIMED_OUT" \in Outcome /\ slot \in Slots
  BY DEF Outcome, IInv, TypeOK, Slots
<1>3. CASE slot' = finish(slot, ev, "TIMED_OUT", slot.phase)
  <2>1. ~slot'.active
    BY <1>2, <1>3, FinishTyped DEF IInv, TypeOK
  <2>2. call' = Idle
    BY <1>1, <2>1 DEF pollOperation, pollWithoutBudget
  <2> QED BY <1>1, <1>2, <1>3, <2>2, FinishKeepsIInv, QuietEvidence DEF IInv, TypeOK
<1>4. CASE slot' # finish(slot, ev, "TIMED_OUT", slot.phase)
  <2>1. /\ slot' \in Slots /\ slot'.active
        /\ slot'.pending = slot.pending /\ slot'.kind = slot.kind
        /\ slot'.phase = slot.phase /\ slot'.used = slot.used
    BY <1>1, <1>4, EnterPollFacts
  <2>2. call' = Idle \/ \E limit \in 1..Remaining : call' = Polling(limit)
    BY <1>1, <2>1 DEF pollOperation, pollWithoutBudget
  <2>3. /\ call' \in Calls
        /\ call'.stage \in {"IDLE", "POLLING"}
        /\ call'.stage = "POLLING" => call'.left > 0
    <3>1. CASE call' = Idle
      BY <3>1, IdleStage
    <3>2. ASSUME NEW limit \in 1..Remaining, call' = Polling(limit)
          PROVE  call' \in Calls /\ call'.stage = "POLLING" /\ call'.left > 0
      <4>1. limit \in 1..MaxBudget
        BY <1>1, RemainingBound DEF MaxBudget
      <4> QED BY <3>2, <4>1, PollingTyped DEF MaxBudget
    <3> QED BY <2>2, <3>1, <3>2
  <2> QED BY <1>1, <2>1, <2>3, ActiveKeepsIInv
<1> QED BY <1>3, <1>4

\* The passing of the deadline preserves the invariant.
LEMMA DeadlineKeepsIInv ==
  ASSUME IInv, DeadlinePasses
  PROVE  IInv'
<1>1. UNCHANGED <<chip, bound, ev, slot, call, stale, excused, owed>> /\ late' \in BOOLEAN
  BY DEF DeadlinePasses
<1>2. TypeOK'
  BY <1>1, QuietStep DEF IInv, TypeOK
<1>3. ExactlyOnce' /\ ActiveOwnsBus' /\ TransfersSuffice' /\ CallInv' /\ SlotInv'
  BY <1>1 DEF IInv, ExactlyOnce, ActiveOwnsBus, TransfersSuffice, CallInv, SlotInv
<1> QED BY <1>1, <1>2, <1>3, QuietStep DEF IInv

\* A power loss preserves the invariant: every bit it resets is on record as stale.
LEMMA PowerCycleKeepsIInv ==
  ASSUME IInv, PowerCycle
  PROVE  IInv'
<1>1. /\ chip' = PowerOnChip /\ stale' = [pair \in WritablePairs |-> Pins] /\ excused' = TRUE
      /\ UNCHANGED <<bound, ev, slot, call, late, owed>>
  BY DEF PowerCycle
<1>2. EvidenceInv'
  <2>1. chip' \in Chip
    BY <1>1 DEF PowerOnChip, Chip, PorImage, Images, Values, Pairs
  <2>2. stale' \in Resets
    BY <1>1 DEF Resets, Values
  <2>3. Sound(ev, chip.regs, stale)'
    BY <1>1, EvidencePart DEF Sound, EvidenceInv, Evidence
  <2>4. (ev \in Evidence)' /\ Consistent(ev)' /\ excused' \in BOOLEAN
    BY <1>1, EvidencePart DEF EvidenceInv, Consistent
  <2> QED BY <2>1, <2>2, <2>3, <2>4 DEF EvidenceInv
<1>3. TypeOK'
  BY <1>1, <1>2, EvidencePartNext DEF IInv, TypeOK
<1>4. ExactlyOnce' /\ ActiveOwnsBus' /\ TransfersSuffice' /\ CallInv' /\ SlotInv'
  BY <1>1 DEF IInv, ExactlyOnce, ActiveOwnsBus, TransfersSuffice, CallInv, SlotInv
<1> QED BY <1>2, <1>3, <1>4, EvidencePartNext DEF IInv

-----------------------------------------------------------------------------
(* The operation slot: the callbacks. *)

\* What the slot s may be once the callback of the active slot is over.
NextSlot(s) ==
  /\ s \in Slots
  /\ s.used = slot.used
  /\ s.kind = slot.kind
  /\ ~s.active => s.pending
  /\ s.active =>
       /\ s.pending = slot.pending
       /\ s.phase \in DOMAIN CallbacksFrom[slot.kind]
       /\ CallbacksFrom[slot.kind][s.phase] + 1 = CallbacksFrom[slot.kind][slot.phase]
       /\ s.phase \in {"APPLY_POLARITY", "APPLY_DIRECTIONS"} => "OUTPUTS" \in ev'.valid

\* A transfer leaves the evidence in order, and the slot in step with its phase.
Advanced == EvidenceInv' /\ \E s : NextSlot(s) /\ transferred(s)

\* Before a transfer an operation has used less than its maximum.
LEMMA UsedBelowMax ==
  ASSUME IInv, slot.active
  PROVE  /\ slot.kind \in {"APPLY_IMAGE", "VERIFY_IMAGE", "READ_INPUTS"}
         /\ slot.phase \in DOMAIN CallbacksFrom[slot.kind]
         /\ slot.used \in 0..7
         /\ slot.used + CallbacksFrom[slot.kind][slot.phase] = MaxTransactions[slot.kind]
         /\ \A phase \in DOMAIN CallbacksFrom[slot.kind] : CallbacksFrom[slot.kind][phase] \in 1..8
         /\ MaxTransactions[slot.kind] \in 1..8
<1>1. slot.kind \in {"APPLY_IMAGE", "VERIFY_IMAGE", "READ_INPUTS"} /\ slot.used \in 0..8
  BY CallerAssumption DEF CallerAssumption, IInv, SlotInv, TypeOK, Slots, MaxBudget
<1>2. /\ slot.phase \in DOMAIN CallbacksFrom[slot.kind]
      /\ slot.used + CallbacksFrom[slot.kind][slot.phase] = MaxTransactions[slot.kind]
  BY DEF IInv, TransfersSuffice
<1>3. /\ \A phase \in DOMAIN CallbacksFrom[slot.kind] : CallbacksFrom[slot.kind][phase] \in 1..8
      /\ MaxTransactions[slot.kind] \in 1..8
  BY <1>1 DEF CallbacksFrom, MaxTransactions
<1> QED BY <1>1, <1>2, <1>3

\* The loop's bookkeeping preserves the invariant when the slot stays in step with
\* its phase.
LEMMA TransferKeepsIInv ==
  ASSUME IInv, slot.active, call.stage = "POLLING", EvidenceInv',
         NEW s, NextSlot(s), transferred(s)
  PROVE  IInv'
<1>1. /\ slot' = [s EXCEPT !.used = @ + 1]
      /\ call' = IF s.active THEN Polling(call.left - 1) ELSE Idle
      /\ late' = (late /\ s.active)
      /\ bound' = bound /\ owed' = owed
  BY DEF transferred
<1>2. s \in Slots /\ s.used = slot.used /\ slot.used \in 0..7
  BY UsedBelowMax DEF NextSlot
<1>3. /\ slot' \in Slots /\ slot'.used = slot.used + 1
      /\ slot'.active = s.active /\ slot'.pending = s.pending
      /\ slot'.kind = s.kind /\ slot'.phase = s.phase
  BY <1>1, <1>2 DEF Slots, MaxBudget
<1>4. late' \in BOOLEAN /\ bound' \in BOOLEAN /\ owed' = 1 /\ ~slot.pending /\ bound
  BY <1>1 DEF IInv, TypeOK, ExactlyOnce, ActiveOwnsBus
<1>5. CASE ~s.active
  <2>1. ~slot'.active /\ slot'.pending /\ call' = Idle /\ owed' \in Nat
    BY <1>1, <1>3, <1>4, <1>5 DEF NextSlot
  <2> QED BY <1>3, <1>4, <2>1, InactiveKeepsIInv
<1>6. CASE s.active
  <2>1. call.left - 1 \in 0..MaxBudget
    BY DEF IInv, TypeOK, Calls, CallInv, MaxBudget
  <2>2. /\ call' \in Calls
        /\ call'.stage \in {"IDLE", "POLLING"}
        /\ call'.stage = "POLLING" => call'.left > 0
    BY <1>1, <1>6, <2>1, PollingTyped
  <2>3. TypeOK'
    BY <1>3, <1>4, <2>2, EvidencePartNext DEF TypeOK
  <2>4. ExactlyOnce' /\ ActiveOwnsBus'
    BY <1>1, <1>3, <1>4, <1>6, <2>2 DEF ExactlyOnce, ActiveOwnsBus, NextSlot
  <2>5. TransfersSuffice'
    <3>1. /\ s.phase \in DOMAIN CallbacksFrom[slot.kind]
          /\ CallbacksFrom[slot.kind][s.phase] + 1 = CallbacksFrom[slot.kind][slot.phase]
          /\ s.kind = slot.kind
      BY <1>6 DEF NextSlot
    <3>2. slot.used + 1 + CallbacksFrom[slot.kind][s.phase] = MaxTransactions[slot.kind]
      BY <3>1, UsedBelowMax
    <3> QED BY <1>3, <3>1, <3>2 DEF TransfersSuffice
  <2>6. CallInv' /\ SlotInv'
    BY <1>3, <1>6, <2>2 DEF CallInv, SlotInv, NextSlot, IInv
  <2> QED BY <2>3, <2>4, <2>5, <2>6, EvidencePartNext DEF IInv
<1> QED BY <1>5, <1>6

\* A finished slot is one of them, whatever was noted in it before.
LEMMA FinishIsNext ==
  ASSUME NEW t \in Slots, t.used = slot.used, t.kind = slot.kind, NEW e \in Evidence,
         NEW outcome \in Outcome, NEW phase \in OperationPhase
  PROVE  NextSlot(finish(t, e, outcome, phase))
<1>1. finish(t, e, outcome, phase).kind = t.kind
  BY DEF finish, Slots
<1> QED BY <1>1, FinishTyped DEF NextSlot

\* The APPLY_* transfers do,
LEMMA ApplyPairAdvances ==
  ASSUME IInv, slot.active, call.stage = "POLLING", applyPair
  PROVE  Advanced
<1>1. PICK pair \in WritablePairs, outcome \in WriteOutcome[3] :
        /\ slot.phase = ApplyPhase[pair]
        /\ writePairTo(pair, slot.expected[pair], outcome)
        /\ LET written == [slot EXCEPT !.lastWriteEffect = outcome.effect] IN
           transferred(
             IF outcome.ok
             THEN [written EXCEPT !.completed = @ \cup {pair}, !.phase = AfterApply[pair]]
             ELSE finish(written, ev',
                         IF outcome.effect = "MAY_HAVE_COMMITTED" THEN "INDETERMINATE" ELSE "FAILED",
                         slot.phase))
  BY DEF applyPair
<1> DEFINE written == [slot EXCEPT !.lastWriteEffect = outcome.effect]
           verdict == IF outcome.effect = "MAY_HAVE_COMMITTED" THEN "INDETERMINATE" ELSE "FAILED"
<1>2. slot \in Slots /\ slot.expected[pair] \in Values /\ pair \in Pairs
  BY DEF IInv, TypeOK, Slots, Images, Pairs
<1>3. EvidenceInv'
  BY <1>1, <1>2, EvidencePart, WritePairKeeps
<1>4. outcome.effect \in WriteEffect
  BY WriteOutcomeFacts DEF WriteEffect
<1>5. /\ written \in Slots /\ written.used = slot.used /\ written.kind = slot.kind
      /\ written.active = slot.active /\ written.pending = slot.pending /\ written.phase = slot.phase
  BY <1>2, <1>4 DEF Slots
<1>6. CASE ~outcome.ok
  <2>1. verdict \in Outcome /\ slot.phase \in OperationPhase /\ ev' \in Evidence
    BY <1>2, <1>3 DEF Outcome, Slots, EvidenceInv
  <2>2. NextSlot(finish(written, ev', verdict, slot.phase))
    BY <1>5, <2>1, FinishIsNext
  <2> QED BY <1>1, <1>3, <1>6, <2>2 DEF Advanced
<1>7. CASE outcome.ok
  <2> DEFINE s == [written EXCEPT !.completed = @ \cup {pair}, !.phase = AfterApply[pair]]
  <2>1. AfterApply[pair] \in OperationPhase
    BY DEF AfterApply, OperationPhase, AppliedPhases, VerifiedPhases, ApplyPhase, VerifyPhase, WritablePairs
  <2>2. /\ s \in Slots /\ s.used = slot.used /\ s.kind = slot.kind
        /\ s.active = slot.active /\ s.pending = slot.pending /\ s.phase = AfterApply[pair]
    BY <1>2, <1>5, <2>1 DEF Slots
  <2>3. slot.kind = "APPLY_IMAGE"
    BY <1>1, UsedBelowMax DEF CallbacksFrom, ApplyPhase, WritablePairs
  <2>4. /\ AfterApply[pair] \in DOMAIN CallbacksFrom[slot.kind]
        /\ CallbacksFrom[slot.kind][AfterApply[pair]] + 1 = CallbacksFrom[slot.kind][slot.phase]
    BY <1>1, <2>3 DEF CallbacksFrom, ApplyPhase, AfterApply, WritablePairs
  <2>5. AfterApply[pair] \in {"APPLY_POLARITY", "APPLY_DIRECTIONS"} => "OUTPUTS" \in ev'.valid
    <3>1. outcome.effect = "COMMITTED"
      BY <1>7, WriteOutcomeFacts
    <3>2. ev' = writeRegs(ev, pair, slot.expected[pair], TRUE, outcome)
      BY <1>1 DEF writePairTo
    <3>3. CASE pair = "OUTPUTS"
      BY <1>7, <3>1, <3>2, <3>3, LatchesValid, EvidencePart
    <3>4. CASE pair # "OUTPUTS"
      <4>1. ev' = establishShadowPair(ev, pair, slot.expected[pair])
        BY <1>7, <3>1, <3>2 DEF writeRegs
      <4>2. ev'.valid = ev.valid \cup {pair}
        BY <4>1 DEF establishShadowPair, IInv, TypeOK, Evidence
      <4>3. slot.phase \in {"APPLY_POLARITY", "APPLY_DIRECTIONS"}
        BY <1>1, <3>4 DEF ApplyPhase, WritablePairs
      <4> QED BY <4>2, <4>3 DEF IInv, SlotInv
    <3> QED BY <3>3, <3>4
  <2>6. NextSlot(s)
    <3> HIDE DEF s
    <3> QED BY <2>2, <2>4, <2>5 DEF NextSlot
  <2> QED BY <1>1, <1>3, <1>7, <2>6 DEF Advanced
<1> QED BY <1>6, <1>7

\* A verify readback keeps the evidence invariant, match or not.
LEMMA VerifyPairKeepsEvidence ==
  ASSUME EvidenceInv, NEW pair \in WritablePairs, NEW outcome \in ReadOutcome[2], NEW expected \in Values,
         Command(pair, outcome),
         stale' = IF outcome.ok THEN [stale EXCEPT ![pair] = {}] ELSE stale,
         ev' = IF outcome.ok
               THEN compareObserved(recordPairObservation(ev, pair, chip.regs[pair]), pair, expected)
               ELSE failedPairRead(ev, pair)
  PROVE  EvidenceInv'
<1>1. pair \in Pairs /\ excused' \in BOOLEAN
  BY DEF Command, Pairs
<1>2. chip' \in Chip /\ chip'.regs = chip.regs
  BY <1>1, ReadOutcomeFacts, CommandKeepsRegisters DEF Command
<1>3. chip.regs[pair] \in Values
  BY DEF EvidenceInv, Chip, Images
<1>4. CASE outcome.ok
  <2> DEFINE read == recordPairObservation(ev, pair, chip.regs[pair])
             left == [stale EXCEPT ![pair] = {}]
  <2>1. read \in Evidence /\ Consistent(read)
    BY <1>3, RecordPairOK DEF EvidenceInv
  <2>2. left \in Resets
    BY DEF EvidenceInv, Resets, Values
  <2>3. Sound(read, chip.regs, left)
    BY RecordPairSound DEF EvidenceInv
  <2>4. read.observed[pair] = chip.regs[pair]
    BY <1>3 DEF recordPairObservation, EvidenceInv, Evidence, Images
  <2>5. compareObserved(read, pair, expected) \in Evidence /\ Consistent(compareObserved(read, pair, expected))
    <3> HIDE DEF read
    <3> QED BY <2>1, EstablishOK DEF compareObserved
  <2>6. Sound(compareObserved(read, pair, expected), chip.regs, left)
    <3> HIDE DEF read, left
    <3> QED BY <2>1, <2>2, <2>3, <2>4, CompareSound DEF EvidenceInv
  <2>7. ev' = compareObserved(read, pair, expected) /\ stale' = left
    BY <1>4
  <2>8. Consistent(ev)' /\ Sound(ev, chip.regs, stale)'
    <3> HIDE DEF read, left
    <3> QED BY <1>2, <2>5, <2>6, <2>7 DEF Consistent, Sound
  <2> HIDE DEF read, left
  <2> QED BY <1>1, <1>2, <2>2, <2>5, <2>7, <2>8 DEF EvidenceInv
<1>5. CASE ~outcome.ok
  <2>1. ev' = failedPairRead(ev, pair) /\ stale' = stale
    BY <1>5
  <2>2. ev' \in Evidence /\ Consistent(ev')
    BY <1>1, <2>1, InputEvidenceOK DEF EvidenceInv
  <2>3. ev'.valid = ev.valid /\ ev'.shadow = ev.shadow
    BY <2>1 DEF failedPairRead, EvidenceInv, Evidence
  <2>4. Consistent(ev)' /\ Sound(ev, chip.regs, stale)'
    BY <1>2, <2>1, <2>2, <2>3 DEF Consistent, Sound, EvidenceInv
  <2> QED BY <1>1, <1>2, <2>1, <2>2, <2>4 DEF EvidenceInv
<1> QED BY <1>4, <1>5

\* and the VERIFY_* transfers,
LEMMA VerifyPairAdvances ==
  ASSUME IInv, slot.active, call.stage = "POLLING", verifyPair
  PROVE  Advanced
<1>1. PICK pair \in WritablePairs, outcome \in ReadOutcome[2] :
    /\ slot.phase = VerifyPhase[pair]
    /\ Command(pair, outcome)
    /\ stale' = IF outcome.ok THEN [stale EXCEPT ![pair] = {}] ELSE stale
    /\ ev' = IF outcome.ok
             THEN compareObserved(recordPairObservation(ev, pair, chip.regs[pair]),
                                  pair, slot.expected[pair])
             ELSE failedPairRead(ev, pair)
    /\ LET seen == [slot EXCEPT !.seen = @ \cup {pair}, !.completed = @ \cup {pair},
                                !.mismatch = differing(slot, pair)] IN
       transferred(
         CASE ~outcome.ok -> finish(slot, ev', "FAILED", slot.phase)
           [] outcome.ok /\ pair # "DIRECTIONS" -> [seen EXCEPT !.phase = AfterVerify[pair]]
           [] outcome.ok /\ pair = "DIRECTIONS" /\ seen.mismatch # {} ->
                finish(seen, ev', "MISMATCH", slot.phase)
           [] outcome.ok /\ pair = "DIRECTIONS" /\ seen.mismatch = {} ->
                IF slot.kind = "APPLY_IMAGE" THEN [seen EXCEPT !.phase = "READ_INPUTS"]
                ELSE finish(seen, ev', "SUCCEEDED", slot.phase))
  BY DEF verifyPair
<1> DEFINE seen == [slot EXCEPT !.seen = @ \cup {pair}, !.completed = @ \cup {pair},
                                !.mismatch = differing(slot, pair)]
<1>2. slot \in Slots /\ slot.expected[pair] \in Values /\ pair \in Pairs
  BY DEF IInv, TypeOK, Slots, Images, Pairs
<1>3. EvidenceInv'
  BY <1>1, <1>2, EvidencePart, VerifyPairKeepsEvidence
<1>4. /\ seen \in Slots /\ seen.used = slot.used /\ seen.kind = slot.kind
      /\ seen.active = slot.active /\ seen.pending = slot.pending /\ seen.phase = slot.phase
  BY <1>2 DEF Slots, differing
<1>5. /\ {"FAILED", "MISMATCH", "SUCCEEDED"} \subseteq Outcome
      /\ slot.phase \in OperationPhase /\ ev' \in Evidence
  BY <1>2, <1>3 DEF Outcome, Slots, EvidenceInv
<1>6. outcome.ok \in BOOLEAN
  BY ReadOutcomeFacts
<1>7. PICK s : transferred(s) /\ \/ s = finish(slot, ev', "FAILED", slot.phase)
                                 \/ pair # "DIRECTIONS" /\ s = [seen EXCEPT !.phase = AfterVerify[pair]]
                                 \/ s = finish(seen, ev', "MISMATCH", slot.phase)
                                 \/ s = finish(seen, ev', "SUCCEEDED", slot.phase)
                                 \/ /\ pair = "DIRECTIONS" /\ slot.kind = "APPLY_IMAGE"
                                    /\ s = [seen EXCEPT !.phase = "READ_INPUTS"]
  <2> HIDE DEF seen
  <2>1. CASE ~outcome.ok
    BY <1>1, <2>1
  <2>2. CASE outcome.ok /\ pair # "DIRECTIONS"
    BY <1>1, <2>2 DEF seen
  <2>3. CASE outcome.ok /\ pair = "DIRECTIONS" /\ seen.mismatch # {}
    BY <1>1, <2>3 DEF seen
  <2>4. CASE outcome.ok /\ pair = "DIRECTIONS" /\ seen.mismatch = {}
    BY <1>1, <2>4 DEF seen
  <2> QED BY <1>6, <2>1, <2>2, <2>3, <2>4
<1> HIDE DEF seen
<1>8. CASE s = finish(slot, ev', "FAILED", slot.phase)
  BY <1>2, <1>5, <1>8, FinishIsNext, <1>7, <1>3 DEF Advanced
<1>9. CASE s = finish(seen, ev', "MISMATCH", slot.phase) \/ s = finish(seen, ev', "SUCCEEDED", slot.phase)
  BY <1>4, <1>5, <1>9, FinishIsNext, <1>7, <1>3 DEF Advanced
<1>10. ASSUME NEW phase, s = [seen EXCEPT !.phase = phase],
              \/ pair # "DIRECTIONS" /\ phase = AfterVerify[pair]
              \/ pair = "DIRECTIONS" /\ slot.kind = "APPLY_IMAGE" /\ phase = "READ_INPUTS"
       PROVE  Advanced
  <2>1. phase \in OperationPhase \ {"APPLY_POLARITY", "APPLY_DIRECTIONS"}
    BY <1>10 DEF AfterVerify, OperationPhase, AppliedPhases, VerifiedPhases, ApplyPhase, VerifyPhase,
       WritablePairs
  <2>2. /\ s \in Slots /\ s.used = slot.used /\ s.kind = slot.kind /\ s.phase = phase
        /\ s.active = slot.active /\ s.pending = slot.pending
    BY <1>4, <1>10, <2>1 DEF Slots
  <2>3. slot.kind \in {"APPLY_IMAGE", "VERIFY_IMAGE"}
    BY <1>1, UsedBelowMax DEF CallbacksFrom, VerifyPhase, WritablePairs
  <2>4. /\ phase \in DOMAIN CallbacksFrom[slot.kind]
        /\ CallbacksFrom[slot.kind][phase] + 1 = CallbacksFrom[slot.kind][slot.phase]
    <3>1. CASE slot.kind = "APPLY_IMAGE"
      BY <1>1, <1>10, <3>1 DEF CallbacksFrom, VerifyPhase, AfterVerify, WritablePairs
    <3>2. CASE slot.kind = "VERIFY_IMAGE"
      BY <1>1, <1>10, <3>2 DEF CallbacksFrom, VerifyPhase, AfterVerify, WritablePairs
    <3> QED BY <2>3, <3>1, <3>2
  <2>5. NextSlot(s)
    BY <2>1, <2>2, <2>4 DEF NextSlot
  <2> QED BY <1>3, <1>7, <2>5 DEF Advanced
<1> QED BY <1>7, <1>8, <1>9, <1>10

\* the READ_INPUTS transfer,
LEMMA ReadInputsAdvances ==
  ASSUME IInv, slot.active, call.stage = "POLLING", readInputsTransfer
  PROVE  Advanced
<1>1. PICK outcome \in ReadOutcome[2] :
    /\ slot.phase = "READ_INPUTS"
    /\ Command("INPUTS", outcome)
    /\ ev' = IF outcome.ok THEN recordInputs(ev) ELSE failedPairRead(ev, "INPUTS")
    /\ UNCHANGED stale
    /\ LET parking == [slot EXCEPT !.cleanupRequired = TRUE, !.phase = "POINTER_PARK"] IN
       transferred(
         CASE outcome.ok -> [parking EXCEPT !.seen = @ \cup {"INPUTS"},
                                            !.completed = @ \cup {"INPUTS"}]
           [] ~outcome.ok /\ outcome.effect # "NOT_ATTEMPTED" ->
                [parking EXCEPT !.requested = "FAILED", !.requestedPhase = slot.phase]
           [] OTHER -> finish(slot, ev', "FAILED", slot.phase))
  BY DEF readInputsTransfer
<1> DEFINE parking == [slot EXCEPT !.cleanupRequired = TRUE, !.phase = "POINTER_PARK"]
           parkingRead == [parking EXCEPT !.seen = @ \cup {"INPUTS"}, !.completed = @ \cup {"INPUTS"}]
           parkingFailed == [parking EXCEPT !.requested = "FAILED", !.requestedPhase = slot.phase]
           failed == finish(slot, ev', "FAILED", slot.phase)
<1>2. slot \in Slots /\ "INPUTS" \in Pairs /\ "POINTER_PARK" \in OperationPhase /\ "FAILED" \in Outcome
  BY DEF IInv, TypeOK, Pairs, OperationPhase, Outcome
<1>3. EvidenceInv'
  <2>1. chip' \in Chip /\ chip'.regs = chip.regs
    BY <1>1, <1>2, ReadOutcomeFacts, EvidencePart, CommandKeepsRegisters DEF Command
  <2>2. stale' = stale /\ excused' \in BOOLEAN
    BY <1>1 DEF Command
  <2> QED BY <1>1, <2>1, <2>2, EvidencePart, PointerStepKeeps
<1>4. transferred(parkingRead) \/ transferred(parkingFailed) \/ transferred(failed)
  <2> HIDE DEF parkingRead, parkingFailed, failed
  <2>1. transferred(CASE outcome.ok -> parkingRead
                      [] ~outcome.ok /\ outcome.effect # "NOT_ATTEMPTED" -> parkingFailed
                      [] OTHER -> failed)
    BY <1>1 DEF parkingRead, parkingFailed, failed
  <2>2. CASE outcome.ok
    BY <2>1, <2>2, Zenon
  <2>3. CASE ~outcome.ok /\ outcome.effect # "NOT_ATTEMPTED"
    BY <2>1, <2>3, Zenon
  <2>4. CASE ~outcome.ok /\ outcome.effect = "NOT_ATTEMPTED"
    BY <2>1, <2>4, Zenon
  <2> QED BY <2>2, <2>3, <2>4
<1>5. ASSUME transferred(failed)
      PROVE  Advanced
  <2>1. NextSlot(failed)
    BY <1>2, <1>3, FinishIsNext DEF EvidenceInv, Slots
  <2> QED BY <1>3, <1>5, <2>1 DEF Advanced
<1>6. ASSUME NEW s \in Slots, s.used = slot.used, s.kind = slot.kind, s.active, s.pending = slot.pending,
             s.phase = "POINTER_PARK"
      PROVE  NextSlot(s)
  BY <1>1, <1>6, UsedBelowMax DEF NextSlot, CallbacksFrom
<1>7. /\ parkingRead \in Slots /\ parkingRead.used = slot.used /\ parkingRead.kind = slot.kind
      /\ parkingRead.active /\ parkingRead.pending = slot.pending /\ parkingRead.phase = "POINTER_PARK"
  BY <1>2 DEF Slots
<1>8. /\ parkingFailed \in Slots /\ parkingFailed.used = slot.used /\ parkingFailed.kind = slot.kind
      /\ parkingFailed.active /\ parkingFailed.pending = slot.pending
      /\ parkingFailed.phase = "POINTER_PARK"
  BY <1>2 DEF Slots
<1> HIDE DEF parkingRead, parkingFailed, failed
<1>9. NextSlot(parkingRead) /\ NextSlot(parkingFailed)
  BY <1>6, <1>7, <1>8
<1> QED BY <1>3, <1>4, <1>5, <1>9 DEF Advanced

\* and the park.
LEMMA ParkAdvances ==
  ASSUME IInv, slot.active, call.stage = "POLLING", parkTransfer
  PROVE  Advanced
<1>1. PICK outcome \in WriteOutcome[1] :
    /\ slot.phase = "POINTER_PARK"
    /\ parkPointer(outcome)
    /\ UNCHANGED ev
    /\ LET attempted == [slot EXCEPT !.cleanupAttempted = TRUE,
                                     !.cleanupRequired = @ /\ ~outcome.ok] IN
       transferred(
         IF slot.requested # "NONE"
         THEN finish(attempted, ev, slot.requested, slot.requestedPhase)
         ELSE finish(attempted, ev, IF outcome.ok THEN "SUCCEEDED" ELSE "FAILED", slot.phase))
  BY DEF parkTransfer
<1> DEFINE attempted == [slot EXCEPT !.cleanupAttempted = TRUE, !.cleanupRequired = @ /\ ~outcome.ok]
           verdict == IF slot.requested # "NONE" THEN slot.requested
                      ELSE IF outcome.ok THEN "SUCCEEDED" ELSE "FAILED"
           phase == IF slot.requested # "NONE" THEN slot.requestedPhase ELSE slot.phase
<1>2. slot \in Slots /\ ev \in Evidence
  BY DEF IInv, TypeOK
<1>3. EvidenceInv'
  BY <1>1, EvidencePart, ParkKeeps
<1>4. attempted \in Slots /\ attempted.used = slot.used /\ attempted.kind = slot.kind
  BY <1>2 DEF Slots
<1>5. verdict \in Outcome /\ phase \in OperationPhase
  BY <1>2 DEF Slots, Outcome
<1>6. transferred(finish(attempted, ev, verdict, phase))
  BY <1>1
<1> HIDE DEF attempted, verdict, phase
<1>7. NextSlot(finish(attempted, ev, verdict, phase))
  BY <1>2, <1>4, <1>5, FinishIsNext
<1> QED BY <1>3, <1>6, <1>7 DEF Advanced

\* Every transfer of the active operation.
LEMMA TransferAdvances ==
  ASSUME IInv, executeOperationTransfer
  PROVE  slot.active /\ call.stage = "POLLING" /\ Advanced
<1>1. call.stage = "POLLING" /\ slot.active
  BY DEF executeOperationTransfer, IInv, CallInv
<1> QED BY <1>1, ApplyPairAdvances, VerifyPairAdvances, ReadInputsAdvances, ParkAdvances
        DEF executeOperationTransfer

-----------------------------------------------------------------------------
(* The invariant is inductive, and implies the invariants the runs check. *)

\* Every step preserves the invariant.
LEMMA NextKeepsIInv ==
  ASSUME IInv, [Next]_vars
  PROVE  IInv'
<1>1. CASE SyncCall
  BY <1>1, SyncCallStep, CallbackKeepsIInv DEF IInv
<1>2. CASE ContinueCall
  BY <1>2, ContinueCallStep, CallbackKeepsIInv DEF IInv
<1>3. CASE startApplyImage \/ startVerifyImage \/ startReadInputs
  <2>1. CallerImages \subseteq Images /\ PorImage \in Images
    BY CallerAssumption DEF CallerAssumption, PorImage, Images, Values
  <2> QED BY <1>3, <2>1, StartKeepsIInv DEF startApplyImage, startVerifyImage, startReadInputs
<1>4. CASE takeOperationResult
  BY <1>4, TakeKeepsIInv
<1>5. CASE cancelOperation \/ timeoutOperation
  BY <1>5, RequestKeepsIInv DEF cancelOperation, timeoutOperation
<1>6. CASE bind \/ detach
  BY <1>6, BindKeepsIInv, DetachKeepsIInv
<1>7. CASE pollOperation \/ pollWithoutBudget
  BY <1>7, PollKeepsIInv
<1>8. CASE executeOperationTransfer
  BY <1>8, TransferAdvances, TransferKeepsIInv DEF Advanced
<1>9. CASE DeadlinePasses
  BY <1>9, DeadlineKeepsIInv
<1>10. CASE PowerCycle
  BY <1>10, PowerCycleKeepsIInv
<1>11. CASE UNCHANGED vars
  <2>1. TypeOK'
    BY <1>11 DEF vars, IInv, TypeOK
  <2>2. EvidenceConsistent' /\ ShadowSound'
    BY <1>11, QuietStep DEF vars
  <2>3. ExactlyOnce' /\ ActiveOwnsBus' /\ TransfersSuffice' /\ CallInv' /\ SlotInv'
    BY <1>11 DEF vars, IInv, ExactlyOnce, ActiveOwnsBus, TransfersSuffice, CallInv, SlotInv
  <2> QED BY <2>1, <2>2, <2>3 DEF IInv
<1> QED BY <1>1, <1>2, <1>3, <1>4, <1>5, <1>6, <1>7, <1>8, <1>9, <1>10, <1>11 DEF Next, OperationCall

\* The strengthening holds in every state the driver can reach.
THEOREM InvariantHolds == Spec => []IInv
<1>1. Init => IInv
  BY InitIInv
<1>2. IInv /\ [Next]_vars => IInv'
  BY NextKeepsIInv
<1> QED BY <1>1, <1>2, PTL DEF Spec

\* Every variable keeps its type; in particular no operation makes more than
\* the eight callbacks for which the driver has room.
THEOREM TypeCorrect == Spec => []TypeOK
<1>1. IInv => TypeOK
  BY DEF IInv
<1> QED BY <1>1, InvariantHolds, PTL

\* A shadow that the driver calls valid is the chip's register pair, in every
\* bit that no power loss has reset: for any pins on two ports, any honest
\* transport and any sequence of calls, failures and cancellations.
THEOREM ShadowIsSound == Spec => []ShadowSound
<1>1. IInv => ShadowSound
  BY DEF IInv
<1> QED BY <1>1, InvariantHolds, PTL

\* No pair is reported valid together with uncertain or contradicted.
THEOREM EvidenceIsConsistent == Spec => []EvidenceConsistent
<1>1. IInv => EvidenceConsistent
  BY DEF IInv
<1> QED BY <1>1, InvariantHolds, PTL

\* The slot holds every admitted operation until its result is taken, once.
THEOREM NoResultLost == Spec => []ExactlyOnce
<1>1. IInv => ExactlyOnce
  BY DEF IInv
<1> QED BY <1>1, InvariantHolds, PTL

\* An active operation has its binding, and nobody else between its callbacks.
THEOREM OperationOwnsBus == Spec => []ActiveOwnsBus
<1>1. IInv => ActiveOwnsBus
  BY DEF IInv
<1> QED BY <1>1, InvariantHolds, PTL

\* An active operation never runs out of transactions before it is over.
THEOREM TransactionsNeverRunOut == Spec => []TransfersSuffice
<1>1. IInv => TransfersSuffice
  BY DEF IInv
<1> QED BY <1>1, InvariantHolds, PTL

-----------------------------------------------------------------------------
(* No output is enabled over a latch the driver does not know. *)

LatchSafe == \A pin \in Pins : Enabled(pin) => LatchKnown(pin) \/ Unmet(pin)

\* With a valid output shadow every pin is covered.
LEMMA ValidLatchesSafe ==
  ASSUME IInv, "OUTPUTS" \in ev.valid
  PROVE  LatchSafe
BY DEF LatchSafe, LatchKnown, Unmet, IInv, ShadowSound

\* A step that leaves the direction registers enables nothing.
LEMMA NoChangeSafe ==
  ASSUME chip'.regs["DIRECTIONS"] = chip.regs["DIRECTIONS"]
  PROVE  LatchSafe
BY DEF LatchSafe, Enabled

\* A write of another pair enables nothing.
LEMMA OtherPairSafe ==
  ASSUME IInv, NEW pair \in WritablePairs \ {"DIRECTIONS"}, NEW firstPort, NEW value, NEW outcome,
         Write(pair, firstPort, value, outcome)
  PROVE  LatchSafe
<1>1. chip'.regs["DIRECTIONS"] = chip.regs["DIRECTIONS"]
  BY DEF Write, AcceptWrite, IInv, TypeOK, Chip, Images, WritablePairs
<1> QED BY <1>1, NoChangeSafe

\* A command byte enables nothing.
LEMMA CommandSafe ==
  ASSUME NEW pair, NEW accepted, chip' = AcceptCommand(chip, pair, accepted), IInv
  PROVE  LatchSafe
<1>1. chip'.regs = chip.regs
  BY DEF AcceptCommand, IInv, TypeOK, Chip
<1> QED BY <1>1, NoChangeSafe

\* A direction write sets the bits it reaches to those of value, and no others.
LEMMA EnabledByWrite ==
  ASSUME IInv, NEW firstPort \in Ports, NEW value \in Values, NEW outcome,
         Write("DIRECTIONS", firstPort, value, outcome), NEW pin \in Pins, Enabled(pin)
  PROVE  /\ pin \in Reached(firstPort, outcome.accepted)
         /\ pin \in chip.regs["DIRECTIONS"] \ value
<1>1. chip'.regs["DIRECTIONS"] = Overlay(chip.regs["DIRECTIONS"], Reached(firstPort, outcome.accepted), value)
  BY DEF Write, AcceptWrite, IInv, TypeOK, Chip, Images, WritablePairs
<1> QED BY <1>1 DEF Enabled, Overlay

\* No callback of a synchronous call enables an output over an unknown latch.
LEMMA CallbackSafe ==
  ASSUME IInv, CallbackStep
  PROVE  LatchSafe
<1>1. CASE PairWriteStep
  <2>1. PICK pair \in WritablePairs, value \in Values, outcome \in WriteOutcome[3] :
          /\ Write(pair, 0, value, outcome)
          /\ pair = "DIRECTIONS" => value = Pins \/ MayEnable(value)
    BY <1>1 DEF PairWriteStep, writePairTo
  <2>2. CASE pair # "DIRECTIONS"
    BY <2>1, <2>2, OtherPairSafe
  <2>3. CASE "OUTPUTS" \in ev.valid
    BY <2>3, ValidLatchesSafe
  <2>4. CASE pair = "DIRECTIONS" /\ "OUTPUTS" \notin ev.valid
    <3>1. value = Pins \/ /\ call = Idle /\ "DIRECTIONS" \in ev.valid
                          /\ ev.shadow["DIRECTIONS"] \subseteq value
      BY <2>1, <2>4 DEF MayEnable
    <3>2. ASSUME NEW pin \in Pins, Enabled(pin)
          PROVE  Unmet(pin)
      <4>1. pin \in chip.regs["DIRECTIONS"] \ value
        BY <2>1, <2>4, <3>2, EnabledByWrite DEF Ports
      <4>2. call = Idle /\ "DIRECTIONS" \in ev.valid /\ pin \notin ev.shadow["DIRECTIONS"]
        BY <3>1, <4>1
      <4> QED BY <4>1, <4>2 DEF Unmet, IInv, ShadowSound
    <3> QED BY <3>2 DEF LatchSafe
  <2> QED BY <2>2, <2>3, <2>4
<1>2. CASE PortWriteStep
  <2>1. PICK pair \in WritablePairs, port \in Ports, outcome \in WriteOutcome[2] :
        \E value \in SUBSET PinsOf(port) :
          /\ Write(pair, port, value, outcome)
          /\ pair = "DIRECTIONS" => value = PinsOf(port) \/ "OUTPUTS" \in ev.valid
    BY <1>2 DEF PortWriteStep, writePortTo
  <2>2. PICK value \in SUBSET PinsOf(port) :
          /\ Write(pair, port, value, outcome)
          /\ pair = "DIRECTIONS" => value = PinsOf(port) \/ "OUTPUTS" \in ev.valid
    BY <2>1
  <2>3. CASE pair # "DIRECTIONS"
    BY <2>2, <2>3, OtherPairSafe
  <2>4. CASE "OUTPUTS" \in ev.valid
    BY <2>4, ValidLatchesSafe
  <2>5. CASE pair = "DIRECTIONS" /\ "OUTPUTS" \notin ev.valid
    <3>1. value = PinsOf(port) /\ value \in Values
      BY <2>2, <2>5, PortPins
    <3>2. outcome.accepted \in 0..2
      BY WriteOutcomeFacts
    <3>3. Reached(port, outcome.accepted) \subseteq PinsOf(port)
      BY <3>2 DEF Reached
    <3> QED BY <2>2, <2>5, <3>1, <3>3, EnabledByWrite DEF LatchSafe
  <2> QED BY <2>3, <2>4, <2>5
<1>3. CASE RawWriteStep
  BY <1>3, OtherPairSafe DEF RawWriteStep, RawWritablePairs
<1>4. CASE PairReadStep \/ PortReadStep
  BY <1>4, CommandSafe DEF PairReadStep, PortReadStep, readPair, readWritablePortRegister, Command
<1>5. CASE InputReadStep \/ ParkStep \/ ProbeStep
  BY <1>5, CommandSafe DEF InputReadStep, ParkStep, ProbeStep, readInputRegisters, parkPointer, Command
<1> QED BY <1>1, <1>2, <1>3, <1>4, <1>5 DEF CallbackStep

\* Nor does a transfer of an operation: APPLY_DIRECTIONS comes after APPLY_OUTPUTS.
LEMMA TransferSafe ==
  ASSUME IInv, executeOperationTransfer
  PROVE  LatchSafe
<1>1. slot.active
  BY DEF executeOperationTransfer, IInv, CallInv
<1>2. CASE applyPair
  <2>1. PICK pair \in WritablePairs, outcome \in WriteOutcome[3] :
          slot.phase = ApplyPhase[pair] /\ Write(pair, 0, slot.expected[pair], outcome)
    BY <1>2 DEF applyPair, writePairTo
  <2>2. CASE pair # "DIRECTIONS"
    BY <2>1, <2>2, OtherPairSafe
  <2>3. CASE pair = "DIRECTIONS"
    BY <1>1, <2>1, <2>3, ValidLatchesSafe DEF ApplyPhase, IInv, SlotInv
  <2> QED BY <2>2, <2>3
<1>3. CASE verifyPair \/ readInputsTransfer \/ parkTransfer
  BY <1>3, CommandSafe DEF verifyPair, readInputsTransfer, parkTransfer, parkPointer, Command
<1> QED BY <1>2, <1>3 DEF executeOperationTransfer

\* Whatever sequence of calls, transport failures and power losses comes before,
\* a pin becomes an output only over a latch the driver has on record, unless a
\* power loss has just voided that record and nothing could have told.
THEOREM LatchesComeFirst == Spec => LatchBeforeEnable
<1>1. IInv /\ [Next]_vars => [LatchSafe]_vars
  <2> SUFFICES ASSUME IInv, Next
               PROVE  LatchSafe
    OBVIOUS
  <2>1. CASE SyncCall
    BY <2>1, SyncCallStep, CallbackSafe DEF IInv
  <2>2. CASE ContinueCall
    BY <2>2, ContinueCallStep, CallbackSafe DEF IInv
  <2>3. CASE executeOperationTransfer
    BY <2>3, TransferSafe
  <2>4. CASE PowerCycle
    BY <2>4 DEF PowerCycle, PowerOnChip, PorImage, WritablePairs, LatchSafe, Enabled
  <2>5. CASE DeadlinePasses \/ (OperationCall /\ ~executeOperationTransfer)
    <3>1. UNCHANGED chip
      BY <2>5 DEF DeadlinePasses, OperationCall, startApplyImage, startVerifyImage, startReadInputs, start,
         takeOperationResult, cancelOperation, timeoutOperation, requestTerminal, bind, detach,
         pollOperation, pollWithoutBudget
    <3> QED BY <3>1, NoChangeSafe
  <2> QED BY <2>1, <2>2, <2>3, <2>4, <2>5 DEF Next
<1>2. [LatchSafe]_vars => [\A pin \in Pins : Enabled(pin) => LatchKnown(pin) \/ Unmet(pin)]_vars
  BY DEF LatchSafe
<1> QED BY <1>1, <1>2, InvariantHolds, PTL DEF LatchBeforeEnable, Spec

=============================================================================
