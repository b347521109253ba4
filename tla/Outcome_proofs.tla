--------------------------- MODULE Outcome_proofs ---------------------------
(***************************************************************************)
(* How the commands of the example programs end, for any scripts of the    *)
(* form that Diagnostics assumes and any failures, doubts and losses of    *)
(* power on the way.                                                       *)
(*                                                                         *)
(* ProgramInv adds to the invariants of the driver and of the programs     *)
(* four accounts: CallKnown, that the facts of ScriptOutline hold between  *)
(* and during the calls of a command, and those a restore routine has come *)
(* to; KeptSaved, that a command keeps only what it saves; QuietTrue, that *)
(* what a command kept is to be written back or is recorded as written,    *)
(* unless a call failed; and RecoveryTrue, that only a recovery has an     *)
(* operation, which has used a callback for every poll.                    *)
(***************************************************************************)
EXTENDS Diagnostics_proofs

-----------------------------------------------------------------------------
(* What a callback does to the facts of the outline *)

\* The driver learns nothing of the latches: a valid record is the one of before.
RecordLeft(e, f) ==
  "OUTPUTS" \in f.valid => "OUTPUTS" \in e.valid /\ f.shadow["OUTPUTS"] = e.shadow["OUTPUTS"]

\* Fewer facts hold as well, and the facts look only at what the command saved.
LEMMA FewerFacts ==
  ASSUME NEW t, NEW u, u.saved = t.saved, u.kept = t.kept, u.byte = t.byte,
         NEW known, NEW less \in SUBSET known, NEW regs, NEW reset, NEW e,
         FactsHold(t, known, regs, reset, e)
  PROVE  FactsHold(u, less, regs, reset, e)
BY DEF FactsHold, PinSafe

\* Nothing is known of pairs that have not been saved.
LEMMA NothingSaved ==
  ASSUME NEW t, t.kept = {}, NEW known, NEW regs, NEW reset, NEW e
  PROVE  FactsHold(t, known, regs, reset, e)
BY DEF FactsHold

\* The facts survive while the latches are left alone and no pin becomes an output;
\* a read, which ends the excuse of a power loss, costs LATCHES.
LEMMA LeftAlone ==
  ASSUME NEW t, NEW known, NEW less \in SUBSET known,
         NEW regs, NEW reset, NEW e, NEW regs2, NEW reset2, NEW e2,
         FactsHold(t, known, regs, reset, e),
         regs2["OUTPUTS"] = regs["OUTPUTS"], regs["DIRECTIONS"] \subseteq regs2["DIRECTIONS"],
         RecordLeft(e, e2), "LATCHES" \in less => reset \subseteq reset2
  PROVE  FactsHold(t, less, regs2, reset2, e2)
<1>1. ASSUME NEW pin, PinSafe(t, pin, regs) PROVE PinSafe(t, pin, regs2)
  BY <1>1 DEF PinSafe
<1>2. "DIRECTIONS" \in less \cap t.kept => t.saved["DIRECTIONS"] \subseteq regs2["DIRECTIONS"]
  BY DEF FactsHold
<1>3. "OUTPUTS" \in t.kept /\ "SHADOW" \in less /\ "OUTPUTS" \in e2.valid =>
        e2.shadow["OUTPUTS"] = t.saved["OUTPUTS"]
  BY DEF FactsHold, RecordLeft
<1>4. "OUTPUTS" \in t.kept /\ "LATCHES" \in less => \A pin \in Pins \ reset2 : PinSafe(t, pin, regs2)
  BY <1>1 DEF FactsHold
<1>5. ASSUME "OUTPUTS" \in t.kept, NEW port \in Ports, PortFact[port] \in less
      PROVE  \A pin \in PinsOf(port) : PinSafe(t, pin, regs2)
  BY <1>1, <1>5 DEF FactsHold
<1>6. "OUTPUTS" \in t.kept /\ "BYTE" \in less => \A pin \in PinsOf(0) :
        pin \in regs2["DIRECTIONS"] \/ (pin \in t.byte <=> pin \in t.saved["OUTPUTS"])
  BY DEF FactsHold
<1> QED BY <1>2, <1>3, <1>4, <1>5, <1>6 DEF FactsHold

\* A power loss makes every pin an input.
LEMMA FactsAfterPowerLoss ==
  ASSUME NEW t \in Tasks, NEW known, NEW regs, NEW reset, NEW e,
         FactsHold(t, known, regs, reset, e)
  PROVE  FactsHold(t, known, PorImage, Pins, e)
<1>1. PorImage["DIRECTIONS"] = Pins BY DEF PorImage, WritablePairs
<1>2. t.saved["DIRECTIONS"] \subseteq Pins BY DEF Tasks, Images, WritablePairs, Values
<1>3. \A port \in Ports : PinsOf(port) \subseteq Pins BY DEF PinsOf
<1>4. \A pin \in Pins : PinSafe(t, pin, PorImage) BY <1>1 DEF PinSafe
<1>5. "OUTPUTS" \in t.kept /\ "BYTE" \in known => \A pin \in PinsOf(0) : pin \in PorImage["DIRECTIONS"]
  BY <1>1, <1>3 DEF Ports
<1>6. ASSUME "OUTPUTS" \in t.kept, NEW port \in Ports, PortFact[port] \in known
      PROVE  \A pin \in PinsOf(port) : PinSafe(t, pin, PorImage)
  BY <1>3, <1>4
<1>7. "OUTPUTS" \in t.kept /\ "SHADOW" \in known /\ "OUTPUTS" \in e.valid =>
        e.shadow["OUTPUTS"] = t.saved["OUTPUTS"]
  BY DEF FactsHold
<1> QED BY <1>1, <1>2, <1>5, <1>6, <1>7 DEF FactsHold

LatchesAll == {"SHADOW", "LATCHES"} \cup PortFacts

\* A write of the saved latches, however much of it arrives, makes none worse;
\* a complete one settles them.
LEMMA SavedLatchesWritten ==
  ASSUME NEW t, NEW known, NEW regs, NEW reset, NEW e, NEW regs2, NEW e2, NEW reached,
         FactsHold(t, known, regs, reset, e),
         regs2["OUTPUTS"] = Overlay(regs["OUTPUTS"], reached, t.saved["OUTPUTS"]),
         regs2["DIRECTIONS"] = regs["DIRECTIONS"],
         RecordLeft(e, e2) \/ ("OUTPUTS" \in e2.valid => e2.shadow["OUTPUTS"] = t.saved["OUTPUTS"])
  PROVE  /\ FactsHold(t, known, regs2, reset \ reached, e2)
         /\ /\ reached = Pins
            /\ "OUTPUTS" \in e2.valid => e2.shadow["OUTPUTS"] = t.saved["OUTPUTS"]
            => FactsHold(t, known \cup LatchesAll, regs2, reset \ reached, e2)
<1>1. \A pin : pin \in regs2["OUTPUTS"] <=>
        IF pin \in reached THEN pin \in t.saved["OUTPUTS"] ELSE pin \in regs["OUTPUTS"]
  BY DEF Overlay
<1>2. ASSUME NEW pin, pin \in reached \/ PinSafe(t, pin, regs) PROVE PinSafe(t, pin, regs2)
  BY <1>1, <1>2 DEF PinSafe
<1>3. "DIRECTIONS" \in known \cap t.kept => t.saved["DIRECTIONS"] \subseteq regs2["DIRECTIONS"]
  BY DEF FactsHold
<1>4. "OUTPUTS" \in t.kept /\ "SHADOW" \in known /\ "OUTPUTS" \in e2.valid =>
        e2.shadow["OUTPUTS"] = t.saved["OUTPUTS"]
  BY DEF FactsHold, RecordLeft
<1>5. "OUTPUTS" \in t.kept /\ "LATCHES" \in known =>
        \A pin \in Pins \ (reset \ reached) : PinSafe(t, pin, regs2)
  BY <1>2 DEF FactsHold
<1>6. ASSUME "OUTPUTS" \in t.kept, NEW port \in Ports, PortFact[port] \in known
      PROVE  \A pin \in PinsOf(port) : PinSafe(t, pin, regs2)
  BY <1>2, <1>6 DEF FactsHold
<1>7. "OUTPUTS" \in t.kept /\ "BYTE" \in known => \A pin \in PinsOf(0) :
        pin \in regs2["DIRECTIONS"] \/ (pin \in t.byte <=> pin \in t.saved["OUTPUTS"])
  BY DEF FactsHold
<1>8. FactsHold(t, known, regs2, reset \ reached, e2)
  BY <1>3, <1>4, <1>5, <1>6, <1>7 DEF FactsHold
<1>9. ASSUME reached = Pins, "OUTPUTS" \in e2.valid => e2.shadow["OUTPUTS"] = t.saved["OUTPUTS"]
      PROVE  FactsHold(t, known \cup LatchesAll, regs2, reset \ reached, e2)
  <2>1. \A pin \in Pins : PinSafe(t, pin, regs2) BY <1>2, <1>9
  <2>2. \A port \in Ports : PinsOf(port) \subseteq Pins BY DEF PinsOf
  <2>3. "DIRECTIONS" \notin LatchesAll /\ "BYTE" \notin LatchesAll BY DEF LatchesAll, PortFacts
  <2> QED BY <1>3, <1>7, <1>9, <2>1, <2>2, <2>3 DEF FactsHold
<1> QED BY <1>8, <1>9

\* Any other write of latches leaves what is known of the directions and of the byte,
\* and of the pins out of its reach.
LEMMA LatchesWritten ==
  ASSUME NEW t, NEW known, NEW less \in SUBSET known,
         NEW regs, NEW reset, NEW e, NEW regs2, NEW reset2, NEW e2, NEW reached, NEW value,
         FactsHold(t, known, regs, reset, e),
         regs2["OUTPUTS"] = Overlay(regs["OUTPUTS"], reached, value),
         regs2["DIRECTIONS"] = regs["DIRECTIONS"],
         "LATCHES" \notin less,
         "SHADOW" \in less => RecordLeft(e, e2),
         \A port \in Ports : PortFact[port] \in less => PinsOf(port) \cap reached = {}
  PROVE  FactsHold(t, less, regs2, reset2, e2)
<1>1. \A pin : pin \notin reached => (pin \in regs2["OUTPUTS"] <=> pin \in regs["OUTPUTS"])
  BY DEF Overlay
<1>2. ASSUME NEW pin, pin \notin reached, PinSafe(t, pin, regs) PROVE PinSafe(t, pin, regs2)
  BY <1>1, <1>2 DEF PinSafe
<1>3. "DIRECTIONS" \in less \cap t.kept => t.saved["DIRECTIONS"] \subseteq regs2["DIRECTIONS"]
  BY DEF FactsHold
<1>4. "OUTPUTS" \in t.kept /\ "SHADOW" \in less /\ "OUTPUTS" \in e2.valid =>
        e2.shadow["OUTPUTS"] = t.saved["OUTPUTS"]
  BY DEF FactsHold, RecordLeft
<1>5. ASSUME "OUTPUTS" \in t.kept, NEW port \in Ports, PortFact[port] \in less
      PROVE  \A pin \in PinsOf(port) : PinSafe(t, pin, regs2)
  <2>1. \A pin \in PinsOf(port) : PinSafe(t, pin, regs) BY <1>5 DEF FactsHold
  <2> QED BY <1>2, <1>5, <2>1
<1>6. "OUTPUTS" \in t.kept /\ "BYTE" \in less => \A pin \in PinsOf(0) :
        pin \in regs2["DIRECTIONS"] \/ (pin \in t.byte <=> pin \in t.saved["OUTPUTS"])
  BY DEF FactsHold
<1> QED BY <1>3, <1>4, <1>5, <1>6 DEF FactsHold


\* A call that grants only the record a hold on the latches needs only the record.
LEMMA RecordOnly ==
  ASSUME NEW t, NEW known, NEW less \in SUBSET known,
         NEW regs, NEW reset, NEW e, NEW regs2, NEW reset2, NEW e2,
         FactsHold(t, known, regs, reset, e), RecordLeft(e, e2),
         less \cap ({"LATCHES", "BYTE"} \cup PortFacts) = {},
         "DIRECTIONS" \in less => regs["DIRECTIONS"] \subseteq regs2["DIRECTIONS"]
  PROVE  FactsHold(t, less, regs2, reset2, e2)
<1>1. "DIRECTIONS" \in less \cap t.kept => t.saved["DIRECTIONS"] \subseteq regs2["DIRECTIONS"]
  BY DEF FactsHold
<1>2. "OUTPUTS" \in t.kept /\ "SHADOW" \in less /\ "OUTPUTS" \in e2.valid =>
        e2.shadow["OUTPUTS"] = t.saved["OUTPUTS"]
  BY DEF FactsHold, RecordLeft
<1>3. \A port \in Ports : PortFact[port] \in PortFacts
  BY DEF PortFact, PortFacts, Ports
<1> QED BY <1>1, <1>2, <1>3 DEF FactsHold

\* Before the latches are saved, only the directions count.
LEMMA LatchesUnsaved ==
  ASSUME NEW t, "OUTPUTS" \notin t.kept, NEW known, NEW less \in SUBSET known,
         NEW regs, NEW reset, NEW e, NEW regs2, NEW reset2, NEW e2,
         FactsHold(t, known, regs, reset, e),
         "DIRECTIONS" \in less => regs["DIRECTIONS"] \subseteq regs2["DIRECTIONS"]
  PROVE  FactsHold(t, less, regs2, reset2, e2)
BY DEF FactsHold

\* The update of a record by a write of a pair, whatever came of it.
LEMMA RecordMoves ==
  ASSUME NEW e \in Evidence, NEW pair \in WritablePairs, NEW value,
         NEW f \in {invalidateShadowPair(e, pair), establishShadowPair(e, pair, value), e}
  PROVE  /\ pair # "OUTPUTS" => RecordLeft(e, f)
         /\ RecordLeft(e, f) \/ ("OUTPUTS" \in f.valid => f.shadow["OUTPUTS"] = value)
<1>1. "OUTPUTS" \in WritablePairs BY DEF WritablePairs
<1>2. CASE f = invalidateShadowPair(e, pair)
  BY <1>2 DEF invalidateShadowPair, Evidence, RecordLeft
<1>3. CASE f = establishShadowPair(e, pair, value)
  <2>1. f.shadow = [e.shadow EXCEPT ![pair] = value] /\ f.valid = e.valid \cup {pair}
    BY <1>3 DEF establishShadowPair, Evidence
  <2>2. \A other \in WritablePairs :
          f.shadow[other] = IF other = pair THEN value ELSE e.shadow[other]
    BY <2>1 DEF Evidence, Images
  <2> QED BY <1>1, <2>1, <2>2 DEF RecordLeft
<1>4. CASE f = e BY <1>4 DEF RecordLeft
<1> QED BY <1>2, <1>3, <1>4

\* The updates that the driver makes are of this kind,
LEMMA PairRecord ==
  ASSUME NEW e, NEW pair, NEW value, NEW whole \in BOOLEAN, NEW outcome
  PROVE  writeRegs(e, pair, value, whole, outcome) \in
           {invalidateShadowPair(e, pair), establishShadowPair(e, pair, value), e}
BY DEF writeRegs

LEMMA PortRecord ==
  ASSUME NEW e, NEW pair, NEW value, NEW outcome \in WriteOutcome[2]
  PROVE  writePort(e, pair, value, outcome) \in
           {invalidateShadowPair(e, pair), establishShadowPair(e, pair, value), e}
<1>1. outcome.ok => outcome.effect = "COMMITTED" BY WriteOutcomeFacts
<1>2. CASE outcome.effect = "COMMITTED"
  <2>1. writeRegs(e, pair, value, FALSE, outcome) = e BY <1>2 DEF writeRegs
  <2> QED BY <2>1 DEF writePort
<1>3. CASE outcome.effect # "COMMITTED"
  BY <1>1, <1>3 DEF writePort, writeRegs
<1> QED BY <1>2, <1>3

\* and a raw write gives the record up first.
GivenUp(e, pair) == [e EXCEPT !.valid = @ \ {pair}]

LEMMA RawRecord ==
  ASSUME NEW e \in Evidence, NEW pair \in WritablePairs, NEW value,
         NEW f \in {invalidateShadowPair(GivenUp(e, pair), pair),
                    establishShadowPair(GivenUp(e, pair), pair, value), GivenUp(e, pair)}
  PROVE  /\ GivenUp(e, pair) \in Evidence
         /\ pair # "OUTPUTS" => RecordLeft(e, f)
         /\ RecordLeft(e, f) \/ ("OUTPUTS" \in f.valid => f.shadow["OUTPUTS"] = value)
         /\ f # establishShadowPair(GivenUp(e, pair), pair, value) => RecordLeft(e, f)
<1> DEFINE d == GivenUp(e, pair)
<1>1. d \in Evidence /\ RecordLeft(e, d) BY DEF GivenUp, Evidence, RecordLeft
<1>2. f \in {invalidateShadowPair(d, pair), establishShadowPair(d, pair, value), d} OBVIOUS
<1> HIDE DEF d
<1>3. /\ pair # "OUTPUTS" => RecordLeft(d, f)
      /\ RecordLeft(d, f) \/ ("OUTPUTS" \in f.valid => f.shadow["OUTPUTS"] = value)
  BY <1>1, <1>2, RecordMoves
<1>4. RecordLeft(d, f) => RecordLeft(e, f) BY <1>1 DEF RecordLeft
<1>5. RecordLeft(d, invalidateShadowPair(d, pair)) /\ RecordLeft(d, d)
  BY <1>1 DEF invalidateShadowPair, Evidence, RecordLeft
<1>6. f # establishShadowPair(d, pair, value) => RecordLeft(e, f) BY <1>2, <1>4, <1>5
<1> USE DEF d
<1> QED BY <1>1, <1>3, <1>4, <1>6

\* A readback leaves the record, or takes it away.
LEMMA ReadRecord ==
  ASSUME NEW e \in Evidence, NEW pair \in WritablePairs, NEW port, NEW value
  PROVE  /\ RecordLeft(e, recordPairObservation(e, pair, value))
         /\ RecordLeft(e, syncObservedRegister(e, pair, port, value))
         /\ \A any \in Pairs : RecordLeft(e, failedPairRead(e, any))
         /\ RecordLeft(e, recordInputs(e)) /\ RecordLeft(e, syncInputs(e)) /\ RecordLeft(e, e)
<1>1. RecordLeft(e, recordPairObservation(e, pair, value))
  BY DEF recordPairObservation, Evidence, RecordLeft
<1>2. RecordLeft(e, syncObservedRegister(e, pair, port, value))
  BY DEF syncObservedRegister, Evidence, RecordLeft
<1>3. \A any \in Pairs : RecordLeft(e, failedPairRead(e, any))
  BY DEF failedPairRead, Evidence, RecordLeft
<1>4. RecordLeft(e, recordInputs(e)) /\ RecordLeft(e, syncInputs(e)) /\ RecordLeft(e, e)
  BY DEF recordInputs, syncInputs, Evidence, RecordLeft
<1> QED BY <1>1, <1>2, <1>3, <1>4

-----------------------------------------------------------------------------
(* What a call does to the facts *)

HoldNow(known) == FactsHold(task, known, chip.regs, stale["OUTPUTS"], ev)

HoldNext(t, known) == FactsHold(t, known, chip'.regs, stale'["OUTPUTS"], ev')

EnableStages == {"ENABLE_PAIR", "ENABLE_PORT"}

ParkStages == {"PARK_NOTHING", "PARK_PAIR", "PARK_PORT"}

\* The call c is the one in progress.
Underway(c) ==
  /\ call.stage \in EnableStages \cup ParkStages \cup {"POLLING"}
  /\ call.stage = "ENABLE_PAIR" =>
       c.op = "DIRECT" /\ (c.value = "SAVED" => call.value = task.saved["DIRECTIONS"])
  /\ call.stage = "ENABLE_PORT" => c.op = "DIRECT_PORT"
  /\ call.stage \in ParkStages => c.op \in {"INPUTS", "INPUT_PORT"}
  /\ call.stage = "POLLING" => c.op = "POLL"

\* What the program t has noted from the call c.
Noted(t, c) ==
  /\ Same(t) /\ t.failed = task.failed /\ t.exposed = task.exposed
  /\ t.kept \subseteq task.kept \cup {pair \in WritablePairs : c = Save(pair)}
  /\ c.op # "SAVE" => t.saved = task.saved

\* A failed preload of latches that are low already, as the saved ones are, is a
\* write of the saved ones.
Harmless(t, c, known) ==
  c = WritePair("OUTPUTS", "LOW") /\ task.saved["OUTPUTS"] = {} => HoldNext(t, known)

\* The call goes on, or returns with what its entry in the tables says.
Effect(c, known) ==
  \/ /\ task' = task /\ Underway(c)'
     /\ HoldNext(task, IF call'.stage \in EnableStages THEN Kept(c, known) ELSE known)
  \/ /\ call'.stage = "IDLE"
     /\ \E t \in Tasks, ok \in BOOLEAN :
          /\ Noted(t, c) /\ ReturnsNoting(t, ok)
          /\ HoldNext(t, After(c, ok, known)) /\ Harmless(t, c, known)

\* It returns with its entry when the facts it keeps hold in any case, and those it
\* gains when it succeeded.
LEMMA ReturnsWith ==
  ASSUME NEW c, NEW known, NEW t \in Tasks, NEW ok \in BOOLEAN,
         call'.stage = "IDLE", Noted(t, c), ReturnsNoting(t, ok), Harmless(t, c, known),
         HoldNext(t, Kept(c, known)),
         ok => HoldNext(t, Kept(c, known) \cup Gained(c, known))
  PROVE  Effect(c, known)
<1>1. After(c, TRUE, known) = Kept(c, known) \cup Gained(c, known) BY DEF After
<1>2. After(c, FALSE, known) = Kept(c, known) BY DEF After
<1>3. HoldNext(t, After(c, ok, known))
  <2>1. CASE ok = TRUE BY <1>1, <2>1
  <2>2. CASE ok = FALSE BY <1>2, <2>2
  <2> QED BY <2>1, <2>2
<1> QED BY <1>3 DEF Effect

\* The same of a call that notes nothing.
LEMMA ReturnsQuietly ==
  ASSUME TaskTypeOK, NEW c, NEW known, NEW ok \in BOOLEAN,
         call'.stage = "IDLE", Returns(ok), Harmless(task, c, known),
         HoldNext(task, Kept(c, known)),
         ok => HoldNext(task, Kept(c, known) \cup Gained(c, known))
  PROVE  Effect(c, known)
<1>1. task \in Tasks /\ Noted(task, c) BY DEF TaskTypeOK, Noted, Same
<1> QED BY <1>1, ReturnsWith DEF Returns

\* What a call keeps was known.
LEMMA KeptIsKnown ==
  ASSUME NEW c, NEW known
  PROVE  Kept(c, known) \subseteq known
BY DEF Kept

\* What a write leaves in the registers, and of a power loss.
LEMMA WriteMoves ==
  ASSUME IInv, NEW pair \in WritablePairs, NEW first, NEW value, NEW outcome,
         Write(pair, first, value, outcome)
  PROVE  /\ \A other \in WritablePairs : chip'.regs[other] =
              IF other = pair THEN Overlay(chip.regs[pair], Reached(first, outcome.accepted), value)
              ELSE chip.regs[other]
         /\ stale'["OUTPUTS"] = IF pair = "OUTPUTS"
                                THEN stale["OUTPUTS"] \ Reached(first, outcome.accepted)
                                ELSE stale["OUTPUTS"]
<1>1. chip \in Chip /\ stale \in [WritablePairs -> Values] BY DEF IInv, TypeOK
<1>2. chip'.regs = [chip.regs EXCEPT ![pair] = Overlay(@, Reached(first, outcome.accepted), value)]
  BY DEF Write, AcceptWrite
<1>3. stale' = [stale EXCEPT ![pair] = @ \ Reached(first, outcome.accepted)] BY DEF Write
<1> QED BY <1>1, <1>2, <1>3 DEF Chip, Images, WritablePairs

\* What a command byte leaves.
LEMMA CommandMoves ==
  ASSUME NEW pair, NEW outcome, Command(pair, outcome), chip \in Chip
  PROVE  chip'.regs = chip.regs
BY DEF Command, AcceptCommand, Chip

\* A step that leaves the registers, what is excused and the record.
LEMMA StillTrue ==
  ASSUME NEW t, NEW known, NEW less \in SUBSET known, HoldNow(known),
         t.saved = task.saved, t.kept = task.kept, t.byte = task.byte,
         chip'.regs = chip.regs, stale'["OUTPUTS"] = stale["OUTPUTS"], RecordLeft(ev, ev')
  PROVE  HoldNext(t, less)
<1>1. HoldNext(task, less) BY LeftAlone DEF HoldNow, HoldNext
<1> QED BY <1>1, FewerFacts DEF HoldNext

\* A probe, and a refused call, teach and change nothing.
LEMMA ProbeFacts ==
  ASSUME IInv, TaskTypeOK, NEW c, NEW known, HoldNow(known), Ready, probeCall(c)
  PROVE  Effect(c, known)
<1>1. PICK outcome \in WriteOutcome[1] : Command("DIRECTIONS", outcome) /\ Answered(outcome.ok)
  BY DEF probeCall
<1>2. c.op = "PROBE" /\ ev' = ev /\ stale' = stale BY DEF probeCall
<1>3. chip'.regs = chip.regs BY <1>1, CommandMoves DEF IInv, TypeOK
<1>4. HoldNext(task, known) BY <1>2, <1>3, StillTrue DEF RecordLeft
<1>5. Kept(c, known) = known /\ Gained(c, known) = {} BY <1>2 DEF Kept, Gained
<1>6. outcome.ok \in BOOLEAN BY WriteOutcomeFacts
<1>7. call'.stage = "IDLE" /\ Returns(outcome.ok) BY <1>1, IdleStage DEF Answered, Ready
<1>8. HoldNext(task, Kept(c, known) \cup Gained(c, known)) BY <1>4, <1>5
<1> QED BY <1>4, <1>5, <1>6, <1>7, <1>8, ReturnsQuietly DEF Harmless

LEMMA RefusedFacts ==
  ASSUME TaskTypeOK, NEW c, NEW known, HoldNow(known), call = Idle, refusedCall(c)
  PROVE  Effect(c, known)
<1>1. Returns(FALSE) /\ UNCHANGED vars BY DEF refusedCall
<1>2. call'.stage = "IDLE" BY <1>1, IdleStage DEF vars
<1>3. Kept(c, known) \subseteq known BY KeptIsKnown
<1>4. chip' = chip /\ stale' = stale /\ ev' = ev BY <1>1 DEF vars
<1>5. HoldNext(task, known) /\ HoldNext(task, Kept(c, known))
  BY <1>3, <1>4, StillTrue DEF RecordLeft
<1> QED BY <1>1, <1>2, <1>5, ReturnsQuietly DEF Harmless

\* A read of a pair,
LEMMA ReadFacts ==
  ASSUME IInv, TaskTypeOK, NEW c \in DriverCalls, NEW known, HoldNow(known), Ready, readCall(c)
  PROVE  Effect(c, known)
<1>1. PICK outcome \in ReadOutcome[2] : readPair(c.pair, outcome) /\ Answered(outcome.ok)
  BY DEF readCall
<1>2. c.op = "READ" /\ c.pair \in WritablePairs /\ ev \in Evidence /\ stale \in [WritablePairs -> Values]
  BY CallShape DEF readCall, IInv, TypeOK
<1>3. chip'.regs = chip.regs BY <1>1, CommandMoves DEF readPair, IInv, TypeOK
<1>4. RecordLeft(ev, ev')
  <2>1. c.pair \in Pairs BY <1>2 DEF Pairs
  <2>2. ev' \in {recordPairObservation(ev, c.pair, chip.regs[c.pair]), failedPairRead(ev, c.pair)}
    BY <1>1 DEF readPair
  <2> QED BY <1>2, <2>1, <2>2, ReadRecord
<1>5. stale' \in {stale, [stale EXCEPT ![c.pair] = {}]} BY <1>1 DEF readPair
<1>6. c.pair # "OUTPUTS" => stale'["OUTPUTS"] = stale["OUTPUTS"]
  BY <1>2, <1>5 DEF WritablePairs
<1>7. /\ Kept(c, known) = IF c.pair = "OUTPUTS" THEN known \ {"LATCHES"} ELSE known
      /\ Gained(c, known) = {}
  BY <1>2 DEF Kept, Gained
<1>8. HoldNext(task, Kept(c, known)) BY <1>3, <1>4, <1>6, <1>7, LeftAlone DEF HoldNow, HoldNext
<1>9. outcome.ok \in BOOLEAN BY ReadOutcomeFacts
<1>10. call'.stage = "IDLE" /\ Returns(outcome.ok) BY <1>1, IdleStage DEF Answered, Ready
<1>11. HoldNext(task, Kept(c, known) \cup Gained(c, known)) BY <1>7, <1>8
<1>12. Harmless(task, c, known) BY <1>2 DEF Harmless, WritePair, Call
<1> QED BY <1>8, <1>9, <1>10, <1>11, <1>12, ReturnsQuietly

\* What is saved now is what the chip holds now.
LEMMA LatchesSaved ==
  ASSUME NEW t, NEW u, NEW known, NEW regs, NEW reset, NEW e, NEW reset2, NEW e2,
         FactsHold(t, known, regs, reset, e),
         u.saved["OUTPUTS"] = regs["OUTPUTS"], u.saved["DIRECTIONS"] = t.saved["DIRECTIONS"],
         "DIRECTIONS" \in u.kept => "DIRECTIONS" \in t.kept,
         "OUTPUTS" \in e2.valid => e2.shadow["OUTPUTS"] = regs["OUTPUTS"]
  PROVE  FactsHold(u, (known \ {"BYTE"}) \cup LatchesAll, regs, reset2, e2)
<1>1. \A pin : PinSafe(u, pin, regs) BY DEF PinSafe
<1>2. "DIRECTIONS" \notin LatchesAll /\ "BYTE" \notin LatchesAll BY DEF LatchesAll, PortFacts
<1>3. "DIRECTIONS" \in known \cap u.kept => u.saved["DIRECTIONS"] \subseteq regs["DIRECTIONS"]
  BY DEF FactsHold
<1> QED BY <1>1, <1>2, <1>3 DEF FactsHold

LEMMA DirectionsSaved ==
  ASSUME NEW t, NEW u, NEW known, NEW regs, NEW reset, NEW e, NEW e2,
         FactsHold(t, known, regs, reset, e),
         u.saved["DIRECTIONS"] = regs["DIRECTIONS"], u.saved["OUTPUTS"] = t.saved["OUTPUTS"],
         u.byte = t.byte, "OUTPUTS" \in u.kept => "OUTPUTS" \in t.kept, RecordLeft(e, e2)
  PROVE  FactsHold(u, known \cup {"DIRECTIONS"}, regs, reset, e2)
<1>1. \A pin : PinSafe(u, pin, regs) <=> PinSafe(t, pin, regs) BY DEF PinSafe
<1>2. \A fact : fact # "DIRECTIONS" => (fact \in known \cup {"DIRECTIONS"} <=> fact \in known)
  OBVIOUS
<1>3. \A port \in Ports : PortFact[port] # "DIRECTIONS" BY DEF PortFact, Ports
<1>4. "OUTPUTS" \in u.kept /\ "SHADOW" \in known /\ "OUTPUTS" \in e2.valid =>
        e2.shadow["OUTPUTS"] = u.saved["OUTPUTS"]
  BY DEF FactsHold, RecordLeft
<1>5. "OUTPUTS" \in u.kept =>
        /\ "LATCHES" \in known => \A pin \in Pins \ reset : PinSafe(u, pin, regs)
        /\ \A port \in Ports :
             PortFact[port] \in known => \A pin \in PinsOf(port) : PinSafe(u, pin, regs)
        /\ "BYTE" \in known => \A pin \in PinsOf(0) :
             pin \in regs["DIRECTIONS"] \/ (pin \in u.byte <=> pin \in u.saved["OUTPUTS"])
  BY <1>1 DEF FactsHold
<1> QED BY <1>2, <1>3, <1>4, <1>5 DEF FactsHold

\* A read whose value the command keeps.
LEMMA SaveFacts ==
  ASSUME IInv, TaskTypeOK, NEW c \in DriverCalls, NEW known, HoldNow(known), Ready, saveCall(c)
  PROVE  Effect(c, known)
<1> DEFINE noted == [task EXCEPT !.saved[c.pair] = chip.regs[c.pair], !.kept = @ \cup {c.pair}]
<1>1. PICK outcome \in ReadOutcome[2] :
        /\ readPair(c.pair, outcome)
        /\ ReturnsNoting(IF outcome.ok THEN noted ELSE task, outcome.ok)
  BY DEF saveCall
<1>2. /\ c.op = "SAVE" /\ c.pair \in WritablePairs /\ ev \in Evidence /\ task \in Tasks
      /\ stale \in [WritablePairs -> Values] /\ chip.regs \in Images
  BY CallShape DEF saveCall, IInv, TypeOK, TaskTypeOK, Chip
<1>3. c = Save(c.pair)
  <2>1. c \in PairCalls
    BY <1>2 DEF DriverCalls, PortCalls, OtherCalls, Probe, ReadInputs, ReadInputPort, Call
  <2> QED BY <1>2, <2>1 DEF PairCalls, Save, Call
<1>4. chip'.regs = chip.regs /\ call'.stage = "IDLE"
  BY <1>1, CommandMoves, IdleStage DEF readPair, saveCall, Ready, IInv, TypeOK
<1>5. RecordLeft(ev, ev')
  <2>1. c.pair \in Pairs BY <1>2 DEF Pairs
  <2>2. ev' \in {recordPairObservation(ev, c.pair, chip.regs[c.pair]), failedPairRead(ev, c.pair)}
    BY <1>1 DEF readPair
  <2> QED BY <1>2, <2>1, <2>2, ReadRecord
<1>6. \A t : Harmless(t, c, known) BY <1>2 DEF Harmless, WritePair, Call
<1>7. Kept(c, known) = IF c.pair = "OUTPUTS" THEN known \ {"BYTE"} ELSE known
  BY <1>2 DEF Kept
<1>8. Gained(c, known) = IF c.pair = "OUTPUTS" THEN LatchesAll
                         ELSE IF c.pair = "DIRECTIONS" THEN {"DIRECTIONS"} ELSE {}
  BY <1>2 DEF Gained, LatchesAll
<1>9. CASE outcome.ok
  <2>1. ReturnsNoting(noted, TRUE) BY <1>1, <1>9
  <2>2. /\ noted \in Tasks /\ Noted(noted, c)
        /\ noted.saved = [task.saved EXCEPT ![c.pair] = chip.regs[c.pair]]
        /\ noted.kept = task.kept \cup {c.pair} /\ noted.byte = task.byte
    BY <1>2, <1>3 DEF Tasks, Noted, Same, Images
  <2>3. \A other \in WritablePairs :
          noted.saved[other] = IF other = c.pair THEN chip.regs[c.pair] ELSE task.saved[other]
    BY <1>2, <2>2 DEF Tasks, Images
  <2> HIDE DEF noted
  <2>4. HoldNext(noted, Kept(c, known) \cup Gained(c, known))
    <3>1. CASE c.pair = "OUTPUTS"
      <4>1. "OUTPUTS" \in ev'.valid => ev'.shadow["OUTPUTS"] = chip.regs["OUTPUTS"]
        BY <1>1, <1>2, <1>9, <3>1 DEF readPair, recordPairObservation, Evidence
      <4>2. /\ noted.saved["OUTPUTS"] = chip.regs["OUTPUTS"]
            /\ noted.saved["DIRECTIONS"] = task.saved["DIRECTIONS"]
            /\ "DIRECTIONS" \in noted.kept => "DIRECTIONS" \in task.kept
        BY <2>2, <2>3, <3>1 DEF WritablePairs
      <4>3. HoldNext(noted, (known \ {"BYTE"}) \cup LatchesAll)
        BY <1>4, <4>1, <4>2, LatchesSaved DEF HoldNow, HoldNext
      <4> QED BY <1>7, <1>8, <3>1, <4>3
    <3>2. CASE c.pair = "DIRECTIONS"
      <4>1. stale'["OUTPUTS"] = stale["OUTPUTS"]
        BY <1>1, <1>2, <3>2 DEF readPair, WritablePairs
      <4>2. /\ noted.saved["DIRECTIONS"] = chip.regs["DIRECTIONS"]
            /\ noted.saved["OUTPUTS"] = task.saved["OUTPUTS"]
            /\ "OUTPUTS" \in noted.kept => "OUTPUTS" \in task.kept
        BY <2>2, <2>3, <3>2 DEF WritablePairs
      <4>3. HoldNext(noted, known \cup {"DIRECTIONS"})
        BY <1>4, <1>5, <2>2, <4>1, <4>2, DirectionsSaved DEF HoldNow, HoldNext
      <4> QED BY <1>7, <1>8, <3>2, <4>3
    <3>3. CASE c.pair = "POLARITY"
      <4>1. stale'["OUTPUTS"] = stale["OUTPUTS"]
        BY <1>1, <1>2, <3>3 DEF readPair, WritablePairs
      <4>2. /\ noted.saved["DIRECTIONS"] = task.saved["DIRECTIONS"]
            /\ noted.saved["OUTPUTS"] = task.saved["OUTPUTS"]
            /\ "OUTPUTS" \in noted.kept <=> "OUTPUTS" \in task.kept
            /\ "DIRECTIONS" \in noted.kept <=> "DIRECTIONS" \in task.kept
        BY <2>2, <2>3, <3>3 DEF WritablePairs
      <4>3. HoldNext(task, known) BY <1>4, <1>5, <4>1, StillTrue
      <4>4. HoldNext(noted, known) BY <2>2, <4>2, <4>3 DEF HoldNext, FactsHold, PinSafe
      <4> QED BY <1>7, <1>8, <3>3, <4>4
    <3> QED BY <1>2, <3>1, <3>2, <3>3 DEF WritablePairs
  <2>5. HoldNext(noted, Kept(c, known))
    BY <2>4, FewerFacts DEF HoldNext
  <2> QED BY <1>4, <1>6, <2>1, <2>2, <2>4, <2>5, ReturnsWith
<1>10. CASE ~outcome.ok
  <2>1. Returns(FALSE)
    <3>1. outcome.ok \in BOOLEAN BY ReadOutcomeFacts
    <3> QED BY <1>1, <1>10, <3>1 DEF Returns
  <2>2. stale' = stale BY <1>1, <1>10 DEF readPair
  <2>3. HoldNext(task, Kept(c, known))
    BY <1>4, <1>5, <2>2, StillTrue, KeptIsKnown
  <2> QED BY <1>4, <1>6, <2>1, <2>3, ReturnsQuietly
<1> QED BY <1>9, <1>10

\* The readback of a port, which the raw register write of the self test keeps.
LEMMA ReadPortFacts ==
  ASSUME IInv, TaskTypeOK, NEW c \in DriverCalls, NEW known, HoldNow(known), Ready, readPortCall(c)
  PROVE  Effect(c, known)
<1> DEFINE byte == portValue(chip.regs[c.pair], c.port)
           noted == [task EXCEPT !.byte = byte]
<1>1. PICK outcome \in ReadOutcome[1] :
        /\ readWritablePortRegister(c.pair, c.port, outcome)
        /\ ReturnsNoting(IF outcome.ok /\ c.op = "SAVE_PORT" THEN noted ELSE task, outcome.ok)
  BY DEF readPortCall
<1>2. /\ c.op \in {"READ_PORT", "SAVE_PORT"} /\ c.pair \in WritablePairs /\ c.port \in Ports
      /\ ev \in Evidence /\ task \in Tasks /\ stale \in [WritablePairs -> Values]
      /\ chip.regs \in Images
  BY CallShape DEF readPortCall, IInv, TypeOK, TaskTypeOK, Chip
<1>3. c.op = "SAVE_PORT" => c.pair = "OUTPUTS" /\ c.port = 0
  BY DEF DriverCalls, PairCalls, PortCalls, OtherCalls, Probe, ReadInputs, ReadInputPort, Call
<1>4. chip'.regs = chip.regs /\ call'.stage = "IDLE"
  BY <1>1, CommandMoves, IdleStage DEF readWritablePortRegister, readPortCall, Ready, IInv, TypeOK
<1>5. RecordLeft(ev, ev')
  BY <1>1, <1>2, ReadRecord DEF readWritablePortRegister
<1>6. c.pair # "OUTPUTS" => stale'["OUTPUTS"] = stale["OUTPUTS"]
  BY <1>1, <1>2 DEF readWritablePortRegister, WritablePairs
<1>7. \A t : Harmless(t, c, known) BY <1>2 DEF Harmless, WritePair, Call
<1>8. /\ "LATCHES" \in Kept(c, known) => c.pair # "OUTPUTS"
      /\ c.op = "SAVE_PORT" => "BYTE" \notin Kept(c, known)
      /\ Gained(c, known) = IF c.op = "SAVE_PORT" /\ "PORT_0" \in known THEN {"BYTE"} ELSE {}
  BY <1>2, <1>3 DEF Kept, Gained
<1>9. HoldNext(task, Kept(c, known))
  BY <1>4, <1>5, <1>6, <1>8, LeftAlone, KeptIsKnown DEF HoldNow, HoldNext
<1>10. CASE ~(outcome.ok /\ c.op = "SAVE_PORT")
  <2>1. Returns(outcome.ok) /\ outcome.ok \in BOOLEAN
    BY <1>1, <1>10, ReadOutcomeFacts DEF Returns
  <2>2. outcome.ok => HoldNext(task, Kept(c, known) \cup Gained(c, known))
    BY <1>8, <1>9, <1>10
  <2> QED BY <1>4, <1>7, <1>9, <2>1, <2>2, ReturnsQuietly
<1>11. CASE outcome.ok /\ c.op = "SAVE_PORT"
  <2>1. ReturnsNoting(noted, TRUE) BY <1>1, <1>11
  <2>2. byte \subseteq PinsOf(0) BY <1>3, <1>11 DEF portValue
  <2>3. /\ noted \in Tasks /\ Noted(noted, c) /\ noted.byte = byte
        /\ noted.saved = task.saved /\ noted.kept = task.kept
    BY <1>2, <2>2 DEF Tasks, Noted, Same
  <2>4. \A pin \in PinsOf(0) : pin \in byte <=> pin \in chip.regs["OUTPUTS"]
    BY <1>3, <1>11 DEF portValue
  <2> HIDE DEF noted, byte
  <2>5. "OUTPUTS" \in task.kept /\ "PORT_0" \in known => \A pin \in PinsOf(0) :
          \/ pin \in chip.regs["DIRECTIONS"]
          \/ pin \in chip.regs["OUTPUTS"] <=> pin \in task.saved["OUTPUTS"]
    BY DEF HoldNow, FactsHold, PinSafe, PortFact, Ports
  <2>6. HoldNext(noted, Kept(c, known))
    BY <1>8, <1>9, <1>11, <2>3 DEF HoldNext, FactsHold, PinSafe
  <2>7. "PORT_0" \in known => HoldNext(noted, Kept(c, known) \cup {"BYTE"})
    <3>1. \A port \in Ports : PortFact[port] # "BYTE" BY DEF PortFact, Ports
    <3> QED BY <1>4, <2>3, <2>4, <2>5, <2>6, <3>1 DEF HoldNext, FactsHold
  <2>8. HoldNext(noted, Kept(c, known) \cup Gained(c, known)) BY <1>8, <1>11, <2>6, <2>7
  <2> QED BY <1>4, <1>7, <2>1, <2>3, <2>6, <2>8, ReturnsWith
<1> QED BY <1>10, <1>11

\* A write of a whole pair,
LEMMA WriteFacts ==
  ASSUME IInv, TaskTypeOK, NEW c \in DriverCalls, NEW known, HoldNow(known), Ready, writeCall(c)
  PROVE  Effect(c, known)
<1>1. PICK value \in Meant(c.pair, c.value), outcome \in WriteOutcome[3] :
        writePairTo(c.pair, value, outcome) /\ Answered(outcome.ok)
  BY DEF writeCall
<1>2. /\ c.op = "WRITE"
      /\ c.pair \in {"OUTPUTS", "POLARITY"} \/ (c.pair = "DIRECTIONS" /\ c.value = "SET")
      /\ ev \in Evidence /\ c.pair \in WritablePairs
  BY CallShape DEF writeCall, IInv, TypeOK, WritablePairs
<1> DEFINE reached == Reached(0, outcome.accepted)
<1>3. /\ \A other \in WritablePairs : chip'.regs[other] =
           IF other = c.pair THEN Overlay(chip.regs[c.pair], reached, value) ELSE chip.regs[other]
      /\ stale'["OUTPUTS"] = IF c.pair = "OUTPUTS" THEN stale["OUTPUTS"] \ reached
                             ELSE stale["OUTPUTS"]
  BY <1>1, <1>2, WriteMoves DEF writePairTo
<1>4. /\ c.pair # "OUTPUTS" => RecordLeft(ev, ev')
      /\ RecordLeft(ev, ev') \/ ("OUTPUTS" \in ev'.valid => ev'.shadow["OUTPUTS"] = value)
  <2>1. ev' \in {invalidateShadowPair(ev, c.pair), establishShadowPair(ev, c.pair, value), ev}
    BY <1>1, PairRecord DEF writePairTo
  <2> QED BY <1>2, <2>1, RecordMoves
<1>5. /\ outcome.ok \in BOOLEAN /\ (outcome.ok => outcome.accepted = 3) BY WriteOutcomeFacts
<1>6. outcome.ok => reached = Pins BY <1>5 DEF Reached
<1>7. outcome.ok /\ c.pair = "OUTPUTS" => "OUTPUTS" \in ev'.valid /\ ev'.shadow["OUTPUTS"] = value
  <2>1. outcome.ok => ev' = establishShadowPair(ev, c.pair, value)
    BY <1>1, WriteOutcomeFacts DEF writePairTo, writeRegs
  <2>2. /\ "OUTPUTS" \in establishShadowPair(ev, "OUTPUTS", value).valid
        /\ establishShadowPair(ev, "OUTPUTS", value).shadow["OUTPUTS"] = value
    BY <1>2 DEF establishShadowPair, Evidence, Images, WritablePairs
  <2> QED BY <2>1, <2>2
<1>8. call'.stage = "IDLE" /\ Returns(outcome.ok) BY <1>1, IdleStage DEF Answered, Ready
<1> HIDE DEF reached
<1>9. CASE c.pair = "OUTPUTS"
  <2>1. /\ chip'.regs["OUTPUTS"] = Overlay(chip.regs["OUTPUTS"], reached, value)
        /\ chip'.regs["DIRECTIONS"] = chip.regs["DIRECTIONS"]
        /\ stale'["OUTPUTS"] = stale["OUTPUTS"] \ reached
    BY <1>3, <1>9 DEF WritablePairs
  <2>2. ASSUME value = task.saved["OUTPUTS"]
        PROVE  /\ HoldNext(task, known)
               /\ outcome.ok => HoldNext(task, known \cup LatchesAll)
    <3>1. RecordLeft(ev, ev') \/ ("OUTPUTS" \in ev'.valid => ev'.shadow["OUTPUTS"] = task.saved["OUTPUTS"])
      BY <1>4, <2>2
    <3>2. outcome.ok => reached = Pins /\ ("OUTPUTS" \in ev'.valid => ev'.shadow["OUTPUTS"] = task.saved["OUTPUTS"])
      BY <1>6, <1>7, <1>9, <2>2
    <3>3. chip'.regs["OUTPUTS"] = Overlay(chip.regs["OUTPUTS"], reached, task.saved["OUTPUTS"])
      BY <2>1, <2>2
    <3>4. FactsHold(task, known, chip.regs, stale["OUTPUTS"], ev) BY DEF HoldNow
    <3>5. /\ FactsHold(task, known, chip'.regs, stale["OUTPUTS"] \ reached, ev')
          /\ outcome.ok =>
               FactsHold(task, known \cup LatchesAll, chip'.regs, stale["OUTPUTS"] \ reached, ev')
      BY <2>1, <3>1, <3>2, <3>3, <3>4, SavedLatchesWritten
    <3> QED BY <2>1, <3>5 DEF HoldNext
  <2>3. Harmless(task, c, known)
    <3>1. c = WritePair("OUTPUTS", "LOW") => value = {} BY <1>1 DEF WritePair, Call, Meant
    <3> QED BY <2>2, <3>1 DEF Harmless
  <2>4. CASE c.value = "SAVED"
    <3>1. value = task.saved["OUTPUTS"] BY <1>1, <1>9, <2>4 DEF Meant
    <3>2. Kept(c, known) = known /\ Gained(c, known) = LatchesAll
      BY <1>2, <1>9, <2>4 DEF Kept, Gained, LatchesAll
    <3>3. outcome.ok => HoldNext(task, Kept(c, known) \cup Gained(c, known)) BY <2>2, <3>1, <3>2
    <3> QED BY <1>5, <1>8, <2>2, <2>3, <3>1, <3>2, <3>3, ReturnsQuietly
  <2>5. CASE c.value # "SAVED"
    <3>1. /\ Kept(c, known) = known \ ({"SHADOW", "LATCHES"} \cup PortFacts)
          /\ Gained(c, known) = {}
      BY <1>2, <1>9, <2>5 DEF Kept, Gained
    <3>2. \A port \in Ports : PortFact[port] \notin Kept(c, known)
      BY <3>1 DEF PortFact, PortFacts, Ports
    <3>3. HoldNext(task, Kept(c, known))
      BY <2>1, <3>1, <3>2, LatchesWritten DEF HoldNow, HoldNext
    <3>4. HoldNext(task, Kept(c, known) \cup Gained(c, known)) BY <3>1, <3>3
    <3> QED BY <1>5, <1>8, <2>3, <3>3, <3>4, ReturnsQuietly
  <2> QED BY <2>4, <2>5
<1>10. CASE c.pair # "OUTPUTS"
  <2>1. Harmless(task, c, known) BY <1>10 DEF Harmless, WritePair, Call
  <2>2. /\ Kept(c, known) = IF c.pair = "DIRECTIONS" THEN known \cap {"SHADOW"} ELSE known
        /\ Gained(c, known) = {}
    BY <1>2, <1>10 DEF Kept, Gained
  <2>3. HoldNext(task, Kept(c, known))
    <3>1. CASE c.pair = "DIRECTIONS"
      <4>1. Kept(c, known) \cap ({"LATCHES", "BYTE"} \cup PortFacts) = {} /\ "DIRECTIONS" \notin Kept(c, known)
        BY <2>2, <3>1 DEF PortFacts
      <4> QED BY <1>4, <1>10, <4>1, RecordOnly, KeptIsKnown DEF HoldNow, HoldNext
    <3>2. CASE c.pair = "POLARITY"
      <4>1. /\ chip'.regs["OUTPUTS"] = chip.regs["OUTPUTS"]
            /\ chip'.regs["DIRECTIONS"] = chip.regs["DIRECTIONS"]
            /\ stale'["OUTPUTS"] = stale["OUTPUTS"]
        BY <1>3, <3>2 DEF WritablePairs
      <4> QED BY <1>4, <1>10, <4>1, LeftAlone, KeptIsKnown DEF HoldNow, HoldNext
    <3> QED BY <1>2, <1>10, <3>1, <3>2
  <2>4. HoldNext(task, Kept(c, known) \cup Gained(c, known)) BY <2>2, <2>3
  <2> QED BY <1>5, <1>8, <2>1, <2>3, <2>4, ReturnsQuietly
<1> QED BY <1>9, <1>10

\* of one byte of a pair,
LEMMA WritePortFacts ==
  ASSUME IInv, TaskTypeOK, NEW c \in DriverCalls, NEW known, HoldNow(known), Ready, writePortCall(c)
  PROVE  Effect(c, known)
<1>1. PICK value \in PortMeant(c.port, c.value), outcome \in WriteOutcome[2] :
        /\ writePortTo(c.pair, c.port, value, withPort(ev.shadow[c.pair], c.port, value), outcome)
        /\ Answered(outcome.ok)
  BY DEF writePortCall
<1>2. /\ c.op = "WRITE_PORT" /\ c.pair \in {"OUTPUTS", "POLARITY"} /\ c.value = "ANY"
      /\ ev \in Evidence /\ c.pair \in WritablePairs
  BY CallShape DEF writePortCall, IInv, TypeOK, WritablePairs
<1> DEFINE reached == Reached(c.port, outcome.accepted)
<1>3. /\ \A other \in WritablePairs : chip'.regs[other] =
           IF other = c.pair THEN Overlay(chip.regs[c.pair], reached, value) ELSE chip.regs[other]
      /\ stale'["OUTPUTS"] = IF c.pair = "OUTPUTS" THEN stale["OUTPUTS"] \ reached
                             ELSE stale["OUTPUTS"]
  BY <1>1, <1>2, WriteMoves DEF writePortTo
<1>4. c.pair # "OUTPUTS" => RecordLeft(ev, ev')
  <2> DEFINE intended == withPort(ev.shadow[c.pair], c.port, value)
  <2>1. ev' \in {invalidateShadowPair(ev, c.pair), establishShadowPair(ev, c.pair, intended), ev}
    BY <1>1, PortRecord DEF writePortTo
  <2> HIDE DEF intended
  <2> QED BY <1>2, <2>1, RecordMoves
<1>5. outcome.ok \in BOOLEAN BY WriteOutcomeFacts
<1>6. call'.stage = "IDLE" /\ Returns(outcome.ok) BY <1>1, IdleStage DEF Answered, Ready
<1>7. /\ Kept(c, known) = IF c.pair = "OUTPUTS" THEN known \ ({"SHADOW", "LATCHES"} \cup PortFacts)
                          ELSE known
      /\ Gained(c, known) = {}
  BY <1>2 DEF Kept, Gained
<1>8. Harmless(task, c, known) BY <1>2 DEF Harmless, WritePair, Call
<1> HIDE DEF reached
<1>9. HoldNext(task, Kept(c, known))
  <2>1. CASE c.pair = "OUTPUTS"
    <3>1. \A port \in Ports : PortFact[port] \notin Kept(c, known)
      BY <1>7, <2>1 DEF PortFact, PortFacts, Ports
    <3>2. /\ chip'.regs["OUTPUTS"] = Overlay(chip.regs["OUTPUTS"], reached, value)
          /\ chip'.regs["DIRECTIONS"] = chip.regs["DIRECTIONS"]
      BY <1>3, <2>1 DEF WritablePairs
    <3> QED BY <1>7, <2>1, <3>1, <3>2, LatchesWritten DEF HoldNow, HoldNext
  <2>2. CASE c.pair = "POLARITY"
    <3>1. /\ chip'.regs["OUTPUTS"] = chip.regs["OUTPUTS"]
          /\ chip'.regs["DIRECTIONS"] = chip.regs["DIRECTIONS"]
          /\ stale'["OUTPUTS"] = stale["OUTPUTS"]
      BY <1>3, <2>2 DEF WritablePairs
    <3> QED BY <1>4, <2>2, <3>1, LeftAlone, KeptIsKnown DEF HoldNow, HoldNext
  <2> QED BY <1>2, <2>1, <2>2
<1>10. HoldNext(task, Kept(c, known) \cup Gained(c, known)) BY <1>7, <1>9
<1> QED BY <1>5, <1>6, <1>8, <1>9, <1>10, ReturnsQuietly

\* A byte that is right for its port makes none of its latches worse.
LEMMA ByteWritten ==
  ASSUME NEW t, NEW known, NEW less \in SUBSET known, "BYTE" \in known, "LATCHES" \notin less,
         NEW regs, NEW reset, NEW e, NEW regs2, NEW reset2, NEW e2, NEW reached \in SUBSET PinsOf(0),
         FactsHold(t, known, regs, reset, e), RecordLeft(e, e2),
         regs2["OUTPUTS"] = Overlay(regs["OUTPUTS"], reached, t.byte),
         regs2["DIRECTIONS"] = regs["DIRECTIONS"]
  PROVE  /\ FactsHold(t, less, regs2, reset2, e2)
         /\ reached = PinsOf(0) => FactsHold(t, less \cup {"PORT_0"}, regs2, reset2, e2)
<1>1. \A pin : pin \in regs2["OUTPUTS"] <=>
        IF pin \in reached THEN pin \in t.byte ELSE pin \in regs["OUTPUTS"]
  BY DEF Overlay
<1>2. ASSUME "OUTPUTS" \in t.kept, NEW pin, pin \in reached \/ PinSafe(t, pin, regs)
      PROVE  PinSafe(t, pin, regs2)
  BY <1>1, <1>2 DEF PinSafe, FactsHold
<1>3. "DIRECTIONS" \in less \cap t.kept => t.saved["DIRECTIONS"] \subseteq regs2["DIRECTIONS"]
  BY DEF FactsHold
<1>4. "OUTPUTS" \in t.kept /\ "SHADOW" \in less /\ "OUTPUTS" \in e2.valid =>
        e2.shadow["OUTPUTS"] = t.saved["OUTPUTS"]
  BY DEF FactsHold, RecordLeft
<1>5. ASSUME "OUTPUTS" \in t.kept, NEW port \in Ports, PortFact[port] \in known
      PROVE  \A pin \in PinsOf(port) : PinSafe(t, pin, regs2)
  BY <1>2, <1>5 DEF FactsHold
<1>6. "OUTPUTS" \in t.kept => \A pin \in PinsOf(0) :
        pin \in regs2["DIRECTIONS"] \/ (pin \in t.byte <=> pin \in t.saved["OUTPUTS"])
  BY DEF FactsHold
<1>7. FactsHold(t, less, regs2, reset2, e2) BY <1>3, <1>4, <1>5, <1>6 DEF FactsHold
<1>8. ASSUME reached = PinsOf(0) PROVE FactsHold(t, less \cup {"PORT_0"}, regs2, reset2, e2)
  <2>1. "OUTPUTS" \in t.kept => \A pin \in PinsOf(0) : PinSafe(t, pin, regs2) BY <1>2, <1>8
  <2>2. \A port \in Ports : PortFact[port] = "PORT_0" => port = 0 BY DEF PortFact, Ports
  <2> QED BY <1>7, <2>1, <2>2 DEF FactsHold
<1> QED BY <1>7, <1>8

\* A raw write of a pair,
LEMMA WriteRawFacts ==
  ASSUME IInv, TaskTypeOK, NEW c \in DriverCalls, NEW known, HoldNow(known), Ready,
         writeRawCall(c), c.op = "WRITE_RAW"
  PROVE  Effect(c, known)
<1>1. PICK value \in Meant(c.pair, c.value), outcome \in WriteOutcome[3] :
        /\ Write(c.pair, c.port, value, outcome)
        /\ ev' = writeRegs([ev EXCEPT !.valid = @ \ {c.pair}], c.pair, value, TRUE, outcome)
        /\ Answered(outcome.ok)
  BY DEF writeRawCall
<1>2. /\ c.pair \in {"OUTPUTS", "POLARITY"} /\ c.pair \in WritablePairs /\ ev \in Evidence
  BY CallShape DEF IInv, TypeOK, WritablePairs
<1> DEFINE reached == Reached(c.port, outcome.accepted)
<1>3. /\ \A other \in WritablePairs : chip'.regs[other] =
           IF other = c.pair THEN Overlay(chip.regs[c.pair], reached, value) ELSE chip.regs[other]
      /\ stale'["OUTPUTS"] = IF c.pair = "OUTPUTS" THEN stale["OUTPUTS"] \ reached
                             ELSE stale["OUTPUTS"]
  BY <1>1, <1>2, WriteMoves
<1> DEFINE d == GivenUp(ev, c.pair)
<1>4. ev' = writeRegs(d, c.pair, value, TRUE, outcome) BY <1>1 DEF GivenUp
<1> HIDE DEF d
<1>5. ev' \in {invalidateShadowPair(d, c.pair), establishShadowPair(d, c.pair, value), d}
  BY <1>4, PairRecord
<1>6. /\ c.pair # "OUTPUTS" => RecordLeft(ev, ev')
      /\ RecordLeft(ev, ev') \/ ("OUTPUTS" \in ev'.valid => ev'.shadow["OUTPUTS"] = value)
      /\ d \in Evidence
  BY <1>2, <1>5, RawRecord DEF d
<1>7. /\ outcome.ok \in BOOLEAN /\ (outcome.ok => outcome.accepted = 3) BY WriteOutcomeFacts
<1>8. outcome.ok => reached = Pins BY <1>7 DEF Reached
<1>9. outcome.ok /\ c.pair = "OUTPUTS" => ev'.shadow["OUTPUTS"] = value
  <2>1. outcome.ok => ev' = establishShadowPair(d, c.pair, value)
    BY <1>4, WriteOutcomeFacts DEF writeRegs
  <2>2. d \in Evidence BY <1>6
  <2>3. establishShadowPair(d, "OUTPUTS", value).shadow["OUTPUTS"] = value
    BY <2>2 DEF establishShadowPair, Evidence, Images, WritablePairs
  <2> QED BY <2>1, <2>3
<1>10. call'.stage = "IDLE" /\ Returns(outcome.ok) BY <1>1, IdleStage DEF Answered, Ready
<1>11. Harmless(task, c, known) BY DEF Harmless, WritePair, Call
<1> HIDE DEF reached
<1>12. CASE c.pair = "OUTPUTS"
  <2>1. /\ chip'.regs["OUTPUTS"] = Overlay(chip.regs["OUTPUTS"], reached, value)
        /\ chip'.regs["DIRECTIONS"] = chip.regs["DIRECTIONS"]
        /\ stale'["OUTPUTS"] = stale["OUTPUTS"] \ reached
    BY <1>3, <1>12 DEF WritablePairs
  <2>2. CASE c.value = "SAVED"
    <3>1. value = task.saved["OUTPUTS"] BY <1>1, <1>12, <2>2 DEF Meant
    <3>2. Kept(c, known) = known /\ Gained(c, known) = LatchesAll
      BY <1>12, <2>2 DEF Kept, Gained, LatchesAll
    <3>3. chip'.regs["OUTPUTS"] = Overlay(chip.regs["OUTPUTS"], reached, task.saved["OUTPUTS"])
      BY <2>1, <3>1
    <3>4. RecordLeft(ev, ev') \/ ("OUTPUTS" \in ev'.valid => ev'.shadow["OUTPUTS"] = task.saved["OUTPUTS"])
      BY <1>6, <3>1
    <3>5. outcome.ok => reached = Pins /\ ("OUTPUTS" \in ev'.valid => ev'.shadow["OUTPUTS"] = task.saved["OUTPUTS"])
      BY <1>8, <1>9, <1>12, <3>1
    <3>6. FactsHold(task, known, chip.regs, stale["OUTPUTS"], ev) BY DEF HoldNow
    <3>7. /\ FactsHold(task, known, chip'.regs, stale["OUTPUTS"] \ reached, ev')
          /\ outcome.ok =>
               FactsHold(task, known \cup LatchesAll, chip'.regs, stale["OUTPUTS"] \ reached, ev')
      BY <2>1, <3>3, <3>4, <3>5, <3>6, SavedLatchesWritten
    <3>8. HoldNext(task, Kept(c, known)) BY <2>1, <3>2, <3>7 DEF HoldNext
    <3>9. outcome.ok => HoldNext(task, Kept(c, known) \cup Gained(c, known))
      BY <2>1, <3>2, <3>7 DEF HoldNext
    <3> QED BY <1>7, <1>10, <1>11, <3>8, <3>9, ReturnsQuietly
  <2>3. CASE c.value # "SAVED"
    <3>1. /\ Kept(c, known) = known \ ({"SHADOW", "LATCHES"} \cup PortFacts)
          /\ Gained(c, known) = {}
      BY <1>12, <2>3 DEF Kept, Gained
    <3>2. \A port \in Ports : PortFact[port] \notin Kept(c, known)
      BY <3>1 DEF PortFact, PortFacts, Ports
    <3>3. HoldNext(task, Kept(c, known))
      <4>1. /\ Kept(c, known) \in SUBSET known
            /\ "LATCHES" \notin Kept(c, known) /\ "SHADOW" \notin Kept(c, known)
        BY <3>1
      <4>2. FactsHold(task, known, chip.regs, stale["OUTPUTS"], ev) BY DEF HoldNow
      <4>3. /\ "SHADOW" \in Kept(c, known) => RecordLeft(ev, ev')
            /\ \A port \in Ports :
                 PortFact[port] \in Kept(c, known) => PinsOf(port) \cap reached = {}
            /\ chip'.regs["OUTPUTS"] = Overlay(chip.regs["OUTPUTS"], reached, value)
            /\ chip'.regs["DIRECTIONS"] = chip.regs["DIRECTIONS"]
        BY <2>1, <3>2, <4>1
      <4>4. FactsHold(task, Kept(c, known), chip'.regs, stale'["OUTPUTS"], ev')
        BY <4>1, <4>2, <4>3, LatchesWritten
      <4> QED BY <4>4 DEF HoldNext
    <3>4. HoldNext(task, Kept(c, known) \cup Gained(c, known)) BY <3>1, <3>3
    <3> QED BY <1>7, <1>10, <1>11, <3>3, <3>4, ReturnsQuietly
  <2> QED BY <2>2, <2>3
<1>13. CASE c.pair = "POLARITY"
  <2>1. /\ chip'.regs["OUTPUTS"] = chip.regs["OUTPUTS"]
        /\ chip'.regs["DIRECTIONS"] = chip.regs["DIRECTIONS"]
        /\ stale'["OUTPUTS"] = stale["OUTPUTS"]
    BY <1>3, <1>13 DEF WritablePairs
  <2>2. Gained(c, known) = {} BY <1>13 DEF Gained
  <2>3. HoldNext(task, Kept(c, known))
    BY <1>6, <1>13, <2>1, LeftAlone, KeptIsKnown DEF HoldNow, HoldNext
  <2>4. HoldNext(task, Kept(c, known) \cup Gained(c, known)) BY <2>2, <2>3
  <2> QED BY <1>7, <1>10, <1>11, <2>3, <2>4, ReturnsQuietly
<1> QED BY <1>2, <1>12, <1>13

\* and of a byte.
LEMMA WriteRawPortFacts ==
  ASSUME IInv, TaskTypeOK, NEW c \in DriverCalls, NEW known, HoldNow(known), Ready,
         writeRawCall(c), c.op = "WRITE_RAW_PORT"
  PROVE  Effect(c, known)
<1>1. PICK value \in PortMeant(c.port, c.value), outcome \in WriteOutcome[2] :
        /\ Write(c.pair, c.port, value, outcome)
        /\ ev' = writeRegs([ev EXCEPT !.valid = @ \ {c.pair}], c.pair, value, FALSE, outcome)
        /\ Answered(outcome.ok)
  BY DEF writeRawCall
<1>2. /\ c.pair \in {"OUTPUTS", "POLARITY"} /\ c.pair \in WritablePairs /\ ev \in Evidence
      /\ c.port \in Ports /\ (c.value = "SAVED" => c.port = 0)
  BY CallShape DEF IInv, TypeOK, WritablePairs
<1> DEFINE reached == Reached(c.port, outcome.accepted)
<1>3. /\ \A other \in WritablePairs : chip'.regs[other] =
           IF other = c.pair THEN Overlay(chip.regs[c.pair], reached, value) ELSE chip.regs[other]
      /\ stale'["OUTPUTS"] = IF c.pair = "OUTPUTS" THEN stale["OUTPUTS"] \ reached
                             ELSE stale["OUTPUTS"]
  BY <1>1, <1>2, WriteMoves
<1>4. RecordLeft(ev, ev')
  <2> DEFINE d == GivenUp(ev, c.pair)
  <2>1. ev' \in {invalidateShadowPair(d, c.pair), d} BY <1>1 DEF writeRegs, GivenUp
  <2>2. d \in Evidence /\ RecordLeft(ev, d) BY <1>2 DEF GivenUp, Evidence, RecordLeft
  <2> HIDE DEF d
  <2>3. RecordLeft(d, invalidateShadowPair(d, c.pair))
    BY <2>2 DEF invalidateShadowPair, Evidence, RecordLeft
  <2> QED BY <2>1, <2>2, <2>3 DEF RecordLeft
<1>6. /\ outcome.ok \in BOOLEAN /\ outcome.accepted \in 0..2 /\ (outcome.ok => outcome.accepted = 2)
  BY WriteOutcomeFacts
<1>7. reached \subseteq PinsOf(c.port) /\ (outcome.ok => reached = PinsOf(c.port))
  BY <1>6 DEF Reached
<1>8. call'.stage = "IDLE" /\ Returns(outcome.ok) BY <1>1, IdleStage DEF Answered, Ready
<1>9. Harmless(task, c, known) BY DEF Harmless, WritePair, Call
<1> HIDE DEF reached
<1>10. CASE c.pair = "OUTPUTS"
  <2>1. /\ chip'.regs["OUTPUTS"] = Overlay(chip.regs["OUTPUTS"], reached, value)
        /\ chip'.regs["DIRECTIONS"] = chip.regs["DIRECTIONS"]
    BY <1>3, <1>10 DEF WritablePairs
  <2>2. CASE c.value = "SAVED" /\ "BYTE" \in known
    <3>1. value = task.byte /\ c.port = 0 BY <1>1, <1>2, <2>2 DEF PortMeant
    <3>2. Kept(c, known) = known \ {"LATCHES"} /\ Gained(c, known) = {"PORT_0"}
      BY <1>10, <2>2 DEF Kept, Gained
    <3>3. /\ FactsHold(task, Kept(c, known), chip'.regs, stale'["OUTPUTS"], ev')
          /\ reached = PinsOf(0) =>
               FactsHold(task, Kept(c, known) \cup {"PORT_0"}, chip'.regs, stale'["OUTPUTS"], ev')
      <4>1. /\ Kept(c, known) \in SUBSET known /\ "LATCHES" \notin Kept(c, known)
            /\ reached \in SUBSET PinsOf(0)
            /\ chip'.regs["OUTPUTS"] = Overlay(chip.regs["OUTPUTS"], reached, task.byte)
        BY <1>7, <2>1, <3>1, <3>2
      <4>2. FactsHold(task, known, chip.regs, stale["OUTPUTS"], ev) BY DEF HoldNow
      <4> QED BY <1>4, <2>1, <2>2, <4>1, <4>2, ByteWritten
    <3>4. HoldNext(task, Kept(c, known)) BY <3>3 DEF HoldNext
    <3>5. outcome.ok => HoldNext(task, Kept(c, known) \cup Gained(c, known))
      BY <1>7, <3>1, <3>2, <3>3 DEF HoldNext
    <3> QED BY <1>6, <1>8, <1>9, <3>4, <3>5, ReturnsQuietly
  <2>3. CASE ~(c.value = "SAVED" /\ "BYTE" \in known)
    <3>1. Kept(c, known) = known \ {"LATCHES", PortFact[c.port]} /\ Gained(c, known) = {}
      BY <1>10, <2>3 DEF Kept, Gained
    <3>2. ASSUME NEW port \in Ports, PortFact[port] \in Kept(c, known)
          PROVE  PinsOf(port) \cap reached = {}
      <4>1. port # c.port BY <3>1, <3>2
      <4> QED BY <1>7, <4>1 DEF PinsOf
    <3>3. HoldNext(task, Kept(c, known))
      <4>1. Kept(c, known) \in SUBSET known /\ "LATCHES" \notin Kept(c, known) BY <3>1
      <4>2. FactsHold(task, known, chip.regs, stale["OUTPUTS"], ev) BY DEF HoldNow
      <4> QED BY <1>4, <2>1, <3>2, <4>1, <4>2, LatchesWritten DEF HoldNext
    <3>4. HoldNext(task, Kept(c, known) \cup Gained(c, known)) BY <3>1, <3>3
    <3> QED BY <1>6, <1>8, <1>9, <3>3, <3>4, ReturnsQuietly
  <2> QED BY <2>2, <2>3
<1>11. CASE c.pair = "POLARITY"
  <2>1. /\ chip'.regs["OUTPUTS"] = chip.regs["OUTPUTS"]
        /\ chip'.regs["DIRECTIONS"] = chip.regs["DIRECTIONS"]
        /\ stale'["OUTPUTS"] = stale["OUTPUTS"]
    BY <1>3, <1>11 DEF WritablePairs
  <2>2. Gained(c, known) = {} BY <1>11 DEF Gained
  <2>3. HoldNext(task, Kept(c, known))
    BY <1>4, <2>1, LeftAlone, KeptIsKnown DEF HoldNow, HoldNext
  <2>4. HoldNext(task, Kept(c, known) \cup Gained(c, known)) BY <2>2, <2>3
  <2> QED BY <1>6, <1>8, <1>9, <2>3, <2>4, ReturnsQuietly
<1> QED BY <1>2, <1>10, <1>11

\* A read of the inputs teaches nothing of the latches, and goes on to park the pointer.
LEMMA InputFacts ==
  ASSUME IInv, TaskTypeOK, NEW c \in DriverCalls, NEW known, HoldNow(known), Ready, inputCall(c)
  PROVE  Effect(c, known)
<1>1. c.op \in {"INPUTS", "INPUT_PORT"} BY DEF inputCall
<1>2. ASSUME NEW whole \in BOOLEAN, NEW seen \in {"PARK_PAIR", "PARK_PORT"}, NEW outcome,
             inputReadThen(whole, seen, outcome),
             IF call' = Idle THEN Returns(FALSE) ELSE UNCHANGED task
      PROVE  Effect(c, known)
  <2>1. chip'.regs = chip.regs /\ stale' = stale
    BY <1>2, CommandMoves DEF inputReadThen, readInputRegisters, IInv, TypeOK
  <2>2. RecordLeft(ev, ev')
    <3>1. ev' \in {ev, failedPairRead(ev, "INPUTS")}
      BY <1>2 DEF inputReadThen, readInputRegisters
    <3>2. ev \in Evidence /\ "INPUTS" \in Pairs BY DEF IInv, TypeOK, Pairs
    <3>3. "OUTPUTS" \in WritablePairs BY DEF WritablePairs
    <3> QED BY <3>1, <3>2, <3>3, ReadRecord
  <2>3. HoldNext(task, known) /\ HoldNext(task, Kept(c, known))
    BY <2>1, <2>2, StillTrue, KeptIsKnown
  <2>4. CASE call' = Idle
    BY <1>1, <1>2, <2>3, <2>4, ReturnsQuietly, IdleStage DEF Harmless, WritePair, Call
  <2>5. CASE call' # Idle
    <3>1. call' \in {Then(seen, {}, 0), Then("PARK_NOTHING", {}, 0)} /\ task' = task
      BY <1>2, <2>5 DEF inputReadThen
    <3>2. call'.stage \in ParkStages BY <1>2, <3>1 DEF Then, ParkStages
    <3>3. Underway(c)' BY <1>1, <3>2 DEF Underway, ParkStages, EnableStages
    <3>4. call'.stage \notin EnableStages BY <3>2 DEF ParkStages, EnableStages
    <3> QED BY <2>3, <3>1, <3>3, <3>4 DEF Effect
  <2> QED BY <2>4, <2>5
<1>3. CASE c.op = "INPUTS"
  <2>1. PICK outcome \in ReadOutcome[2] :
          /\ inputReadThen(TRUE, "PARK_PAIR", outcome)
          /\ IF call' = Idle THEN Returns(FALSE) ELSE UNCHANGED task
    BY <1>3, Zenon DEF inputCall
  <2> QED BY <1>2, <2>1
<1>4. CASE c.op = "INPUT_PORT"
  <2>1. PICK outcome \in ReadOutcome[1] :
          /\ inputReadThen(FALSE, "PARK_PORT", outcome)
          /\ IF call' = Idle THEN Returns(FALSE) ELSE UNCHANGED task
    BY <1>4 DEF inputCall
  <2> QED BY <1>2, <2>1
<1> QED BY <1>1, <1>3, <1>4

Directed == {"SHADOW", "LATCHES", "DIRECTIONS"}

\* The pins reached have the recorded latches, and the others those of before.
Preload(regs, e, reached, regs2) ==
  \A pin \in Pins : pin \in regs2["OUTPUTS"] <=>
    IF pin \in reached THEN pin \in e.shadow["OUTPUTS"] ELSE pin \in regs["OUTPUTS"]

\* The preload of a call that sets directions writes the recorded latches.
LEMMA PreloadKeeps ==
  ASSUME NEW t, NEW known, NEW less \in SUBSET known, less \subseteq Directed,
         NEW regs, NEW reset, NEW e, NEW regs2, NEW reset2, NEW e2, NEW reached,
         FactsHold(t, known, regs, reset, e),
         "LATCHES" \in less => "SHADOW" \in known, "OUTPUTS" \in e.valid, RecordLeft(e, e2),
         regs2["DIRECTIONS"] = regs["DIRECTIONS"], Preload(regs, e, reached, regs2),
         reset \subseteq reset2 \cup reached
  PROVE  FactsHold(t, less, regs2, reset2, e2)
<1>1. \A port \in Ports : PortFact[port] \notin less
  BY DEF PortFact, PortFacts, Ports, Directed
<1>2. "BYTE" \notin less BY DEF Directed
<1>3. "DIRECTIONS" \in less \cap t.kept => t.saved["DIRECTIONS"] \subseteq regs2["DIRECTIONS"]
  BY DEF FactsHold
<1>4. "OUTPUTS" \in t.kept /\ "SHADOW" \in known => e.shadow["OUTPUTS"] = t.saved["OUTPUTS"]
  BY DEF FactsHold
<1>5. "OUTPUTS" \in t.kept /\ "SHADOW" \in less /\ "OUTPUTS" \in e2.valid =>
        e2.shadow["OUTPUTS"] = t.saved["OUTPUTS"]
  BY <1>4 DEF RecordLeft
<1>6. ASSUME "OUTPUTS" \in t.kept, "LATCHES" \in less, NEW pin \in Pins \ reset2
      PROVE  PinSafe(t, pin, regs2)
  <2>1. CASE pin \in reached BY <1>4, <1>6, <2>1 DEF PinSafe, Preload
  <2>2. CASE pin \notin reached
    <3>1. PinSafe(t, pin, regs) BY <1>6, <2>2 DEF FactsHold
    <3> QED BY <1>6, <2>2, <3>1 DEF PinSafe, Preload
  <2> QED BY <2>1, <2>2
<1> QED BY <1>1, <1>2, <1>3, <1>5, <1>6 DEF FactsHold

\* The direction write that follows it: a pin that it enables has the recorded latch.
LEMMA EnableKeeps ==
  ASSUME NEW t, NEW known, NEW less, less \subseteq known \cup {"DIRECTIONS"}, less \subseteq Directed,
         NEW regs, NEW reset, NEW e, NEW regs2, NEW e2,
         FactsHold(t, known, regs, reset, e),
         "LATCHES" \in less => "SHADOW" \in known, "OUTPUTS" \in e.valid, RecordLeft(e, e2),
         regs2["OUTPUTS"] = regs["OUTPUTS"],
         \A pin \in Pins \ reset : pin \in e.shadow["OUTPUTS"] <=> pin \in regs["OUTPUTS"],
         "DIRECTIONS" \in less \cap t.kept => t.saved["DIRECTIONS"] \subseteq regs2["DIRECTIONS"]
  PROVE  FactsHold(t, less, regs2, reset, e2)
<1>1. \A port \in Ports : PortFact[port] \notin less
  BY DEF PortFact, PortFacts, Ports, Directed
<1>2. "BYTE" \notin less BY DEF Directed
<1>3. "OUTPUTS" \in t.kept /\ "SHADOW" \in known => e.shadow["OUTPUTS"] = t.saved["OUTPUTS"]
  BY DEF FactsHold
<1>4. "SHADOW" \in less => "SHADOW" \in known OBVIOUS
<1>5. "OUTPUTS" \in t.kept /\ "SHADOW" \in less /\ "OUTPUTS" \in e2.valid =>
        e2.shadow["OUTPUTS"] = t.saved["OUTPUTS"]
  BY <1>3, <1>4 DEF RecordLeft
<1>6. ASSUME "OUTPUTS" \in t.kept, "LATCHES" \in less, NEW pin \in Pins \ reset
      PROVE  PinSafe(t, pin, regs2)
  BY <1>3, <1>6 DEF PinSafe
<1> QED BY <1>1, <1>2, <1>5, <1>6 DEF FactsHold

LEMMA DirectionsGained ==
  ASSUME NEW t, NEW known, NEW regs, NEW reset, NEW e,
         FactsHold(t, known, regs, reset, e), t.saved["DIRECTIONS"] \subseteq regs["DIRECTIONS"]
  PROVE  FactsHold(t, known \cup {"DIRECTIONS"}, regs, reset, e)
<1>1. \A port \in Ports : PortFact[port] # "DIRECTIONS" BY DEF PortFact, Ports
<1> QED BY <1>1 DEF FactsHold

\* What a call that sets directions keeps.
LEMMA DirectKept ==
  ASSUME NEW c, c.op \in {"DIRECT", "DIRECT_PORT"}, NEW known
  PROVE  /\ Kept(c, known) \in SUBSET known /\ Kept(c, known) \subseteq Directed
         /\ "LATCHES" \in Kept(c, known) => "SHADOW" \in Kept(c, known)
         /\ "DIRECTIONS" \in Kept(c, known) => c.value = "SAVED"
<1>1. Kept(c, known) =
        known \cap ({"SHADOW"} \cup (IF "SHADOW" \in known THEN {"LATCHES"} ELSE {})
                               \cup (IF c.value = "SAVED" THEN {"DIRECTIONS"} ELSE {}))
  BY DEF Kept
<1> QED BY <1>1 DEF Directed

\* The first callback of such a call, when it makes more inputs,
LEMMA InputsMade ==
  ASSUME IInv, TaskTypeOK, NEW known, HoldNow(known), NEW less \in SUBSET known,
         NEW first, NEW value, NEW outcome,
         Write("DIRECTIONS", first, value, outcome),
         Reached(first, outcome.accepted) \subseteq value,
         RecordLeft(ev, ev')
  PROVE  /\ HoldNext(task, less)
         /\ task.saved["DIRECTIONS"] \subseteq Reached(first, outcome.accepted) =>
              HoldNext(task, less \cup {"DIRECTIONS"})
<1> DEFINE reached == Reached(first, outcome.accepted)
<1>1. /\ chip'.regs["DIRECTIONS"] = Overlay(chip.regs["DIRECTIONS"], reached, value)
      /\ chip'.regs["OUTPUTS"] = chip.regs["OUTPUTS"]
      /\ stale'["OUTPUTS"] = stale["OUTPUTS"]
  BY WriteMoves DEF WritablePairs
<1> HIDE DEF reached
<1>2. chip.regs["DIRECTIONS"] \cup reached \subseteq chip'.regs["DIRECTIONS"]
  BY <1>1 DEF Overlay, reached
<1>3. HoldNext(task, less) BY <1>1, <1>2, LeftAlone DEF HoldNow, HoldNext
<1>4. task.saved["DIRECTIONS"] \subseteq reached => HoldNext(task, less \cup {"DIRECTIONS"})
  BY <1>2, <1>3, DirectionsGained DEF HoldNext
<1> QED BY <1>3, <1>4 DEF reached

\* and when it preloads the latches.
LEMMA PreloadFacts ==
  ASSUME IInv, TaskTypeOK, NEW c, c.op \in {"DIRECT", "DIRECT_PORT"}, NEW known, HoldNow(known),
         NEW first, NEW value, NEW outcome, NEW next,
         "OUTPUTS" \in ev.valid, Write("OUTPUTS", first, value, outcome),
         \A pin \in Reached(first, outcome.accepted) : pin \in value <=> pin \in ev.shadow["OUTPUTS"],
         RecordLeft(ev, ev'), Preloaded(outcome, next), outcome.ok \in BOOLEAN,
         call' = next => Underway(c)' \/ task' # task, next.stage \in EnableStages
  PROVE  Effect(c, known)
<1> DEFINE reached == Reached(first, outcome.accepted)
<1>1. /\ chip'.regs["OUTPUTS"] = Overlay(chip.regs["OUTPUTS"], reached, value)
      /\ chip'.regs["DIRECTIONS"] = chip.regs["DIRECTIONS"]
      /\ stale'["OUTPUTS"] = stale["OUTPUTS"] \ reached
  BY WriteMoves DEF WritablePairs
<1>2. \A pin \in reached : pin \in value <=> pin \in ev.shadow["OUTPUTS"] OBVIOUS
<1> HIDE DEF reached
<1>3. Preload(chip.regs, ev, reached, chip'.regs) BY <1>1, <1>2 DEF Preload, Overlay
<1>4. stale["OUTPUTS"] \subseteq stale'["OUTPUTS"] \cup reached BY <1>1
<1>5. /\ Kept(c, known) \in SUBSET known /\ Kept(c, known) \subseteq Directed
      /\ "LATCHES" \in Kept(c, known) => "SHADOW" \in known
  BY DirectKept
<1>6. FactsHold(task, known, chip.regs, stale["OUTPUTS"], ev) BY DEF HoldNow
<1>7. FactsHold(task, Kept(c, known), chip'.regs, stale'["OUTPUTS"], ev')
  <2> DEFINE less == Kept(c, known)
  <2>1. /\ less \in SUBSET known /\ less \subseteq Directed
        /\ "LATCHES" \in less => "SHADOW" \in known
    BY <1>5
  <2>2. chip'.regs["DIRECTIONS"] = chip.regs["DIRECTIONS"] BY <1>1
  <2> HIDE DEF less
  <2>3. FactsHold(task, less, chip'.regs, stale'["OUTPUTS"], ev')
    BY <1>3, <1>4, <1>6, <2>1, <2>2, PreloadKeeps
  <2> QED BY <2>3 DEF less
<1>8. HoldNext(task, Kept(c, known)) BY <1>7 DEF HoldNext
<1>9. CASE outcome.ok
  <2>1. call' = next /\ task' = task BY <1>9 DEF Preloaded, preloadThen
  <2> QED BY <1>8, <2>1 DEF Effect
<1>10. CASE ~outcome.ok
  <2>1. call'.stage = "IDLE" /\ Returns(FALSE) BY <1>10, IdleStage DEF Preloaded, preloadThen
  <2>2. Harmless(task, c, known) BY DEF Harmless, WritePair, Call
  <2> QED BY <1>8, <2>1, <2>2, ReturnsQuietly
<1> QED BY <1>9, <1>10

LEMMA DirectFacts ==
  ASSUME IInv, TaskTypeOK, NEW c \in DriverCalls, NEW known, HoldNow(known), Ready, directCall(c)
  PROVE  Effect(c, known)
<1>1. PICK value \in Meant("DIRECTIONS", c.value), outcome \in WriteOutcome[3] :
        IF value = Pins
        THEN writePairTo("DIRECTIONS", value, outcome) /\ Answered(outcome.ok)
        ELSE /\ shadowStatus({"OUTPUTS"} \cup Needs("DIRECTIONS", c.value))
             /\ writePairTo("OUTPUTS", ev.shadow["OUTPUTS"], outcome)
             /\ Preloaded(outcome, Then("ENABLE_PAIR", value, 0))
  BY DEF directCall
<1>2. c.op = "DIRECT" /\ ev \in Evidence BY DEF directCall, IInv, TypeOK
<1>3. outcome.ok \in BOOLEAN /\ (outcome.ok => outcome.accepted = 3) BY WriteOutcomeFacts
<1>4. CASE value = Pins
  <2>1. Write("DIRECTIONS", 0, Pins, outcome) /\ Answered(outcome.ok)
    BY <1>1, <1>4 DEF writePairTo
  <2>2. RecordLeft(ev, ev')
    <3>1. ev' = writeRegs(ev, "DIRECTIONS", value, TRUE, outcome) BY <1>1, <1>4 DEF writePairTo
    <3>2. ev' \in {invalidateShadowPair(ev, "DIRECTIONS"), establishShadowPair(ev, "DIRECTIONS", value), ev}
      BY <3>1, PairRecord
    <3> QED BY <1>2, <3>2, RecordMoves DEF WritablePairs
  <2>3. /\ Reached(0, outcome.accepted) \subseteq Pins
        /\ outcome.ok => Reached(0, outcome.accepted) = Pins
    BY <1>3 DEF Reached, PinsOf
  <2>4. task.saved["DIRECTIONS"] \subseteq Pins
    BY DEF TaskTypeOK, Tasks, Images, Values, WritablePairs
  <2>5. Kept(c, known) \in SUBSET known BY KeptIsKnown
  <2>6. /\ HoldNext(task, Kept(c, known))
        /\ outcome.ok => HoldNext(task, Kept(c, known) \cup {"DIRECTIONS"})
    <3> DEFINE less == Kept(c, known)
    <3>1. less \in SUBSET known BY <2>5
    <3>2. Reached(0, outcome.accepted) \subseteq Pins BY <2>3
    <3>3. outcome.ok => task.saved["DIRECTIONS"] \subseteq Reached(0, outcome.accepted) BY <2>3, <2>4
    <3>4. Write("DIRECTIONS", 0, Pins, outcome) BY <2>1
    <3> HIDE DEF less
    <3>5. /\ HoldNext(task, less)
          /\ task.saved["DIRECTIONS"] \subseteq Reached(0, outcome.accepted) =>
               HoldNext(task, less \cup {"DIRECTIONS"})
      BY <2>2, <3>1, <3>2, <3>4, InputsMade
    <3> QED BY <3>3, <3>5 DEF less
  <2>7. Gained(c, known) \subseteq {"DIRECTIONS"} BY <1>2 DEF Gained
  <2>8. outcome.ok => HoldNext(task, Kept(c, known) \cup Gained(c, known))
    BY <2>6, <2>7, FewerFacts DEF HoldNext
  <2>9. call'.stage = "IDLE" /\ Returns(outcome.ok) BY <2>1, IdleStage DEF Answered, Ready
  <2>10. Harmless(task, c, known) BY <1>2 DEF Harmless, WritePair, Call
  <2> QED BY <1>3, <2>6, <2>8, <2>9, <2>10, ReturnsQuietly
<1>5. CASE value # Pins
  <2> DEFINE next == Then("ENABLE_PAIR", value, 0)
  <2>1. /\ "OUTPUTS" \in ev.valid /\ Write("OUTPUTS", 0, ev.shadow["OUTPUTS"], outcome)
        /\ Preloaded(outcome, next)
    BY <1>1, <1>5 DEF shadowStatus, writePairTo
  <2>2. RecordLeft(ev, ev')
    <3>1. ev' = writeRegs(ev, "OUTPUTS", ev.shadow["OUTPUTS"], TRUE, outcome)
      BY <1>1, <1>5 DEF writePairTo
    <3>2. ev' \in {invalidateShadowPair(ev, "OUTPUTS"),
                   establishShadowPair(ev, "OUTPUTS", ev.shadow["OUTPUTS"]), ev}
      BY <3>1, PairRecord
    <3>3. RecordLeft(ev, ev') \/ ("OUTPUTS" \in ev'.valid => ev'.shadow["OUTPUTS"] = ev.shadow["OUTPUTS"])
      BY <1>2, <3>2, RecordMoves DEF WritablePairs
    <3> QED BY <2>1, <3>3 DEF RecordLeft
  <2>3. c.value = "SAVED" => value = task.saved["DIRECTIONS"] BY <1>1 DEF Meant
  <2>4. next.stage = "ENABLE_PAIR" /\ next.value = value BY DEF Then
  <2> HIDE DEF next
  <2>5. call' = next => Underway(c)' \/ task' # task
    BY <1>2, <2>3, <2>4 DEF Underway, EnableStages, ParkStages
  <2>6. next.stage \in EnableStages BY <2>4 DEF EnableStages
  <2> QED BY <1>2, <1>3, <2>1, <2>2, <2>5, <2>6, PreloadFacts
<1> QED BY <1>4, <1>5

LEMMA DirectPortFacts ==
  ASSUME IInv, TaskTypeOK, NEW c \in DriverCalls, NEW known, HoldNow(known), Ready, directPortCall(c)
  PROVE  Effect(c, known)
<1>1. PICK value \in PortMeant(c.port, c.value), outcome \in WriteOutcome[2] :
        IF value = PinsOf(c.port)
        THEN /\ writePortTo("DIRECTIONS", c.port, value,
                            withPort(ev.shadow["DIRECTIONS"], c.port, value), outcome)
             /\ Answered(outcome.ok)
        ELSE /\ shadowStatus({"OUTPUTS"})
             /\ writePortTo("OUTPUTS", c.port, portValue(ev.shadow["OUTPUTS"], c.port),
                            ev.shadow["OUTPUTS"], outcome)
             /\ Preloaded(outcome, Then("ENABLE_PORT", value, c.port))
  BY DEF directPortCall
<1>2. c.op = "DIRECT_PORT" /\ ev \in Evidence BY DEF directPortCall, IInv, TypeOK
<1>3. outcome.ok \in BOOLEAN /\ outcome.accepted \in 0..2 BY WriteOutcomeFacts
<1>4. Reached(c.port, outcome.accepted) \subseteq PinsOf(c.port) BY <1>3 DEF Reached
<1>5. CASE value = PinsOf(c.port)
  <2> DEFINE intended == withPort(ev.shadow["DIRECTIONS"], c.port, value)
  <2>1. Write("DIRECTIONS", c.port, value, outcome) /\ Answered(outcome.ok)
    BY <1>1, <1>5 DEF writePortTo
  <2>2. RecordLeft(ev, ev')
    <3>1. ev' \in {invalidateShadowPair(ev, "DIRECTIONS"), establishShadowPair(ev, "DIRECTIONS", intended), ev}
      BY <1>1, <1>5, PortRecord DEF writePortTo
    <3> HIDE DEF intended
    <3> QED BY <1>2, <3>1, RecordMoves DEF WritablePairs
  <2>3. Kept(c, known) \in SUBSET known BY KeptIsKnown
  <2>4. HoldNext(task, Kept(c, known))
    <3> DEFINE less == Kept(c, known)
    <3>1. less \in SUBSET known /\ Write("DIRECTIONS", c.port, value, outcome) BY <2>1, <2>3
    <3> HIDE DEF less
    <3>2. HoldNext(task, less) BY <1>4, <1>5, <2>2, <3>1, InputsMade
    <3> QED BY <3>2 DEF less
  <2>5. Gained(c, known) = {} BY <1>2 DEF Gained
  <2>6. HoldNext(task, Kept(c, known) \cup Gained(c, known)) BY <2>4, <2>5
  <2>7. call'.stage = "IDLE" /\ Returns(outcome.ok) BY <2>1, IdleStage DEF Answered, Ready
  <2>8. Harmless(task, c, known) BY <1>2 DEF Harmless, WritePair, Call
  <2> QED BY <1>3, <2>4, <2>6, <2>7, <2>8, ReturnsQuietly
<1>6. CASE value # PinsOf(c.port)
  <2> DEFINE next == Then("ENABLE_PORT", value, c.port)
             latches == portValue(ev.shadow["OUTPUTS"], c.port)
  <2>1. /\ "OUTPUTS" \in ev.valid /\ Write("OUTPUTS", c.port, latches, outcome)
        /\ Preloaded(outcome, next)
    BY <1>1, <1>6 DEF shadowStatus, writePortTo
  <2>2. RecordLeft(ev, ev')
    <3>1. ev' \in {invalidateShadowPair(ev, "OUTPUTS"),
                   establishShadowPair(ev, "OUTPUTS", ev.shadow["OUTPUTS"]), ev}
      BY <1>1, <1>6, PortRecord DEF writePortTo
    <3>2. RecordLeft(ev, ev') \/ ("OUTPUTS" \in ev'.valid => ev'.shadow["OUTPUTS"] = ev.shadow["OUTPUTS"])
      BY <1>2, <3>1, RecordMoves DEF WritablePairs
    <3> QED BY <2>1, <3>2 DEF RecordLeft
  <2>3. \A pin \in Reached(c.port, outcome.accepted) : pin \in latches <=> pin \in ev.shadow["OUTPUTS"]
    BY <1>4 DEF portValue
  <2>4. next.stage = "ENABLE_PORT" BY DEF Then
  <2> HIDE DEF next, latches
  <2>5. call' = next => Underway(c)' \/ task' # task
    BY <1>2, <2>4 DEF Underway, EnableStages, ParkStages
  <2>6. next.stage \in EnableStages BY <2>4 DEF EnableStages
  <2> QED BY <1>2, <1>3, <2>1, <2>2, <2>3, <2>5, <2>6, PreloadFacts
<1> QED BY <1>5, <1>6

-----------------------------------------------------------------------------
(* The second callbacks, and the recovery *)

\* What holds while the call c is in progress.
Ahead(c, known) == IF call.stage \in EnableStages THEN Kept(c, known) ELSE known

\* The direction write after a preload,
LEMMA EnableFacts ==
  ASSUME IInv, TaskTypeOK, NEW c, c.op \in {"DIRECT", "DIRECT_PORT"}, NEW known,
         HoldNow(Kept(c, known)), call.stage \in EnableStages, call'.stage = "IDLE",
         NEW first, NEW outcome, outcome.ok \in BOOLEAN,
         Write("DIRECTIONS", first, call.value, outcome), RecordLeft(ev, ev'),
         c.value = "SAVED" => call.value = task.saved["DIRECTIONS"],
         outcome.ok /\ c.op = "DIRECT" => Reached(first, outcome.accepted) = Pins,
         Returns(outcome.ok)
  PROVE  Effect(c, known)
<1> DEFINE reached == Reached(first, outcome.accepted)
           kept == Kept(c, known)
<1>1. /\ chip'.regs["DIRECTIONS"] = Overlay(chip.regs["DIRECTIONS"], reached, call.value)
      /\ chip'.regs["OUTPUTS"] = chip.regs["OUTPUTS"]
      /\ stale'["OUTPUTS"] = stale["OUTPUTS"]
  BY WriteMoves DEF WritablePairs
<1>2. /\ kept \subseteq Directed
      /\ "LATCHES" \in kept => "SHADOW" \in kept
      /\ "DIRECTIONS" \in kept => c.value = "SAVED"
  BY DirectKept
<1>3. Gained(c, known) = IF c.op = "DIRECT" /\ c.value = "SAVED" THEN {"DIRECTIONS"} ELSE {}
  BY DEF Gained
<1>4. outcome.ok /\ c.op = "DIRECT" => reached = Pins OBVIOUS
<1> HIDE DEF reached, kept
<1>5. FactsHold(task, kept, chip.regs, stale["OUTPUTS"], ev) BY DEF HoldNow, kept
<1>6. "OUTPUTS" \in ev.valid BY DEF IInv, CallInv, EnableStages
<1>7. \A pin \in Pins \ stale["OUTPUTS"] : pin \in ev.shadow["OUTPUTS"] <=> pin \in chip.regs["OUTPUTS"]
  BY <1>6 DEF IInv, ShadowSound
<1>8. ASSUME NEW less, less \subseteq kept \cup {"DIRECTIONS"},
             "DIRECTIONS" \in less \cap task.kept =>
               task.saved["DIRECTIONS"] \subseteq chip'.regs["DIRECTIONS"]
      PROVE  HoldNext(task, less)
  <2>1. less \subseteq kept \cup {"DIRECTIONS"} BY <1>8
  <2>2. /\ less \subseteq Directed
        /\ "LATCHES" \in less => "SHADOW" \in kept
    BY <1>2, <2>1 DEF Directed
  <2>3. FactsHold(task, less, chip'.regs, stale["OUTPUTS"], ev')
    BY <1>1, <1>5, <1>6, <1>7, <1>8, <2>1, <2>2, EnableKeeps
  <2> QED BY <1>1, <2>3 DEF HoldNext
<1>9. "DIRECTIONS" \in kept \cap task.kept =>
        task.saved["DIRECTIONS"] \subseteq chip'.regs["DIRECTIONS"]
  BY <1>1, <1>2, <1>5 DEF FactsHold, Overlay
<1>10. outcome.ok /\ c.op = "DIRECT" /\ c.value = "SAVED" =>
         task.saved["DIRECTIONS"] \subseteq chip'.regs["DIRECTIONS"]
  <2>1. task.saved["DIRECTIONS"] \subseteq Pins
    BY DEF TaskTypeOK, Tasks, Images, Values, WritablePairs
  <2> QED BY <1>1, <1>4, <2>1 DEF Overlay
<1>11. HoldNext(task, kept) BY <1>8, <1>9
<1>12. outcome.ok => HoldNext(task, kept \cup Gained(c, known))
  BY <1>3, <1>8, <1>10, <1>11
<1>13. Harmless(task, c, known) BY DEF Harmless, WritePair, Call
<1> QED BY <1>11, <1>12, <1>13, ReturnsQuietly DEF kept

LEMMA FinishFacts ==
  ASSUME IInv, TaskTypeOK, NEW c \in DriverCalls, NEW known, Underway(c), HoldNow(Ahead(c, known)),
         Finish
  PROVE  Effect(c, known)
<1>1. call'.stage = "IDLE" BY IdleStage DEF Finish
<1>2. ev \in Evidence BY DEF IInv, TypeOK
<1>3. CASE call.stage = "ENABLE_PAIR"
  <2>1. PICK outcome \in WriteOutcome[3] :
          writePairTo("DIRECTIONS", call.value, outcome) /\ Returns(outcome.ok)
    BY <1>3 DEF Finish
  <2>2. outcome.ok \in BOOLEAN /\ (outcome.ok => outcome.accepted = 3) BY WriteOutcomeFacts
  <2>3. outcome.ok => Reached(0, outcome.accepted) = Pins BY <2>2 DEF Reached
  <2>4. RecordLeft(ev, ev')
    <3>1. ev' = writeRegs(ev, "DIRECTIONS", call.value, TRUE, outcome) BY <2>1 DEF writePairTo
    <3>2. ev' \in {invalidateShadowPair(ev, "DIRECTIONS"),
                   establishShadowPair(ev, "DIRECTIONS", call.value), ev}
      BY <3>1, PairRecord
    <3> QED BY <1>2, <3>2, RecordMoves DEF WritablePairs
  <2>5. /\ c.op \in {"DIRECT", "DIRECT_PORT"}
        /\ c.value = "SAVED" => call.value = task.saved["DIRECTIONS"]
    BY <1>3 DEF Underway
  <2>6. HoldNow(Kept(c, known)) /\ call.stage \in EnableStages BY <1>3 DEF Ahead, EnableStages
  <2>7. Write("DIRECTIONS", 0, call.value, outcome) /\ Returns(outcome.ok)
    BY <2>1 DEF writePairTo
  <2>8. outcome.ok \in BOOLEAN BY <2>2
  <2>9. outcome.ok /\ c.op = "DIRECT" => Reached(0, outcome.accepted) = Pins BY <2>3
  <2> QED BY <1>1, <2>4, <2>5, <2>6, <2>7, <2>8, <2>9, EnableFacts
<1>4. CASE call.stage = "ENABLE_PORT"
  <2> DEFINE intended == withPort(ev.shadow["DIRECTIONS"], call.port, call.value)
  <2>1. PICK outcome \in WriteOutcome[2] :
          writePortTo("DIRECTIONS", call.port, call.value, intended, outcome) /\ Returns(outcome.ok)
    BY <1>4 DEF Finish
  <2>2. outcome.ok \in BOOLEAN BY WriteOutcomeFacts
  <2> HIDE DEF intended
  <2>3. RecordLeft(ev, ev')
    <3>1. ev' = writePort(ev, "DIRECTIONS", intended, outcome) BY <2>1 DEF writePortTo
    <3>2. ev' \in {invalidateShadowPair(ev, "DIRECTIONS"),
                   establishShadowPair(ev, "DIRECTIONS", intended), ev}
      BY <3>1, PortRecord
    <3> QED BY <1>2, <3>2, RecordMoves DEF WritablePairs
  <2>4. c.op = "DIRECT_PORT" /\ c.value = "ANY"
    BY <1>4, CallShape DEF Underway
  <2>5. HoldNow(Kept(c, known)) /\ call.stage \in EnableStages BY <1>4 DEF Ahead, EnableStages
  <2> QED BY <1>1, <2>1, <2>2, <2>3, <2>4, <2>5, EnableFacts DEF writePortTo
<1>5. CASE call.stage \in ParkStages
  <2>1. c.op \in {"INPUTS", "INPUT_PORT"} BY <1>5 DEF Underway
  <2>2. PICK outcome \in WriteOutcome[1] :
          parkPointer(outcome) /\ Returns(outcome.ok /\ call.stage # "PARK_NOTHING")
    BY <1>5 DEF Finish, ParkStages
  <2> DEFINE ok == outcome.ok /\ call.stage # "PARK_NOTHING"
  <2>3. ok \in BOOLEAN OBVIOUS
  <2>4. Returns(ok) BY <2>2, Zenon
  <2> HIDE DEF ok
  <2>5. chip'.regs = chip.regs /\ stale' = stale
    BY <2>2 DEF parkPointer, AcceptCommand, IInv, TypeOK, Chip
  <2>6. RecordLeft(ev, ev')
    <3>1. ev' \in {recordInputs(ev), syncInputs(ev), ev} BY <1>5 DEF Finish, ParkStages
    <3> QED BY <1>2, <3>1, ReadRecord DEF WritablePairs
  <2>7. HoldNow(known) BY <1>5 DEF Ahead, ParkStages, EnableStages
  <2>8. Kept(c, known) = known /\ Gained(c, known) = {} BY <2>1 DEF Kept, Gained
  <2>9. HoldNext(task, known) BY <2>5, <2>6, <2>7, StillTrue
  <2>10. HoldNext(task, Kept(c, known)) /\ HoldNext(task, Kept(c, known) \cup Gained(c, known))
    BY <2>8, <2>9
  <2>11. Harmless(task, c, known) BY <2>1 DEF Harmless, WritePair, Call
  <2> QED BY <1>1, <2>3, <2>4, <2>10, <2>11, ReturnsQuietly
<1> QED BY <1>3, <1>4, <1>5 DEF Finish, ParkStages

\* Nothing is claimed of the facts after a call of the recovery.
LEMMA RecoveryReturns ==
  ASSUME TaskTypeOK, NEW c, c.op \in RecoveryOps, NEW known, NEW ok \in BOOLEAN,
         Returns(ok), call'.stage = "IDLE"
  PROVE  Effect(c, known)
<1>1. Kept(c, known) = {} /\ Gained(c, known) = {} BY DEF RecoveryOps, Kept, Gained
<1>2. \A port \in Ports : PortFact[port] \notin {} OBVIOUS
<1>3. HoldNext(task, {}) BY <1>2 DEF HoldNext, FactsHold
<1>4. HoldNext(task, Kept(c, known)) /\ HoldNext(task, Kept(c, known) \cup Gained(c, known))
  BY <1>1, <1>3
<1>5. Harmless(task, c, known) BY DEF RecoveryOps, Harmless, WritePair, Call
<1> QED BY <1>4, <1>5, ReturnsQuietly

LEMMA RecoveryFacts ==
  ASSUME TaskTypeOK, NEW c, NEW known, HoldNow(known), RecoveryCall(c)
  PROVE  Effect(c, known)
<1>1. CASE startCall(c)
  <2>1. call' = Idle /\ \E ok \in BOOLEAN : Returns(ok) BY <1>1 DEF startCall, start, vars
  <2>2. c.op \in RecoveryOps BY <1>1 DEF startCall, RecoveryOps
  <2> QED BY <2>1, <2>2, RecoveryReturns, IdleStage
<1>2. CASE pollCall(c)
  <2>1. \/ call' = Polling(1) /\ task' = task
        \/ call' = Idle /\ Returns(TRUE)
    BY <1>2 DEF pollCall, vars
  <2>2. CASE call' = Polling(1) /\ task' = task
    <3>1. call'.stage = "POLLING" BY <2>2 DEF Polling, Idle
    <3>2. Underway(c)' BY <1>2, <3>1 DEF Underway, pollCall, EnableStages, ParkStages
    <3>3. call'.stage \notin EnableStages BY <3>1 DEF EnableStages
    <3>4. chip' = chip /\ stale' = stale /\ ev' = ev BY <1>2 DEF pollCall, vars
    <3>5. HoldNext(task, known) BY <3>4, StillTrue DEF RecordLeft
    <3> QED BY <2>2, <3>2, <3>3, <3>5 DEF Effect
  <2>3. CASE call' = Idle /\ Returns(TRUE)
    <3>1. c.op \in RecoveryOps BY <1>2 DEF pollCall, RecoveryOps
    <3> QED BY <2>3, <3>1, RecoveryReturns, IdleStage
  <2> QED BY <2>1, <2>2, <2>3
<1>3. CASE takeCall(c)
  <2> DEFINE succeeded == slot.outcome = "SUCCEEDED"
  <2>1. call' = Idle /\ (Returns(succeeded) \/ Returns(FALSE))
    BY <1>3, Zenon DEF takeCall, takeOperationResult, vars
  <2>2. succeeded \in BOOLEAN OBVIOUS
  <2>3. c.op \in RecoveryOps BY <1>3 DEF takeCall, RecoveryOps
  <2> HIDE DEF succeeded
  <2> QED BY <2>1, <2>2, <2>3, RecoveryReturns, IdleStage
<1> QED BY <1>1, <1>2, <1>3 DEF RecoveryCall

LEMMA TransferFacts ==
  ASSUME TaskTypeOK, CallOfTask, NEW c, NEW known, Underway(c), transferCall
  PROVE  Effect(c, known)
<1>1. call.stage = "POLLING" /\ call.left = 1 /\ Returns(TRUE)
  BY DEF transferCall, executeOperationTransfer, CallOfTask
<1>2. \E s : transferred(s)
  BY DEF transferCall, executeOperationTransfer, applyPair, verifyPair, readInputsTransfer,
         parkTransfer
<1>3. call' = Polling(call.left - 1) \/ call' = Idle BY <1>2 DEF transferred
<1>4. Polling(1 - 1) = Idle BY DEF Polling
<1>5. call'.stage = "IDLE" BY <1>1, <1>3, <1>4, IdleStage
<1>6. c.op \in RecoveryOps BY <1>1 DEF Underway, RecoveryOps
<1> QED BY <1>1, <1>5, <1>6, RecoveryReturns

\* Any call.
LEMMA CallFacts ==
  ASSUME IInv, TaskTypeOK, NEW c \in DriverCalls, NEW known, HoldNow(known),
         DriverCall(c) \/ RecoveryCall(c)
  PROVE  Effect(c, known)
<1>1. CASE Ready /\ probeCall(c) BY <1>1, ProbeFacts
<1>2. CASE Ready /\ readCall(c) BY <1>2, ReadFacts
<1>3. CASE Ready /\ saveCall(c) BY <1>3, SaveFacts
<1>4. CASE Ready /\ readPortCall(c) BY <1>4, ReadPortFacts
<1>5. CASE Ready /\ writeCall(c) BY <1>5, WriteFacts
<1>6. CASE Ready /\ writePortCall(c) BY <1>6, WritePortFacts
<1>7. CASE Ready /\ writeRawCall(c)
  BY <1>7, WriteRawFacts, WriteRawPortFacts DEF writeRawCall
<1>8. CASE Ready /\ inputCall(c) BY <1>8, InputFacts
<1>9. CASE Ready /\ directCall(c) BY <1>9, DirectFacts
<1>10. CASE Ready /\ directPortCall(c) BY <1>10, DirectPortFacts
<1>11. CASE call = Idle /\ refusedCall(c) BY <1>11, RefusedFacts
<1>12. CASE RecoveryCall(c) BY <1>12, RecoveryFacts
<1> QED BY <1>1, <1>2, <1>3, <1>4, <1>5, <1>6, <1>7, <1>8, <1>9, <1>10, <1>11, <1>12 DEF DriverCall

-----------------------------------------------------------------------------
(* What is known at each point of a command *)

\* What a restore routine knows when these phases of it are left.
RestoreKnown(todo) ==
  {fact \in {"DIRECTIONS", "LATCHES", "SHADOW"} :
     CASE fact = "DIRECTIONS" -> todo \cap {"DIRECTION", "FORCE"} = {}
       [] fact = "LATCHES" -> todo \cap {"LATCH", "FORCE"} = {}
       [] fact = "SHADOW" -> "DIRECTION" \in todo /\ "LATCH" \notin todo}

\* Of a command that saved the latches and the directions: what its outline says, and
\* of its restore routine what the phases left do not settle.
Claimed(t) ==
  CASE t.at > 0 /\ t.script \in SafeScripts -> Outline(Scripts[t.script])[t.at]
    [] t.at = 0 /\ {"OUTPUTS", "DIRECTIONS"} \subseteq t.kept /\ ~t.exposed -> RestoreKnown(t.todo)
    [] OTHER -> {}

\* What is claimed holds between two calls; during one, all that it cannot cost.
CallKnown ==
  \/ call.stage = "IDLE" /\ HoldNow(Claimed(task))
  \/ call.stage # "IDLE" /\ \E c \in Due : Underway(c) /\ HoldNow(Ahead(c, Claimed(task)))

\* A command keeps only what it saves.
KeptSaved == task.script # "NONE" => task.kept \subseteq Saves(TheScript)

\* Nothing claimed holds in any case.
LEMMA NothingClaimed ==
  ASSUME NEW t, NEW regs, NEW reset, NEW e
  PROVE  FactsHold(t, {}, regs, reset, e)
BY DEF FactsHold

\* Latches known port by port are known.
LEMMA LatchesKnownHold ==
  ASSUME NEW t, NEW known, NEW regs, NEW reset, NEW e,
         FactsHold(t, known, regs, reset, e), LatchesKnown(known)
  PROVE  FactsHold(t, {"LATCHES"}, regs, reset, e)
<1>1. ASSUME "OUTPUTS" \in t.kept, NEW pin \in Pins \ reset PROVE PinSafe(t, pin, regs)
  <2>1. CASE "LATCHES" \in known BY <1>1, <2>1 DEF FactsHold
  <2>2. CASE PortFacts \subseteq known
    <3>1. PICK port \in Ports : pin \in PinsOf(port) BY <1>1, PortAssumption DEF PinsOf
    <3>2. PortFact[port] \in known BY <2>2, <3>1 DEF PortFact, PortFacts
    <3> QED BY <1>1, <3>1, <3>2 DEF FactsHold
  <2> QED BY <2>1, <2>2 DEF LatchesKnown
<1>2. \A port \in Ports : PortFact[port] \notin {"LATCHES"} BY DEF PortFact
<1> QED BY <1>1, <1>2 DEF FactsHold

\* Facts known one by one are known together.
LEMMA FactsTogether ==
  ASSUME NEW t, NEW known, NEW other, NEW regs, NEW reset, NEW e,
         FactsHold(t, known, regs, reset, e), FactsHold(t, other, regs, reset, e)
  PROVE  FactsHold(t, known \cup other, regs, reset, e)
BY DEF FactsHold

\* A routine that may begin, may begin knowing this.
LEMMA RestoreBegins ==
  ASSUME NEW t, NEW known, NEW routine \in DOMAIN Routine,
         HoldNext(t, known), EndsSafely(routine, known)
  PROVE  HoldNext(t, RestoreKnown(Routine[routine]))
<1> DEFINE begin == RestoreKnown(Routine[routine])
<1>1. "SHADOW" \notin begin BY DEF RestoreKnown, Routine
<1>2. "DIRECTIONS" \in begin => "DIRECTIONS" \in known BY DEF RestoreKnown, EndsSafely
<1>3. "LATCHES" \in begin => LatchesKnown(known) BY DEF RestoreKnown, EndsSafely
<1>4. begin \subseteq {"DIRECTIONS", "LATCHES", "SHADOW"} BY DEF RestoreKnown
<1> HIDE DEF begin
<1>5. HoldNext(t, known \cap {"DIRECTIONS"}) BY FewerFacts DEF HoldNext
<1>6. LatchesKnown(known) => HoldNext(t, {"LATCHES"}) BY LatchesKnownHold DEF HoldNext
<1>7. LatchesKnown(known) => HoldNext(t, (known \cap {"DIRECTIONS"}) \cup {"LATCHES"})
  BY <1>5, <1>6, FactsTogether DEF HoldNext
<1>8. CASE "LATCHES" \in begin
  <2>1. begin \subseteq (known \cap {"DIRECTIONS"}) \cup {"LATCHES"} BY <1>1, <1>2, <1>4
  <2>2. HoldNext(t, (known \cap {"DIRECTIONS"}) \cup {"LATCHES"}) BY <1>3, <1>7, <1>8
  <2> QED BY <2>1, <2>2, FewerFacts DEF HoldNext, begin
<1>9. CASE "LATCHES" \notin begin
  <2>1. begin \subseteq known \cap {"DIRECTIONS"} BY <1>1, <1>2, <1>4, <1>9
  <2> QED BY <1>5, <2>1, FewerFacts DEF HoldNext, begin
<1> QED BY <1>8, <1>9

\* The fields that a restore routine begins with.
LEMMA RestoringFields ==
  ASSUME NEW t \in Tasks, NEW routine \in DOMAIN Routine
  PROVE  LET u == Restoring(t, routine)
             lost == routine = "LAST_RESORT" /\ t.saved["DIRECTIONS"] = Pins IN
         /\ u.at = 0 /\ u.script = t.script
         /\ u.saved = t.saved /\ u.kept = t.kept /\ u.byte = t.byte /\ u.failed = t.failed
         /\ lost => u.exposed
         /\ u.todo = IF lost \/ (routine = "LATCH" /\ t.saved["OUTPUTS"] = {}) THEN {}
                     ELSE Routine[routine]
<1> DEFINE lost == routine = "LAST_RESORT" /\ t.saved["DIRECTIONS"] = Pins
           todo == IF lost \/ (routine = "LATCH" /\ t.saved["OUTPUTS"] = {}) THEN {}
                   ELSE Routine[routine]
           exposed == t.exposed \/ lost
<1>1. Restoring(t, routine) = [t EXCEPT !.at = 0, !.todo = todo, !.exposed = exposed]
  BY Zenon DEF Restoring
<1>2. lost => exposed = TRUE OBVIOUS
<1> HIDE DEF lost, todo, exposed
<1> DEFINE u == [t EXCEPT !.at = 0, !.todo = todo, !.exposed = exposed]
<1>3. /\ u.at = 0 /\ u.script = t.script /\ u.todo = todo
      /\ u.saved = t.saved /\ u.kept = t.kept /\ u.byte = t.byte /\ u.failed = t.failed
  BY DEF Tasks
<1>4. u.exposed = exposed BY Zenon DEF Tasks
<1>5. lost => u.exposed BY <1>2, <1>4
<1> QED BY <1>1, <1>3, <1>5 DEF lost, todo

\* What is claimed when the routine begins holds if enough was known before.
LEMMA RestoringHolds ==
  ASSUME NEW t \in Tasks, NEW routine \in DOMAIN Routine, NEW known,
         HoldNext(t, known), EndsSafely(routine, known),
         routine = "LATCH" /\ t.saved["OUTPUTS"] = {} => HoldNext(t, {"DIRECTIONS", "LATCHES"})
  PROVE  HoldNext(Restoring(t, routine), Claimed(Restoring(t, routine)))
<1> DEFINE u == Restoring(t, routine)
           lost == routine = "LAST_RESORT" /\ t.saved["DIRECTIONS"] = Pins
<1>1. /\ u.at = 0 /\ u.saved = t.saved /\ u.kept = t.kept /\ u.byte = t.byte
      /\ lost => u.exposed
      /\ u.todo = IF lost \/ (routine = "LATCH" /\ t.saved["OUTPUTS"] = {}) THEN {}
                  ELSE Routine[routine]
  BY RestoringFields
<1> HIDE DEF u, lost
<1>2. Claimed(u) = {} \/ (Claimed(u) = RestoreKnown(u.todo) /\ ~u.exposed)
  BY <1>1 DEF Claimed
<1>3. CASE Claimed(u) = {} BY <1>3, NothingClaimed DEF HoldNext, u
<1>4. CASE Claimed(u) = RestoreKnown(u.todo) /\ ~lost
  <2>1. CASE routine = "LATCH" /\ t.saved["OUTPUTS"] = {}
    <3>1. u.todo = {} BY <1>1, <2>1
    <3>2. RestoreKnown({}) = {"DIRECTIONS", "LATCHES"} BY DEF RestoreKnown
    <3>3. HoldNext(t, Claimed(u)) BY <1>4, <2>1, <3>1, <3>2
    <3> QED BY <1>1, <3>3, FewerFacts DEF HoldNext, u
  <2>2. CASE ~(routine = "LATCH" /\ t.saved["OUTPUTS"] = {})
    <3>1. u.todo = Routine[routine] BY <1>1, <1>4, <2>2
    <3>2. HoldNext(t, Claimed(u)) BY <1>4, <3>1, RestoreBegins
    <3> QED BY <1>1, <3>2, FewerFacts DEF HoldNext, u
  <2> QED BY <2>1, <2>2
<1> QED BY <1>1, <1>2, <1>3, <1>4

\* Where a script goes on to, or how it ends.
LEMMA GoToHolds ==
  ASSUME TaskTypeOK, task.at > 0, task.script \in SafeScripts,
         NEW t \in Tasks, t.script = task.script, NEW next \in Nat, next > 0, NEW known,
         HoldNext(t, known), Leads(TheScript, next, known)
  PROVE  HoldNext(GoTo(t, next), Claimed(GoTo(t, next)))
<1>1. TheScript = Scripts[t.script] BY DEF TheScript
<1>2. CASE next <= Len(TheScript.steps)
  <2> DEFINE u == [t EXCEPT !.at = next]
  <2>1. GoTo(t, next) = u BY <1>1, <1>2 DEF GoTo
  <2>2. /\ u.at = next /\ u.script = t.script
        /\ u.saved = t.saved /\ u.kept = t.kept /\ u.byte = t.byte
    BY DEF Tasks
  <2> HIDE DEF u
  <2>3. Claimed(u) = Outline(TheScript)[next] BY <1>1, <2>2 DEF Claimed
  <2>4. Claimed(u) \subseteq known BY <1>2, <2>3 DEF Leads
  <2> QED BY <2>1, <2>2, <2>4, FewerFacts DEF HoldNext
<1>3. CASE ~(next <= Len(TheScript.steps))
  <2> DEFINE routine == TheScript.finally
  <2>1. GoTo(t, next) = Restoring(t, routine) BY <1>1, <1>3 DEF GoTo
  <2>2. routine \in DOMAIN Routine BY StepTyped
  <2>3. EndsSafely(routine, known) BY <1>3 DEF Leads
  <2>4. routine # "LATCH" BY StepTyped, FinallyAssumption DEF FinallyAssumption, TheScript
  <2> HIDE DEF routine
  <2> QED BY <2>1, <2>2, <2>3, <2>4, RestoringHolds
<1> QED BY <1>2, <1>3

\* A program that goes on has what it noted.
LEMMA StepFields ==
  ASSUME TaskTypeOK, task.at > 0, NEW t \in Tasks, Same(t), NEW ok \in BOOLEAN, ReturnsNoting(t, ok)
  PROVE  \E u \in Tasks :
           /\ u.script = task.script /\ u.saved = t.saved /\ u.kept = t.kept /\ u.byte = t.byte
           /\ ~ok => u.failed
           /\ \/ ~ok /\ TheStep.stop /\ task' = Restoring(u, TheStep.restore)
              \/ /\ ok \/ ~TheStep.stop
                 /\ \E next \in Onward(TheScript, task.at, IF ok THEN 1 ELSE TheStep.skip + 1) :
                      next \in Nat /\ next > 0 /\ task' = GoTo(u, next)
<1>1. task' \in AfterStep(t, ok) BY DEF ReturnsNoting
<1>2. TheStep.restore \in DOMAIN Routine /\ TheStep.skip \in Nat BY StepTyped DEF StepType
<1>3. CASE ~ok /\ TheStep.stop
  <2> DEFINE u == [t EXCEPT !.failed = TRUE]
  <2>1. /\ u \in Tasks /\ u.script = task.script
        /\ u.saved = t.saved /\ u.kept = t.kept /\ u.byte = t.byte
    BY DEF Tasks, Same
  <2>2. task' = Restoring(u, TheStep.restore) BY <1>1, <1>3 DEF AfterStep
  <2>3. u.failed BY DEF Tasks
  <2> HIDE DEF u
  <2> QED BY <1>3, <2>1, <2>2, <2>3
<1>4. CASE ~(~ok /\ TheStep.stop)
  <2> DEFINE u == [t EXCEPT !.failed = @ \/ ~ok]
             failed == t.failed \/ ~ok
  <2>1. failed \in BOOLEAN /\ (~ok => failed = TRUE) OBVIOUS
  <2>2. u = [t EXCEPT !.failed = failed] BY Zenon
  <2>3. PICK next \in Onward(TheScript, task.at, IF ok THEN 1 ELSE TheStep.skip + 1) :
          task' = GoTo(u, next)
    BY <1>1, <1>4, Zenon DEF AfterStep
  <2>4. (IF ok THEN 1 ELSE TheStep.skip + 1) \in Nat BY <1>2
  <2>5. next \in Nat /\ next > 0 BY <2>3, <2>4, OnwardTyped
  <2> HIDE DEF u, failed
  <2>6. /\ u \in Tasks /\ u.script = task.script
        /\ u.saved = t.saved /\ u.kept = t.kept /\ u.byte = t.byte
    BY <2>1, <2>2 DEF Tasks, Same
  <2>7. u.failed = failed BY <2>2, Zenon DEF Tasks
  <2>8. ~ok => u.failed BY <2>1, <2>7
  <2> QED BY <1>4, <2>3, <2>5, <2>6, <2>8
<1> QED BY <1>3, <1>4

\* When a call of a script returns, the command keeps only what it saves,
LEMMA StepKeeps ==
  ASSUME TaskTypeOK, task.at > 0, KeptSaved, NEW c \in Due, NEW t \in Tasks, NEW ok \in BOOLEAN,
         Noted(t, c), ReturnsNoting(t, ok)
  PROVE  /\ task'.script = task.script /\ task'.kept \subseteq Saves(TheScript)
         /\ KeptSaved'
<1>1. PICK u \in Tasks :
        /\ u.script = task.script /\ u.kept = t.kept
        /\ \/ task' = Restoring(u, TheStep.restore)
           \/ \E next : task' = GoTo(u, next)
  <2>1. Same(t) BY DEF Noted
  <2> QED BY <2>1, StepFields
<1>2. TheStep.restore \in DOMAIN Routine /\ TheScript.finally \in DOMAIN Routine
  BY StepTyped DEF StepType
<1>3. task'.script = u.script /\ task'.kept = u.kept
  <2>1. CASE task' = Restoring(u, TheStep.restore) BY <1>2, <2>1, RestoringFields
  <2>2. CASE \E next : task' = GoTo(u, next)
    <3>1. PICK next : task' = GoTo(u, next) BY <2>2
    <3>2. CASE next <= Len(Scripts[u.script].steps)
      BY <3>1, <3>2 DEF GoTo, Tasks
    <3>3. CASE ~(next <= Len(Scripts[u.script].steps))
      <4>1. task' = Restoring(u, TheScript.finally) BY <1>1, <3>1, <3>3 DEF GoTo, TheScript
      <4> QED BY <1>2, <4>1, RestoringFields
    <3> QED BY <3>2, <3>3
  <2> QED BY <1>1, <2>1, <2>2
<1>4. t.kept \subseteq Saves(TheScript)
  <2>1. task.kept \subseteq Saves(TheScript) BY StepTyped DEF KeptSaved
  <2>2. ASSUME NEW pair \in WritablePairs, c = Save(pair) PROVE pair \in Saves(TheScript)
    <3>1. c \in TheScript.steps[task.at].calls BY DEF Due, TheStep
    <3>2. task.at \in DOMAIN TheScript.steps BY StepTyped
    <3> QED BY <2>2, <3>1, <3>2 DEF Saves
  <2> QED BY <2>1, <2>2 DEF Noted
<1>5. task'.script = task.script /\ task'.kept \subseteq Saves(TheScript) BY <1>1, <1>3, <1>4
<1> QED BY <1>5 DEF KeptSaved, TheScript

\* and what it claims next holds.
LEMMA StepHolds ==
  ASSUME TaskTypeOK, task.at > 0, KeptSaved, NEW c \in Due, NEW t \in Tasks, NEW ok \in BOOLEAN,
         Noted(t, c), ReturnsNoting(t, ok),
         HoldNext(t, After(c, ok, Claimed(task))), Harmless(t, c, Claimed(task))
  PROVE  HoldNext(task', Claimed(task'))
<1>1. task'.script = task.script /\ task'.kept \subseteq Saves(TheScript) BY StepKeeps
<1>2. CASE task.script \notin SafeScripts
  <2>1. task.script \in DOMAIN Scripts BY StepTyped
  <2>2. ~({"OUTPUTS", "DIRECTIONS"} \subseteq task'.kept)
    BY <1>1, <1>2, <2>1 DEF SafeScripts, TheScript
  <2>3. Claimed(task') = {} BY <1>1, <1>2, <2>2 DEF Claimed
  <2> QED BY <2>3, NothingClaimed DEF HoldNext
<1>3. CASE task.script \in SafeScripts
  <2> DEFINE known == Outline(TheScript)[task.at]
             left == After(c, ok, known)
  <2>1. Claimed(task) = known BY <1>3 DEF Claimed, TheScript
  <2>2. HoldNext(t, left) /\ Harmless(t, c, known) BY <2>1
  <2>3. PICK u \in Tasks :
          /\ u.script = task.script /\ u.saved = t.saved /\ u.kept = t.kept /\ u.byte = t.byte
          /\ \/ ~ok /\ TheStep.stop /\ task' = Restoring(u, TheStep.restore)
             \/ /\ ok \/ ~TheStep.stop
                /\ \E next \in Onward(TheScript, task.at, IF ok THEN 1 ELSE TheStep.skip + 1) :
                     next \in Nat /\ next > 0 /\ task' = GoTo(u, next)
    <3>1. Same(t) BY DEF Noted
    <3> QED BY <3>1, StepFields
  <2>4. HoldNext(u, left) BY <2>2, <2>3, FewerFacts DEF HoldNext
  <2>5. /\ \A next \in Onward(TheScript, task.at, 1) : Leads(TheScript, next, After(c, TRUE, known))
        /\ IF TheStep.stop
           THEN /\ EndsSafely(TheStep.restore, After(c, FALSE, known))
                /\ TheStep.restore = "LATCH" => PreloadOnly(c, known)
           ELSE \A next \in Onward(TheScript, task.at, TheStep.skip + 1) :
                  Leads(TheScript, next, After(c, FALSE, known))
    <3>1. OutlineHolds(TheScript) BY <1>3, OutlineAssumption DEF OutlineAssumption, TheScript
    <3>2. task.at \in DOMAIN TheScript.steps /\ c \in TheScript.steps[task.at].calls
      BY StepTyped DEF Due, TheStep
    <3> QED BY <3>1, <3>2 DEF OutlineHolds, TheStep
  <2>6. CASE ~ok /\ TheStep.stop /\ task' = Restoring(u, TheStep.restore)
    <3> DEFINE routine == TheStep.restore
    <3>1. routine \in DOMAIN Routine BY StepTyped DEF StepType
    <3>2. left = After(c, FALSE, known) BY <2>6
    <3>3. EndsSafely(routine, left) BY <2>5, <2>6, <3>2
    <3>4. routine = "LATCH" /\ u.saved["OUTPUTS"] = {} => HoldNext(u, {"DIRECTIONS", "LATCHES"})
      <4>1. SUFFICES ASSUME routine = "LATCH", u.saved["OUTPUTS"] = {}
                     PROVE  HoldNext(u, {"DIRECTIONS", "LATCHES"})
        OBVIOUS
      <4>2. c = WritePair("OUTPUTS", "LOW") /\ LatchesKnown(known)
        BY <2>5, <2>6, <4>1 DEF PreloadOnly
      <4>3. task.saved["OUTPUTS"] = {}
        BY <2>3, <4>1, <4>2 DEF Noted, WritePair, Call
      <4>4. HoldNext(t, known) BY <2>2, <4>2, <4>3 DEF Harmless
      <4>5. HoldNext(u, known) BY <2>3, <4>4, FewerFacts DEF HoldNext
      <4>6. HoldNext(u, {"LATCHES"}) BY <4>2, <4>5, LatchesKnownHold DEF HoldNext
      <4>7. "DIRECTIONS" \in left BY <3>3, <4>1 DEF EndsSafely, Routine
      <4>8. HoldNext(u, {"DIRECTIONS"}) BY <2>4, <4>7, FewerFacts DEF HoldNext
      <4>9. HoldNext(u, {"DIRECTIONS"} \cup {"LATCHES"}) BY <4>6, <4>8, FactsTogether DEF HoldNext
      <4>10. {"DIRECTIONS"} \cup {"LATCHES"} = {"DIRECTIONS", "LATCHES"} OBVIOUS
      <4> QED BY <4>9, <4>10
    <3>5. task' = Restoring(u, routine) BY <2>6
    <3> HIDE DEF routine, left
    <3> QED BY <2>4, <3>1, <3>3, <3>4, <3>5, RestoringHolds
  <2>7. CASE /\ ok \/ ~TheStep.stop
             /\ \E next \in Onward(TheScript, task.at, IF ok THEN 1 ELSE TheStep.skip + 1) :
                  next \in Nat /\ next > 0 /\ task' = GoTo(u, next)
    <3>1. PICK next \in Onward(TheScript, task.at, IF ok THEN 1 ELSE TheStep.skip + 1) :
            next \in Nat /\ next > 0 /\ task' = GoTo(u, next)
      BY <2>7
    <3>2. Leads(TheScript, next, left)
      <4>1. CASE ok = TRUE BY <2>5, <3>1, <4>1
      <4>2. CASE ok = FALSE BY <2>5, <2>7, <3>1, <4>2
      <4> QED BY <4>1, <4>2
    <3> HIDE DEF left
    <3> QED BY <1>3, <2>3, <2>4, <3>1, <3>2, GoToHolds
  <2> QED BY <2>3, <2>6, <2>7
<1> QED BY <1>2, <1>3

-----------------------------------------------------------------------------
(* The restore routines *)

\* What a phase of a routine leaves of the command.
LEMMA PhaseFields ==
  ASSUME task.at = 0, NEW t \in Tasks, Same(t), NEW ok \in BOOLEAN, ReturnsNoting(t, ok)
  PROVE  LET phase == FirstOf(task.todo)
             rest == task.todo \ {phase}
             forced == phase = "FORCE" \/ (phase = "DIRECTION" /\ t.saved["DIRECTIONS"] = Pins) IN
         /\ task'.at = 0 /\ task'.script = task.script
         /\ task'.saved = t.saved /\ task'.kept = t.kept /\ task'.byte = t.byte
         /\ ok => task'.todo = rest /\ task'.exposed = t.exposed /\ task'.failed = t.failed
         /\ ~ok => /\ task'.todo = RestoreAfter(phase, rest, t.saved["DIRECTIONS"])
                   /\ task'.failed
                   /\ t.exposed \/ forced => task'.exposed
<1> DEFINE phase == FirstOf(task.todo)
           rest == task.todo \ {phase}
           forced == phase = "FORCE" \/ (phase = "DIRECTION" /\ t.saved["DIRECTIONS"] = Pins)
           after == RestoreAfter(phase, rest, t.saved["DIRECTIONS"])
           bared == t.exposed \/ forced
<1>1. task' = AfterPhase(t, ok) /\ t.todo = task.todo /\ t.script = task.script /\ t.at = 0
  BY DEF ReturnsNoting, Same
<1>2. CASE ok
  <2>1. task' = [t EXCEPT !.todo = rest] BY <1>1, <1>2, Zenon DEF AfterPhase
  <2> HIDE DEF rest, forced
  <2>2. /\ task'.at = 0 /\ task'.script = task.script /\ task'.todo = rest
        /\ task'.saved = t.saved /\ task'.kept = t.kept /\ task'.byte = t.byte
    BY <1>1, <2>1 DEF Tasks
  <2>3. task'.exposed = t.exposed /\ task'.failed = t.failed BY <2>1, Zenon DEF Tasks
  <2> QED BY <1>2, <2>2, <2>3 DEF rest
<1>3. CASE ~ok
  <2>1. task' = [t EXCEPT !.todo = after, !.failed = TRUE, !.exposed = t.exposed \/ forced]
    BY <1>1, <1>3, Zenon DEF AfterPhase
  <2>2. task' = [t EXCEPT !.todo = after, !.failed = TRUE, !.exposed = bared] BY <2>1
  <2>3. bared \in BOOLEAN /\ (t.exposed \/ forced => bared = TRUE) OBVIOUS
  <2> HIDE DEF bared, after, forced
  <2>4. /\ task'.at = 0 /\ task'.script = task.script /\ task'.todo = after
        /\ task'.saved = t.saved /\ task'.kept = t.kept /\ task'.byte = t.byte
    BY <1>1, <2>2 DEF Tasks
  <2>5. task'.exposed = bared /\ task'.failed = TRUE BY <2>2, Zenon DEF Tasks
  <2>6. t.exposed \/ forced => task'.exposed BY <2>3, <2>5
  <2> QED BY <1>3, <2>4, <2>5, <2>6 DEF after, forced
<1> QED BY <1>2, <1>3

\* The calls that the phases make.
LEMMA PhaseCalls ==
  ASSUME NEW phase \in Phases, NEW c, c = RestoreCall[phase]
  PROVE  /\ phase \in {"LATCH", "POLARITY"} =>
              /\ c.op = "WRITE" /\ c.value = "SAVED"
              /\ c.pair = IF phase = "LATCH" THEN "OUTPUTS" ELSE "POLARITY"
         /\ phase \in {"DIRECTION", "FORCE"} =>
              /\ c.op = "DIRECT" /\ c.pair = "DIRECTIONS"
              /\ c.value = IF phase = "DIRECTION" THEN "SAVED" ELSE "HIGH"
BY DEF Phases, RestoreCall, WritePair, SetDirections, Call

\* A phase leaves what is known of those that follow it.
LEMMA PhaseLeads ==
  ASSUME NEW todo \in SUBSET Phases, NEW phase, phase = FirstOf(todo), phase # "FORCE",
         NEW c, c = RestoreCall[phase]
  PROVE  LET known == RestoreKnown(todo) IN
         /\ RestoreKnown(todo \ {phase}) \subseteq Kept(c, known) \cup Gained(c, known)
         /\ \A saved : phase # "DIRECTION" \/ saved # Pins =>
              RestoreKnown(RestoreAfter(phase, todo \ {phase}, saved)) \subseteq Kept(c, known)
<1> DEFINE known == RestoreKnown(todo)
<1>1. phase \in todo /\ phase \in Phases BY DEF FirstOf, Phases
<1>2. CASE phase = "LATCH"
  <2>1. c.op = "WRITE" /\ c.value = "SAVED" /\ c.pair = "OUTPUTS" BY <1>1, <1>2, PhaseCalls
  <2>2. Kept(c, known) = known /\ Gained(c, known) = LatchesAll
    BY <2>1 DEF Kept, Gained, LatchesAll
  <2>3. RestoreKnown(todo \ {phase}) \subseteq known \cup LatchesAll
    BY <1>2 DEF RestoreKnown, LatchesAll
  <2>4. \A saved : RestoreKnown(RestoreAfter(phase, todo \ {phase}, saved)) = {}
    BY <1>2 DEF RestoreAfter, RestoreKnown
  <2> QED BY <2>2, <2>3, <2>4
<1>3. CASE phase = "POLARITY"
  <2>1. c.op = "WRITE" /\ c.pair = "POLARITY" BY <1>1, <1>3, PhaseCalls
  <2>2. Kept(c, known) = known BY <2>1 DEF Kept
  <2>3. RestoreKnown(todo \ {phase}) = known BY <1>3 DEF RestoreKnown
  <2>4. \A saved : RestoreAfter(phase, todo \ {phase}, saved) = todo \ {phase}
    BY <1>3 DEF RestoreAfter
  <2> HIDE DEF known
  <2> QED BY <2>2, <2>3, <2>4 DEF known
<1>4. CASE phase = "DIRECTION"
  <2>1. c.op = "DIRECT" /\ c.value = "SAVED" BY <1>1, <1>4, PhaseCalls
  <2>2. "LATCH" \notin todo BY <1>4 DEF FirstOf
  <2>3. "SHADOW" \in known BY <1>1, <1>4, <2>2 DEF RestoreKnown
  <2>4. Gained(c, known) = {"DIRECTIONS"} BY <2>1 DEF Gained
  <2>5. known \cap {"SHADOW", "LATCHES"} \subseteq Kept(c, known) BY <2>1, <2>3 DEF Kept
  <2>6. RestoreKnown(todo \ {phase}) \subseteq {"DIRECTIONS"} \cup (known \cap {"LATCHES"})
    BY <1>4, <2>2 DEF RestoreKnown
  <2>7. \A saved : saved # Pins => RestoreKnown(RestoreAfter(phase, todo \ {phase}, saved)) = {}
    BY <1>4 DEF RestoreAfter, RestoreKnown
  <2> HIDE DEF known
  <2> QED BY <1>4, <2>4, <2>5, <2>6, <2>7 DEF known
<1> QED BY <1>1, <1>2, <1>3, <1>4 DEF Phases

\* When a call of a phase returns, what is claimed of the rest holds.
LEMMA PhaseHolds ==
  ASSUME TaskTypeOK, task.at = 0, FirstOf(task.todo) # "FORCE",
         NEW c, c = RestoreCall[FirstOf(task.todo)], NEW t \in Tasks, NEW ok \in BOOLEAN,
         Noted(t, c), ReturnsNoting(t, ok), HoldNext(t, After(c, ok, Claimed(task)))
  PROVE  HoldNext(task', Claimed(task'))
<1> DEFINE phase == FirstOf(task.todo)
           rest == task.todo \ {phase}
           known == RestoreKnown(task.todo)
           next == Claimed(task')
<1>1. phase \in Phases /\ task.todo \in SUBSET Phases
  BY RestoreCalls DEF TaskTypeOK, Tasks
<1>2. c.op # "SAVE" BY <1>1, PhaseCalls DEF Phases
<1>3. /\ Same(t) /\ t.exposed = task.exposed /\ t.saved = task.saved /\ t.kept \subseteq task.kept
  <2>1. \A pair : c # Save(pair) BY <1>2 DEF Save, Call
  <2> QED BY <1>2, <2>1 DEF Noted
<1>4. /\ task'.at = 0 /\ task'.saved = t.saved /\ task'.kept = t.kept /\ task'.byte = t.byte
      /\ ok => task'.todo = rest /\ task'.exposed = t.exposed
      /\ ~ok => /\ task'.todo = RestoreAfter(phase, rest, t.saved["DIRECTIONS"])
                /\ t.exposed \/ (phase = "DIRECTION" /\ t.saved["DIRECTIONS"] = Pins) =>
                     task'.exposed
  BY <1>3, PhaseFields
<1>5. CASE ~({"OUTPUTS", "DIRECTIONS"} \subseteq task'.kept) \/ task'.exposed
  <2>1. next = {} BY <1>4, <1>5 DEF Claimed
  <2> QED BY <2>1, NothingClaimed DEF HoldNext
<1>6. CASE {"OUTPUTS", "DIRECTIONS"} \subseteq task'.kept /\ ~task'.exposed
  <2>1. next = RestoreKnown(task'.todo) BY <1>4, <1>6 DEF Claimed
  <2>2. ~task.exposed /\ {"OUTPUTS", "DIRECTIONS"} \subseteq task.kept
    BY <1>3, <1>4, <1>6
  <2>3. Claimed(task) = known BY <2>2 DEF Claimed
  <2>4. /\ RestoreKnown(rest) \subseteq Kept(c, known) \cup Gained(c, known)
        /\ \A saved : phase # "DIRECTION" \/ saved # Pins =>
             RestoreKnown(RestoreAfter(phase, rest, saved)) \subseteq Kept(c, known)
    BY <1>1, PhaseLeads
  <2>5. CASE ok = TRUE
    <3>1. HoldNext(t, Kept(c, known) \cup Gained(c, known)) BY <2>3, <2>5 DEF After
    <3>2. next \subseteq Kept(c, known) \cup Gained(c, known) BY <1>4, <2>1, <2>4, <2>5
    <3> HIDE DEF next, known
    <3> QED BY <1>4, <3>1, <3>2, FewerFacts DEF HoldNext, next
  <2>6. CASE ok = FALSE
    <3>1. HoldNext(t, Kept(c, known)) BY <2>3, <2>6 DEF After
    <3>2. phase # "DIRECTION" \/ t.saved["DIRECTIONS"] # Pins BY <1>4, <1>6, <2>6
    <3>3. next \subseteq Kept(c, known) BY <1>4, <2>1, <2>4, <2>6, <3>2
    <3> HIDE DEF next, known
    <3> QED BY <1>4, <3>1, <3>3, FewerFacts DEF HoldNext, next
  <2> QED BY <2>5, <2>6
<1> QED BY <1>5, <1>6

\* All inputs: nothing more is needed.
LEMMA InputsHold ==
  ASSUME NEW t \in Tasks, NEW regs, Pins \subseteq regs["DIRECTIONS"], NEW reset, NEW e
  PROVE  FactsHold(t, {"DIRECTIONS", "LATCHES"}, regs, reset, e)
<1>1. t.saved["DIRECTIONS"] \subseteq Pins BY DEF Tasks, Images, WritablePairs, Values
<1>2. \A port \in Ports : PortFact[port] \notin {"DIRECTIONS", "LATCHES"} BY DEF PortFact
<1> QED BY <1>1, <1>2 DEF FactsHold, PinSafe

\* The last resort makes every pin an input, or leaves the command exposed.
LEMMA ForceHolds ==
  ASSUME IInv, TaskTypeOK, task.at = 0, FirstOf(task.todo) = "FORCE",
         NEW c, c = RestoreCall["FORCE"], DriverCall(c) \/ RecoveryCall(c)
  PROVE  /\ call'.stage = "IDLE" /\ HoldNext(task', Claimed(task'))
         /\ task'.script = task.script /\ task'.kept = task.kept
<1>1. c.op = "DIRECT" /\ c.pair = "DIRECTIONS" /\ c.value = "HIGH"
  BY PhaseCalls DEF Phases
<1>2. task \in Tasks /\ Same(task) /\ task.todo \subseteq Phases BY DEF TaskTypeOK, Same, Tasks
<1>3. ASSUME NEW ok \in BOOLEAN, Returns(ok)
      PROVE  /\ task'.at = 0 /\ task'.script = task.script /\ task'.kept = task.kept
             /\ task'.saved = task.saved /\ task'.byte = task.byte
             /\ ok => task'.todo = task.todo \ {"FORCE"}
             /\ ~ok => task'.exposed
  BY <1>2, <1>3, PhaseFields DEF Returns
<1>4. ASSUME Returns(FALSE) PROVE Claimed(task') = {}
  <2>1. FALSE \in BOOLEAN OBVIOUS
  <2>2. task'.at = 0 /\ task'.exposed BY <1>3, <1>4, <2>1
  <2> QED BY <2>2 DEF Claimed
<1>5. CASE call = Idle /\ refusedCall(c)
  <2>1. Returns(FALSE) /\ call' = Idle BY <1>5 DEF refusedCall, vars
  <2> QED BY <1>3, <1>4, <2>1, NothingClaimed, IdleStage DEF HoldNext
<1>6. CASE Ready /\ directCall(c)
  <2>1. Meant("DIRECTIONS", c.value) = {Pins} BY <1>1 DEF Meant
  <2>2. PICK outcome \in WriteOutcome[3] :
          writePairTo("DIRECTIONS", Pins, outcome) /\ Answered(outcome.ok)
    BY <1>6, <2>1 DEF directCall
  <2>3. outcome.ok \in BOOLEAN /\ (outcome.ok => outcome.accepted = 3) BY WriteOutcomeFacts
  <2>4. call'.stage = "IDLE" /\ Returns(outcome.ok)
    BY <1>6, <2>2, IdleStage DEF Answered, Ready
  <2>5. CASE outcome.ok
    <3>1. Reached(0, outcome.accepted) = Pins
      BY <2>3, <2>5, PortAssumption DEF Reached, PinsOf, Ports
    <3>2. chip'.regs["DIRECTIONS"] = Overlay(chip.regs["DIRECTIONS"], Pins, Pins)
      BY <2>2, <3>1, WriteMoves DEF writePairTo, WritablePairs
    <3>3. Pins \subseteq chip'.regs["DIRECTIONS"] BY <3>2 DEF Overlay
    <3>4. task.todo \ {"FORCE"} = {} BY <1>2 DEF FirstOf, Phases
    <3>5. task'.todo = {} /\ task'.at = 0 BY <1>3, <2>4, <2>5, <3>4
    <3>6. RestoreKnown({}) = {"DIRECTIONS", "LATCHES"} BY DEF RestoreKnown
    <3>7. Claimed(task') \in {{}, {"DIRECTIONS", "LATCHES"}} BY <3>5, <3>6 DEF Claimed
    <3>8. HoldNext(task, {"DIRECTIONS", "LATCHES"}) BY <1>2, <3>3, InputsHold DEF HoldNext
    <3>9. HoldNext(task', Claimed(task'))
      BY <1>3, <2>3, <2>4, <3>7, <3>8, FewerFacts DEF HoldNext
    <3> QED BY <1>3, <2>3, <2>4, <3>9
  <2>6. CASE outcome.ok = FALSE
    <3>1. Returns(FALSE) BY <2>4, <2>6
    <3>2. Claimed(task') = {} BY <1>4, <3>1
    <3>3. FALSE \in BOOLEAN OBVIOUS
    <3>4. task'.script = task.script /\ task'.kept = task.kept BY <1>3, <3>1, <3>3
    <3>5. HoldNext(task', Claimed(task')) BY <3>2, NothingClaimed DEF HoldNext
    <3> QED BY <2>4, <3>4, <3>5
  <2> QED BY <2>3, <2>5, <2>6
<1>7. ~RecoveryCall(c)
  BY <1>1 DEF RecoveryCall, startCall, pollCall, takeCall
<1>8. ~(probeCall(c) \/ readCall(c) \/ saveCall(c) \/ readPortCall(c) \/ writeCall(c))
  BY <1>1 DEF probeCall, readCall, saveCall, readPortCall, writeCall
<1>9. ~(writePortCall(c) \/ writeRawCall(c) \/ inputCall(c) \/ directPortCall(c))
  BY <1>1 DEF writePortCall, writeRawCall, inputCall, directPortCall
<1> QED BY <1>5, <1>6, <1>7, <1>8, <1>9 DEF DriverCall

\* A call in progress, or between two.
LEMMA EffectHolds ==
  ASSUME TaskInv, KeptSaved, NEW c \in Due, Effect(c, Claimed(task)),
         task.at = 0 => FirstOf(task.todo) # "FORCE"
  PROVE  CallKnown' /\ KeptSaved'
<1>1. task.at \in Nat /\ TaskTypeOK BY DEF TaskInv, TaskTypeOK, Tasks
<1>2. CASE /\ task' = task /\ Underway(c)'
           /\ HoldNext(task, IF call'.stage \in EnableStages THEN Kept(c, Claimed(task))
                             ELSE Claimed(task))
  <2>1. KeptSaved' BY <1>2 DEF KeptSaved, TheScript
  <2>2. c \in Due' BY <1>2 DEF Due, TheStep, TheScript
  <2>3. call'.stage # "IDLE" BY <1>2 DEF Underway, EnableStages, ParkStages
  <2>4. Claimed(task') = Claimed(task) BY <1>2
  <2>5. HoldNow(Ahead(c, Claimed(task)))' BY <1>2, <2>4 DEF HoldNext, HoldNow, Ahead
  <2> QED BY <1>2, <2>1, <2>2, <2>3, <2>5 DEF CallKnown
<1>3. CASE /\ call'.stage = "IDLE"
           /\ \E t \in Tasks, ok \in BOOLEAN :
                /\ Noted(t, c) /\ ReturnsNoting(t, ok)
                /\ HoldNext(t, After(c, ok, Claimed(task))) /\ Harmless(t, c, Claimed(task))
  <2>1. PICK t \in Tasks, ok \in BOOLEAN :
          /\ Noted(t, c) /\ ReturnsNoting(t, ok)
          /\ HoldNext(t, After(c, ok, Claimed(task))) /\ Harmless(t, c, Claimed(task))
    BY <1>3
  <2>2. CASE task.at > 0
    <3>1. KeptSaved' BY <1>1, <2>1, <2>2, StepKeeps
    <3>2. HoldNext(task', Claimed(task')) BY <1>1, <2>1, <2>2, StepHolds
    <3> QED BY <1>3, <3>1, <3>2 DEF CallKnown, HoldNext, HoldNow
  <2>3. CASE task.at = 0
    <3>1. c = RestoreCall[FirstOf(task.todo)] BY <2>3 DEF Due
    <3>2. HoldNext(task', Claimed(task')) BY <1>1, <2>1, <2>3, <3>1, PhaseHolds
    <3>3. Same(t) BY <2>1 DEF Noted
    <3>4. task'.script = task.script /\ task'.kept = t.kept BY <2>1, <2>3, <3>3, PhaseFields
    <3>5. t.kept \subseteq task.kept
      <4>1. FirstOf(task.todo) \in Phases BY RestoreCalls
      <4>2. c.op # "SAVE" BY <3>1, <4>1, PhaseCalls DEF Phases
      <4>3. \A pair : c # Save(pair) BY <4>2 DEF Save, Call
      <4> QED BY <2>1, <4>3 DEF Noted
    <3>6. KeptSaved' BY <3>4, <3>5 DEF KeptSaved, TheScript
    <3> QED BY <1>3, <3>2, <3>6 DEF CallKnown, HoldNext, HoldNow
  <2> QED BY <1>1, <2>2, <2>3
<1> QED BY <1>2, <1>3 DEF Effect

\* The last resort.
LEMMA LastResortHolds ==
  ASSUME IInv, TaskInv, KeptSaved, task.at = 0, FirstOf(task.todo) = "FORCE",
         NEW c \in Due, DriverCall(c) \/ RecoveryCall(c)
  PROVE  CallKnown' /\ KeptSaved'
<1>1. c = RestoreCall["FORCE"] BY DEF Due
<1>2. /\ call'.stage = "IDLE" /\ HoldNext(task', Claimed(task'))
      /\ task'.script = task.script /\ task'.kept = task.kept
  BY <1>1, ForceHolds DEF TaskInv
<1>3. KeptSaved' BY <1>2 DEF KeptSaved, TheScript
<1> QED BY <1>2, <1>3 DEF CallKnown, HoldNext, HoldNow

\* A call begins between two others.
LEMMA CallsBegin ==
  ASSUME NEW c, DriverCall(c) \/ RecoveryCall(c)
  PROVE  call.stage = "IDLE"
<1>1. call = Idle
  BY DEF DriverCall, Ready, RecoveryCall, startCall, start, pollCall, takeCall, takeOperationResult
<1> QED BY <1>1, IdleStage

\* A program at work makes one of the calls that are due, and it comes to what its
\* entry in the tables says.
LEMMA WorkEffect ==
  ASSUME IInv, TaskInv, CallKnown, Work
  PROVE  \E c \in Due :
           /\ Effect(c, Claimed(task))
           /\ DriverCall(c) \/ RecoveryCall(c) \/ call.stage # "IDLE"
<1>1. TaskTypeOK /\ CallOfTask BY DEF TaskInv
<1>2. CASE \E c \in Due : DriverCall(c) \/ RecoveryCall(c)
  <2>1. PICK c \in Due : DriverCall(c) \/ RecoveryCall(c) BY <1>2
  <2>2. c \in DriverCalls BY <1>1, <2>1, DueCalls
  <2>3. HoldNow(Claimed(task)) BY <2>1, CallsBegin DEF CallKnown
  <2>4. Effect(c, Claimed(task)) BY <1>1, <2>1, <2>2, <2>3, CallFacts
  <2> QED BY <2>1, <2>4
<1>3. CASE Finish \/ transferCall
  <2>1. call.stage # "IDLE"
    BY <1>3 DEF Finish, transferCall, executeOperationTransfer
  <2>2. PICK c \in Due : Underway(c) /\ HoldNow(Ahead(c, Claimed(task)))
    BY <2>1 DEF CallKnown
  <2>3. c \in DriverCalls BY <1>1, <2>2, DueCalls
  <2>4. Effect(c, Claimed(task)) BY <1>1, <1>3, <2>2, <2>3, FinishFacts, TransferFacts
  <2> QED BY <2>1, <2>2, <2>4
<1> QED BY <1>2, <1>3 DEF Work

\* What a program knows stays true as it works,
LEMMA WorkHolds ==
  ASSUME IInv, TaskInv, CallKnown, KeptSaved, Work
  PROVE  CallKnown' /\ KeptSaved'
<1>1. PICK c \in Due :
        /\ Effect(c, Claimed(task))
        /\ DriverCall(c) \/ RecoveryCall(c) \/ call.stage # "IDLE"
  BY WorkEffect
<1>2. CASE task.at = 0 /\ FirstOf(task.todo) = "FORCE"
  <2>1. call.stage = "IDLE" BY <1>2 DEF TaskInv, CallOfTask
  <2> QED BY <1>1, <1>2, <2>1, LastResortHolds
<1>3. CASE ~(task.at = 0 /\ FirstOf(task.todo) = "FORCE") BY <1>1, <1>3, EffectHolds
<1> QED BY <1>2, <1>3

\* and around it.
LEMMA KnownKeeps ==
  ASSUME IInv, TaskInv, CallKnown, KeptSaved, [ProgramNext]_<<vars, task>>
  PROVE  CallKnown' /\ KeptSaved'
<1>1. task \in Tasks BY DEF TaskInv, TaskTypeOK
<1>2. ASSUME task' = task, call' = call,
             \A known : HoldNow(known) => HoldNext(task, known)
      PROVE  CallKnown' /\ KeptSaved'
  <2>1. KeptSaved' BY <1>2 DEF KeptSaved, TheScript
  <2>2. CASE call.stage = "IDLE"
    <3>1. HoldNext(task, Claimed(task)) BY <1>2, <2>2 DEF CallKnown
    <3>2. HoldNow(Claimed(task))' BY <1>2, <3>1 DEF HoldNow, HoldNext
    <3> QED BY <1>2, <2>1, <2>2, <3>2 DEF CallKnown
  <2>3. CASE call.stage # "IDLE"
    <3>1. PICK c \in Due : Underway(c) /\ HoldNow(Ahead(c, Claimed(task))) BY <2>3 DEF CallKnown
    <3>2. HoldNext(task, Ahead(c, Claimed(task))) BY <1>2, <3>1
    <3>3. HoldNow(Ahead(c, Claimed(task)))' BY <1>2, <3>2 DEF HoldNow, HoldNext, Ahead
    <3>4. c \in Due' /\ Underway(c)' BY <1>2, <3>1 DEF Due, TheStep, TheScript, Underway
    <3> QED BY <1>2, <2>1, <2>3, <3>3, <3>4 DEF CallKnown
  <2> QED BY <2>2, <2>3
<1>3. ASSUME chip' = chip, stale' = stale, ev' = ev
      PROVE  \A known : HoldNow(known) => HoldNext(task, known)
  BY <1>3 DEF HoldNow, HoldNext
<1>4. ASSUME call' = call, task.at = 0, task.todo = {}, task'.kept = {}
      PROVE  CallKnown' /\ KeptSaved'
  <2>1. call.stage = "IDLE" BY <1>4 DEF TaskInv, CallOfTask, FirstOf
  <2>2. HoldNext(task', Claimed(task')) BY <1>4, NothingSaved DEF HoldNext
  <2>3. HoldNow(Claimed(task))' BY <2>2 DEF HoldNow, HoldNext
  <2>4. KeptSaved' BY <1>4 DEF KeptSaved
  <2> QED BY <1>4, <2>1, <2>3, <2>4 DEF CallKnown
<1>5. CASE Setup
  <2>1. task' = task /\ call' = call /\ task.at = 0 /\ task.todo = {} /\ task.kept = {}
    BY <1>5 DEF Setup, bind, NoTask
  <2> QED BY <1>4, <2>1
<1>6. CASE \E name \in DOMAIN Scripts : Begin(name)
  <2>1. PICK name : task = NoTask /\ task' = [NoTask EXCEPT !.script = name, !.at = 1] /\ call' = call
    BY <1>6 DEF Begin, vars
  <2> QED BY <1>4, <2>1 DEF NoTask
<1>7. CASE Prompt
  <2>1. task' = NoTask /\ call' = call /\ ~Running BY <1>7 DEF Prompt, Done, vars
  <2>2. task.at = 0 /\ task.todo = {} BY <1>1, <2>1 DEF Running, Tasks
  <2> QED BY <1>4, <2>1, <2>2 DEF NoTask
<1>8. CASE Work BY <1>8, WorkHolds
<1>9. CASE Around
  <2>1. task' = task /\ call' = call BY <1>9 DEF Around, DeadlinePasses, PowerCycle
  <2>2. CASE DeadlinePasses BY <1>2, <1>3, <2>1, <2>2 DEF DeadlinePasses
  <2>3. CASE PowerCycle
    <3>1. chip'.regs = PorImage /\ stale'["OUTPUTS"] = Pins /\ ev' = ev
      BY <2>3 DEF PowerCycle, PowerOnChip, WritablePairs
    <3>2. \A known : HoldNow(known) => HoldNext(task, known)
      BY <1>1, <3>1, FactsAfterPowerLoss DEF HoldNow, HoldNext
    <3> QED BY <1>2, <2>1, <3>2
  <2> QED BY <1>9, <2>2, <2>3 DEF Around
<1>10. CASE UNCHANGED <<vars, task>> BY <1>2, <1>3, <1>10 DEF vars
<1> QED BY <1>5, <1>6, <1>7, <1>8, <1>9, <1>10 DEF ProgramNext

-----------------------------------------------------------------------------
(* Commands that nothing failed *)

\* A pair is recorded as saved.
Recorded(pair, t, e) == pair \in e.valid /\ e.shadow[pair] = t.saved[pair]

\* What a command kept is to be written back, or has been.
Returned(t, e) ==
  t.at = 0 /\ t.script # "NONE" /\ ~t.failed =>
    /\ "FORCE" \notin t.todo
    /\ \A pair \in t.kept : PhaseOf[pair] \in t.todo \/ Recorded(pair, t, e)

QuietTrue == Returned(task, ev)

\* A command that fails claims nothing here.
LEMMA FailedReturned ==
  ASSUME NEW t, t.failed, NEW e
  PROVE  Returned(t, e)
BY DEF Returned

\* A script that nothing failed goes on, or ends with its own routine.
LEMMA ScriptReturned ==
  ASSUME TaskTypeOK, task.at > 0, KeptSaved, NEW c \in Due, NEW known, Effect(c, known), NEW e
  PROVE  Returned(task', e)
<1>1. CASE task' = task BY <1>1 DEF Returned, TaskTypeOK, Tasks
<1>2. CASE \E t \in Tasks, ok \in BOOLEAN : Noted(t, c) /\ ReturnsNoting(t, ok)
  <2>1. PICK t \in Tasks, ok \in BOOLEAN : Noted(t, c) /\ ReturnsNoting(t, ok) BY <1>2
  <2>2. PICK u \in Tasks :
          /\ u.script = task.script
          /\ ~ok => u.failed
          /\ \/ ~ok /\ TheStep.stop /\ task' = Restoring(u, TheStep.restore)
             \/ \E next : next > 0 /\ task' = GoTo(u, next)
    <3>1. Same(t) BY <2>1 DEF Noted
    <3>2. PICK u \in Tasks :
            /\ u.script = task.script
            /\ ~ok => u.failed
            /\ \/ ~ok /\ TheStep.stop /\ task' = Restoring(u, TheStep.restore)
               \/ /\ ok \/ ~TheStep.stop
                  /\ \E next \in Onward(TheScript, task.at, IF ok THEN 1 ELSE TheStep.skip + 1) :
                       next \in Nat /\ next > 0 /\ task' = GoTo(u, next)
      BY <2>1, <3>1, StepFields
    <3> QED BY <3>2
  <2>3. CASE ~ok /\ task' = Restoring(u, TheStep.restore)
    <3>1. TheStep.restore \in DOMAIN Routine BY StepTyped DEF StepType
    <3>2. task'.failed = u.failed BY <2>3, <3>1, RestoringFields
    <3>3. u.failed BY <2>2, <2>3
    <3> QED BY <3>2, <3>3, FailedReturned
  <2>4. CASE \E next : next > 0 /\ task' = GoTo(u, next)
    <3>1. PICK next : next > 0 /\ task' = GoTo(u, next) BY <2>4
    <3>2. CASE next <= Len(Scripts[u.script].steps)
      <4>1. task'.at = next BY <3>1, <3>2 DEF GoTo, Tasks
      <4>2. task'.at # 0 BY <3>1, <4>1
      <4> QED BY <4>2 DEF Returned
    <3>3. CASE ~(next <= Len(Scripts[u.script].steps))
      <4> DEFINE routine == TheScript.finally
      <4>1. task' = Restoring(u, routine) BY <2>2, <3>1, <3>3 DEF GoTo, TheScript
      <4>2. /\ routine \in DOMAIN Routine
            /\ routine \in {"NOTHING", "LATCH_DIRECTION", "LATCH_POLARITY", "ALL"}
            /\ \A pair \in Saves(TheScript) : PhaseOf[pair] \in Routine[routine]
        BY StepTyped, FinallyAssumption DEF FinallyAssumption, TheScript
      <4> HIDE DEF routine
      <4>3. task'.todo = Routine[routine] BY <4>1, <4>2, RestoringFields
      <4>4. "FORCE" \notin Routine[routine] BY <4>2 DEF Routine
      <4>5. task'.kept \subseteq Saves(TheScript) BY <2>1, StepKeeps
      <4> QED BY <4>2, <4>3, <4>4, <4>5 DEF Returned
    <3> QED BY <3>2, <3>3
  <2> QED BY <2>2, <2>3, <2>4
<1> QED BY <1>1, <1>2 DEF Effect

\* A phase that writes its pair back as it was saved.
LEMMA PhaseReturned ==
  ASSUME IInv, TaskTypeOK, QuietTrue, task.at = 0, task.todo # {}, NEW ok \in BOOLEAN, Returns(ok),
         NEW pair \in WritablePairs, FirstOf(task.todo) = PhaseOf[pair],
         ok => ev' = establishShadowPair(ev, pair, task.saved[pair])
  PROVE  Returned(task', ev')
<1> DEFINE phase == FirstOf(task.todo)
<1>1. task \in Tasks /\ Same(task) /\ ev \in Evidence BY DEF TaskTypeOK, Same, IInv, TypeOK
<1>2. /\ task'.at = 0 /\ task'.script = task.script /\ task'.saved = task.saved
      /\ task'.kept = task.kept
      /\ ok => task'.todo = task.todo \ {phase} /\ task'.failed = task.failed
      /\ ~ok => task'.failed
  BY <1>1, PhaseFields DEF Returns
<1>3. CASE ~ok BY <1>2, <1>3, FailedReturned
<1>4. CASE ok /\ task.script # "NONE" /\ ~task.failed
  <2>1. ev'.valid = ev.valid \cup {pair} /\ ev'.shadow = [ev.shadow EXCEPT ![pair] = task.saved[pair]]
    BY <1>1, <1>4 DEF establishShadowPair, Evidence
  <2>2. ASSUME NEW other \in task.kept
        PROVE  PhaseOf[other] \in task'.todo \/ Recorded(other, task, ev')
    <3>1. other \in WritablePairs BY <1>1 DEF Tasks
    <3>2. ev.shadow \in [WritablePairs -> Values] BY <1>1 DEF Evidence, Images
    <3>3. CASE other = pair BY <2>1, <3>1, <3>2, <3>3 DEF Recorded
    <3>4. CASE other # pair
      <4>1. PhaseOf[other] # PhaseOf[pair] BY <3>1, <3>4 DEF PhaseOf, WritablePairs
      <4>2. PhaseOf[other] \in task.todo \/ Recorded(other, task, ev)
        BY <1>4 DEF QuietTrue, Returned
      <4>3. Recorded(other, task, ev) => Recorded(other, task, ev')
        BY <2>1, <3>1, <3>2, <3>4 DEF Recorded
      <4> QED BY <1>2, <1>4, <4>1, <4>2, <4>3
    <3> QED BY <3>3, <3>4
  <2>3. "FORCE" \notin task'.todo BY <1>2, <1>4 DEF QuietTrue, Returned
  <2> QED BY <1>2, <2>2, <2>3 DEF Returned, Recorded
<1>5. CASE ok /\ ~(task.script # "NONE" /\ ~task.failed) BY <1>2, <1>5 DEF Returned
<1> QED BY <1>3, <1>4, <1>5

\* A good write of a pair is recorded.
LEMMA GoodWrite ==
  ASSUME NEW e, NEW pair, NEW value, NEW outcome \in WriteOutcome[3], outcome.ok
  PROVE  writeRegs(e, pair, value, TRUE, outcome) = establishShadowPair(e, pair, value)
BY WriteOutcomeFacts DEF writeRegs

\* The calls of a restore routine, up to the end of their first callback,
LEMMA RestoreReturned ==
  ASSUME IInv, TaskTypeOK, QuietTrue, task.at = 0, task.todo # {}, NEW c \in Due,
         DriverCall(c) \/ RecoveryCall(c)
  PROVE  Returned(task', ev')
<1> DEFINE phase == FirstOf(task.todo)
<1>1. phase \in Phases /\ c = RestoreCall[phase] /\ phase \in task.todo
  BY RestoreCalls DEF Due, FirstOf, TaskTypeOK, Tasks, Phases
<1>2. /\ phase \in {"LATCH", "POLARITY"} =>
           /\ c.op = "WRITE" /\ c.value = "SAVED"
           /\ c.pair = IF phase = "LATCH" THEN "OUTPUTS" ELSE "POLARITY"
      /\ phase \in {"DIRECTION", "FORCE"} =>
           /\ c.op = "DIRECT" /\ c.pair = "DIRECTIONS"
           /\ c.value = IF phase = "DIRECTION" THEN "SAVED" ELSE "HIGH"
  BY <1>1, PhaseCalls
<1>3. c.op \in {"WRITE", "DIRECT"} BY <1>1, <1>2 DEF Phases
<1>4. task \in Tasks /\ Same(task) /\ ev \in Evidence BY DEF TaskTypeOK, Same, IInv, TypeOK
<1>5. ASSUME Returns(FALSE) PROVE Returned(task', ev')
  <2>1. FALSE \in BOOLEAN OBVIOUS
  <2>2. task'.failed BY <1>4, <1>5, <2>1, PhaseFields DEF Returns
  <2> QED BY <2>2, FailedReturned
<1>6. ASSUME NEW ok \in BOOLEAN, Returns(ok), phase = "FORCE" PROVE Returned(task', ev')
  <2>1. /\ task'.script = task.script
        /\ ok => task'.failed = task.failed
        /\ ~ok => task'.failed
    BY <1>4, <1>6, PhaseFields DEF Returns
  <2>2. task.script # "NONE" /\ ~task.failed => "FORCE" \notin task.todo
    BY DEF QuietTrue, Returned
  <2> QED BY <1>1, <1>6, <2>1, <2>2 DEF Returned
<1>7. CASE call = Idle /\ refusedCall(c) BY <1>5, <1>7 DEF refusedCall
<1>8. CASE Ready /\ writeCall(c)
  <2>1. phase \in {"LATCH", "POLARITY"} BY <1>1, <1>2, <1>8 DEF writeCall, Phases
  <2>2. Meant(c.pair, c.value) = {task.saved[c.pair]} BY <1>2, <2>1 DEF Meant
  <2>3. PICK outcome \in WriteOutcome[3] :
          writePairTo(c.pair, task.saved[c.pair], outcome) /\ Answered(outcome.ok)
    BY <1>8, <2>2 DEF writeCall
  <2>4. outcome.ok \in BOOLEAN /\ Returns(outcome.ok) BY <2>3, WriteOutcomeFacts DEF Answered
  <2>5. c.pair \in WritablePairs /\ phase = PhaseOf[c.pair]
    BY <1>2, <2>1 DEF WritablePairs, PhaseOf
  <2>6. outcome.ok => ev' = establishShadowPair(ev, c.pair, task.saved[c.pair])
    BY <2>3, GoodWrite DEF writePairTo
  <2> QED BY <2>4, <2>5, <2>6, PhaseReturned
<1>9. CASE Ready /\ directCall(c)
  <2>1. phase \in {"DIRECTION", "FORCE"} BY <1>1, <1>2, <1>9 DEF directCall, Phases
  <2>2. PICK value \in Meant("DIRECTIONS", c.value), outcome \in WriteOutcome[3] :
          IF value = Pins
          THEN writePairTo("DIRECTIONS", value, outcome) /\ Answered(outcome.ok)
          ELSE /\ shadowStatus({"OUTPUTS"} \cup Needs("DIRECTIONS", c.value))
               /\ writePairTo("OUTPUTS", ev.shadow["OUTPUTS"], outcome)
               /\ Preloaded(outcome, Then("ENABLE_PAIR", value, 0))
    BY <1>9 DEF directCall
  <2>3. outcome.ok \in BOOLEAN BY WriteOutcomeFacts
  <2>4. phase = "DIRECTION" => value = task.saved["DIRECTIONS"] BY <1>2, <2>2 DEF Meant
  <2>5. CASE value = Pins
    <3>1. writePairTo("DIRECTIONS", value, outcome) /\ Returns(outcome.ok)
      BY <2>2, <2>5 DEF Answered
    <3>2. CASE phase = "FORCE" BY <1>6, <2>3, <3>1, <3>2
    <3>3. CASE phase = "DIRECTION"
      <4>1. outcome.ok => ev' = establishShadowPair(ev, "DIRECTIONS", task.saved["DIRECTIONS"])
        BY <2>4, <3>1, <3>3, GoodWrite DEF writePairTo
      <4>2. "DIRECTIONS" \in WritablePairs /\ phase = PhaseOf["DIRECTIONS"]
        BY <3>3 DEF WritablePairs, PhaseOf
      <4> QED BY <2>3, <3>1, <4>1, <4>2, PhaseReturned
    <3> QED BY <2>1, <3>2, <3>3
  <2>6. CASE value # Pins
    <3>1. /\ writePairTo("OUTPUTS", ev.shadow["OUTPUTS"], outcome)
          /\ Preloaded(outcome, Then("ENABLE_PAIR", value, 0))
      BY <2>2, <2>6
    <3>2. CASE ~outcome.ok
      <4>1. Returns(FALSE) BY <3>1, <3>2 DEF Preloaded
      <4> QED BY <1>5, <4>1
    <3>3. CASE outcome.ok
      <4>1. task' = task /\ ev' = establishShadowPair(ev, "OUTPUTS", ev.shadow["OUTPUTS"])
        BY <3>1, <3>3, GoodWrite DEF Preloaded, writePairTo
      <4>2. ev'.valid = ev.valid \cup {"OUTPUTS"} /\ ev'.shadow = ev.shadow
        BY <1>4, <4>1 DEF establishShadowPair, Evidence, Images
      <4>3. \A pair : Recorded(pair, task, ev) => Recorded(pair, task, ev')
        BY <4>2 DEF Recorded
      <4> QED BY <4>1, <4>3 DEF QuietTrue, Returned
    <3> QED BY <2>3, <3>2, <3>3
  <2> QED BY <2>5, <2>6
<1>10. ~RecoveryCall(c)
  BY <1>3 DEF RecoveryCall, startCall, pollCall, takeCall
<1>11. ~(probeCall(c) \/ readCall(c) \/ saveCall(c) \/ readPortCall(c))
  BY <1>3 DEF probeCall, readCall, saveCall, readPortCall
<1>12. ~(writePortCall(c) \/ writeRawCall(c) \/ inputCall(c) \/ directPortCall(c))
  BY <1>3 DEF writePortCall, writeRawCall, inputCall, directPortCall
<1> QED BY <1>7, <1>8, <1>9, <1>10, <1>11, <1>12 DEF DriverCall

\* and the second callback of the direction call.
LEMMA EnableReturned ==
  ASSUME IInv, TaskInv, CallKnown, QuietTrue, task.at = 0, Finish
  PROVE  Returned(task', ev')
<1>1. call.stage = "ENABLE_PAIR" /\ FirstOf(task.todo) = "DIRECTION"
  BY DEF TaskInv, CallOfTask, Finish
<1>2. PICK c \in Due : Underway(c) BY <1>1 DEF CallKnown
<1>3. c = SetDirections("SAVED") BY <1>1, <1>2 DEF Due, RestoreCall
<1>4. call.value = task.saved["DIRECTIONS"] BY <1>1, <1>2, <1>3 DEF Underway, SetDirections, Call
<1>5. PICK outcome \in WriteOutcome[3] :
        writePairTo("DIRECTIONS", call.value, outcome) /\ Returns(outcome.ok)
  BY <1>1 DEF Finish
<1>6. outcome.ok => ev' = establishShadowPair(ev, "DIRECTIONS", task.saved["DIRECTIONS"])
  BY <1>4, <1>5, GoodWrite DEF writePairTo
<1>7. "DIRECTIONS" \in WritablePairs /\ PhaseOf["DIRECTIONS"] = "DIRECTION"
  BY DEF WritablePairs, PhaseOf
<1>8. outcome.ok \in BOOLEAN /\ task.todo # {} BY <1>1, WriteOutcomeFacts DEF FirstOf
<1> QED BY <1>1, <1>5, <1>6, <1>7, <1>8, PhaseReturned DEF TaskInv

\* A command that nothing failed returns what it kept.
LEMMA QuietKeeps ==
  ASSUME IInv, TaskInv, CallKnown, KeptSaved, QuietTrue, [ProgramNext]_<<vars, task>>
  PROVE  QuietTrue'
<1>1. task \in Tasks /\ TaskTypeOK BY DEF TaskInv, TaskTypeOK
<1>2. SUFFICES Returned(task', ev') BY DEF QuietTrue
<1>3. CASE Setup BY <1>3 DEF Setup, NoTask, Returned
<1>4. CASE \E name \in DOMAIN Scripts : Begin(name) BY <1>4 DEF Begin, NoTask, Returned
<1>5. CASE Prompt BY <1>5 DEF Prompt, NoTask, Returned
<1>6. CASE Work /\ task.at > 0
  <2>1. \E c \in Due : Effect(c, Claimed(task)) BY <1>6, WorkEffect
  <2> QED BY <1>1, <1>6, <2>1, ScriptReturned
<1>7. CASE Work /\ task.at = 0
  <2>1. CASE Running /\ \E c \in Due : DriverCall(c) \/ RecoveryCall(c)
    BY <1>1, <1>7, <2>1, RestoreReturned DEF Running
  <2>2. CASE Finish BY <1>7, <2>2, EnableReturned
  <2>3. ~transferCall
    BY <1>7 DEF TaskInv, CallOfTask, transferCall, executeOperationTransfer
  <2> QED BY <1>7, <2>1, <2>2, <2>3 DEF Work
<1>8. CASE Around
  <2>1. task' = task /\ ev' = ev BY <1>8 DEF Around, DeadlinePasses, PowerCycle
  <2> QED BY <2>1 DEF QuietTrue
<1>9. CASE UNCHANGED <<vars, task>> BY <1>9 DEF QuietTrue, vars
<1>10. task.at > 0 \/ task.at = 0 BY <1>1 DEF Tasks
<1> QED BY <1>3, <1>4, <1>5, <1>6, <1>7, <1>8, <1>9, <1>10 DEF ProgramNext

-----------------------------------------------------------------------------
(* The recovery *)

Recovering == task.at > 1 /\ IsRecovery(TheScript)

\* Only a recovery that has begun has an operation in the slot, and every poll it has
\* made has used one of its callbacks, or found it over.
RecoveryTrue ==
  IF Recovering
  THEN /\ slot.active \/ slot.pending
       /\ slot.active => slot.kind = "APPLY_IMAGE" /\ slot.used + 2 >= task.at
       /\ call.stage = "POLLING" => task.at < Len(TheScript.steps)
  ELSE slot = EmptySlot

\* A recovery goes from step to step, unless its operation is not admitted.
LEMMA RecoveryMoves ==
  ASSUME TaskTypeOK, task.at > 0, IsRecovery(TheScript), NEW ok \in BOOLEAN, Returns(ok)
  PROVE  /\ task'.script = task.script
         /\ task.at = 1 /\ ~ok => task'.at = 0
         /\ task.at > 1 \/ ok =>
              task'.at = IF task.at < Len(TheScript.steps) THEN task.at + 1 ELSE 0
<1>1. task \in Tasks /\ Same(task) /\ task.at \in Nat BY DEF TaskTypeOK, Same, Tasks
<1>2. PICK u \in Tasks :
        /\ u.script = task.script
        /\ \/ ~ok /\ TheStep.stop /\ task' = Restoring(u, TheStep.restore)
           \/ /\ ok \/ ~TheStep.stop
              /\ \E next \in Onward(TheScript, task.at, IF ok THEN 1 ELSE TheStep.skip + 1) :
                   next \in Nat /\ next > 0 /\ task' = GoTo(u, next)
  BY <1>1, StepFields DEF Returns
<1>3. /\ task.at \in 1..Len(TheScript.steps) /\ Len(TheScript.steps) \in Nat
      /\ TheStep.restore \in DOMAIN Routine /\ TheScript.finally \in DOMAIN Routine
  BY StepTyped DEF StepType
<1>4. /\ task.at = 1 => TheStep.stop
      /\ task.at > 1 => ~TheStep.stop /\ TheStep.skip = 0
      /\ TheScript.loops = {}
  BY <1>3 DEF IsRecovery, TheStep
<1>5. CASE ~ok /\ TheStep.stop /\ task' = Restoring(u, TheStep.restore)
  <2>1. task'.at = 0 /\ task'.script = task.script BY <1>2, <1>3, <1>5, RestoringFields
  <2> QED BY <1>3, <1>4, <1>5, <2>1
<1>6. CASE /\ ok \/ ~TheStep.stop
           /\ \E next \in Onward(TheScript, task.at, IF ok THEN 1 ELSE TheStep.skip + 1) :
                next \in Nat /\ next > 0 /\ task' = GoTo(u, next)
  <2>1. PICK next \in Onward(TheScript, task.at, IF ok THEN 1 ELSE TheStep.skip + 1) :
          next \in Nat /\ next > 0 /\ task' = GoTo(u, next)
    BY <1>6
  <2>2. (IF ok THEN 1 ELSE TheStep.skip + 1) = 1
    <3>1. CASE ok BY <3>1
    <3>2. CASE ~ok
      <4>1. ~TheStep.stop BY <1>6, <3>2
      <4>2. TheStep.skip = 0 BY <1>3, <1>4, <4>1
      <4> QED BY <3>2, <4>2
    <3> QED BY <3>1, <3>2
  <2>3. next \in Onward(TheScript, task.at, 1) BY <2>1, <2>2
  <2>4. next = task.at + 1 BY <1>4, <2>3 DEF Onward
  <2>5. TheScript = Scripts[u.script] BY <1>2 DEF TheScript
  <2>6. CASE next <= Len(TheScript.steps)
    <3>1. task'.at = next /\ task'.script = task.script BY <1>2, <2>1, <2>5, <2>6 DEF GoTo, Tasks
    <3>2. task.at < Len(TheScript.steps) BY <1>1, <1>3, <2>4, <2>6
    <3>3. ~(task.at = 1 /\ ~ok) BY <1>4, <1>6
    <3> QED BY <2>4, <3>1, <3>2, <3>3
  <2>7. CASE ~(next <= Len(TheScript.steps))
    <3>1. task' = Restoring(u, TheScript.finally) BY <2>1, <2>5, <2>7 DEF GoTo
    <3>2. task'.at = 0 /\ task'.script = task.script BY <1>2, <1>3, <3>1, RestoringFields
    <3>3. ~(task.at < Len(TheScript.steps)) BY <1>1, <1>3, <2>4, <2>7
    <3> QED BY <3>2, <3>3
  <2> QED BY <2>6, <2>7
<1> QED BY <1>2, <1>5, <1>6

\* So it goes on to the step after, or is over after the last,
GoesOn ==
  /\ task'.script = task.script
  /\ task'.at = IF task.at < Len(TheScript.steps) THEN task.at + 1 ELSE 0

LEMMA RecoveryGoesOn ==
  ASSUME TaskTypeOK, task.at > 0, IsRecovery(TheScript),
         \E ok \in BOOLEAN : Returns(ok) /\ (task.at > 1 \/ ok)
  PROVE  GoesOn
<1>1. PICK ok \in BOOLEAN : Returns(ok) /\ (task.at > 1 \/ ok) OBVIOUS
<1> QED BY <1>1, RecoveryMoves DEF GoesOn

\* or ends at its start.
LEMMA RecoveryRefused ==
  ASSUME TaskTypeOK, task.at = 1, IsRecovery(TheScript), \E ok \in BOOLEAN : Returns(ok) /\ ~ok
  PROVE  task'.at = 0
<1>1. PICK ok \in BOOLEAN : Returns(ok) /\ ~ok OBVIOUS
<1>2. task.at > 0 BY SMT
<1> QED BY <1>1, <1>2, RecoveryMoves

\* What a recovery's calls are.
LEMMA RecoverySteps ==
  ASSUME TaskTypeOK, task.at > 0, NEW c \in Due
  PROVE  /\ ~IsRecovery(TheScript) => c.op \notin RecoveryOps
         /\ IsRecovery(TheScript) =>
              c.op = IF task.at = 1 THEN "START"
                     ELSE IF task.at < Len(TheScript.steps) THEN "POLL" ELSE "TAKE"
<1>1. task.script \in DOMAIN Scripts /\ task.at \in 1..Len(TheScript.steps)
  BY StepTyped
<1>2. c \in TheScript.steps[task.at].calls BY DEF Due, TheStep
<1>3. task.at \in DOMAIN TheScript.steps BY <1>1, StepTyped
<1>4. ~IsRecovery(TheScript) => c.op \notin RecoveryOps
  BY <1>1, <1>2, <1>3, RecoveryAssumption DEF RecoveryAssumption, RecoveryOps, TheScript
<1>5. ASSUME IsRecovery(TheScript)
      PROVE  c.op = IF task.at = 1 THEN "START"
                    ELSE IF task.at < Len(TheScript.steps) THEN "POLL" ELSE "TAKE"
  <2>1. CASE task.at = 1 BY <1>2, <1>5, <2>1 DEF IsRecovery
  <2>2. CASE task.at # 1
    <3>1. task.at \in 2..Len(TheScript.steps) BY <1>1, <2>2, StepTyped
    <3> QED BY <1>2, <1>5, <2>2, <3>1 DEF IsRecovery
  <2> QED BY <2>1, <2>2
<1> QED BY <1>4, <1>5

\* The calls of the driver leave the slot to them.
LEMMA SlotLeft ==
  ASSUME IInv, TaskTypeOK, NEW c \in Due, DriverCall(c) \/ Finish
  PROVE  slot' = slot
<1>1. CASE DriverCall(c)
  <2>1. SyncCall \/ UNCHANGED vars BY <1>1, DueCalls, CallIsStep
  <2> QED BY <2>1, SyncCallStep DEF IInv, CallbackStep, vars
<1>2. CASE Finish BY <1>2 DEF Finish, Keeps
<1> QED BY <1>1, <1>2

\* Its start,
LEMMA RecoveryStarts ==
  ASSUME TaskTypeOK, RecoveryTrue, task.at = 1, IsRecovery(TheScript), NEW c, startCall(c)
  PROVE  RecoveryTrue'
<1>1. slot = EmptySlot BY DEF RecoveryTrue, Recovering
<1>2. task.at > 0 BY SMT
<1>3. CASE start("APPLY_IMAGE", PorImage, "APPLY_OUTPUTS") /\ Returns(TRUE)
  <2>1. \E ok \in BOOLEAN : Returns(ok) /\ (task.at > 1 \/ ok)
    <3>1. Returns(TRUE) /\ TRUE \in BOOLEAN BY <1>3
    <3> QED BY <3>1
  <2>2. 1 < Len(TheScript.steps)
    <3>1. Len(TheScript.steps) \in Nat BY <1>2, StepTyped
    <3> QED BY <3>1 DEF IsRecovery, MaxTransactions
  <2>3. task'.script = task.script /\ task'.at = 2
    <3>1. GoesOn BY <1>2, <2>1, RecoveryGoesOn
    <3> QED BY <2>2, <3>1 DEF GoesOn
  <2>4. PICK requestId \in RequestIds :
          slot' = [EmptySlot EXCEPT !.active = TRUE, !.requestId = requestId, !.kind = "APPLY_IMAGE",
                                    !.phase = "APPLY_OUTPUTS", !.expected = PorImage,
                                    !.outcome = "ACTIVE"]
    BY <1>3 DEF start
  <2>5. slot'.active /\ slot'.kind = "APPLY_IMAGE" /\ slot'.used = 0 BY <2>4 DEF EmptySlot
  <2>6. call'.stage = "IDLE" BY <1>3, IdleStage DEF start
  <2> QED BY <2>3, <2>5, <2>6 DEF RecoveryTrue, Recovering, TheScript
<1>4. CASE Returns(FALSE) /\ UNCHANGED vars
  <2>1. \E ok \in BOOLEAN : Returns(ok) /\ ~ok
    <3>1. Returns(FALSE) /\ FALSE \in BOOLEAN /\ ~FALSE BY <1>4
    <3> QED BY <3>1
  <2>2. task'.at = 0 BY <2>1, RecoveryRefused
  <2>3. slot' = EmptySlot BY <1>1, <1>4 DEF vars
  <2> QED BY <2>2, <2>3 DEF RecoveryTrue, Recovering
<1> QED BY <1>3, <1>4 DEF startCall

\* a poll,
LEMMA RecoveryPolls ==
  ASSUME IInv, TaskTypeOK, RecoveryTrue, Recovering, task.at < Len(TheScript.steps),
         NEW c, pollCall(c)
  PROVE  RecoveryTrue'
<1>1. /\ slot.active \/ slot.pending
      /\ slot.active => slot.kind = "APPLY_IMAGE" /\ slot.used + 2 >= task.at
  BY DEF RecoveryTrue
<1>2. task.at > 1 /\ task.at \in Nat /\ slot \in Slots BY DEF Recovering, TaskTypeOK, Tasks, IInv, TypeOK
<1>3. ASSUME Returns(TRUE)
      PROVE  task'.script = task.script /\ task'.at = task.at + 1 /\ Recovering'
  <2>1. \E ok \in BOOLEAN : Returns(ok) /\ (task.at > 1 \/ ok)
    <3>1. Returns(TRUE) /\ TRUE \in BOOLEAN BY <1>3
    <3> QED BY <1>2, <3>1
  <2>2. task'.script = task.script /\ task'.at = task.at + 1
    <3>1. task.at > 0 /\ IsRecovery(TheScript) BY <1>2 DEF Recovering
    <3>2. GoesOn BY <2>1, <3>1, RecoveryGoesOn
    <3> QED BY <3>2 DEF GoesOn
  <2> QED BY <1>2, <2>2 DEF Recovering, TheScript
<1>4. CASE slot.active
  <2>1. slot' = enterPoll BY <1>4 DEF pollCall
  <2>2. CASE slot'.active
    <3>1. task' = task BY <1>4, <2>2 DEF pollCall
    <3>2. slot' # finish(slot, ev, "TIMED_OUT", slot.phase) BY <1>2, <2>2 DEF finish, Slots
    <3>3. slot'.kind = slot.kind /\ slot'.used = slot.used
      BY <1>4, <2>1, <3>2, EnterPollFacts
    <3> QED BY <1>1, <1>4, <2>2, <3>1, <3>3 DEF RecoveryTrue, Recovering, TheScript
  <2>3. CASE ~slot'.active
    <3>1. Returns(TRUE) /\ call' = Idle BY <1>4, <2>3 DEF pollCall
    <3>2. slot' = finish(slot, ev, "TIMED_OUT", slot.phase) BY <1>4, <2>1, <2>3, EnterPollFacts
    <3>3. slot'.pending BY <1>2, <3>2 DEF finish, Slots
    <3> QED BY <1>3, <2>3, <3>1, <3>3, IdleStage DEF RecoveryTrue
  <2> QED BY <2>2, <2>3
<1>5. CASE ~slot.active
  <2>1. Returns(TRUE) /\ slot' = slot /\ call' = Idle BY <1>5 DEF pollCall, vars
  <2> QED BY <1>1, <1>3, <1>5, <2>1, IdleStage DEF RecoveryTrue
<1> QED BY <1>4, <1>5

\* its transfer,
LEMMA RecoveryTransfers ==
  ASSUME IInv, TaskInv, RecoveryTrue, Recovering, transferCall
  PROVE  RecoveryTrue'
<1>1. /\ slot.active /\ call.stage = "POLLING" /\ Advanced
      /\ slot.used \in Nat
  <2>1. slot.active /\ call.stage = "POLLING" /\ Advanced BY TransferAdvances DEF transferCall
  <2> QED BY <2>1, UsedBelowMax
<1>2. slot.kind = "APPLY_IMAGE" /\ slot.used + 2 >= task.at /\ task.at < Len(TheScript.steps)
  BY <1>1 DEF RecoveryTrue
<1>3. PICK s : NextSlot(s) /\ transferred(s) BY <1>1 DEF Advanced
<1>4. /\ slot'.used = slot.used + 1 /\ slot'.kind = slot.kind
      /\ slot'.active \/ slot'.pending
  BY <1>3 DEF NextSlot, transferred, Slots
<1>5. TaskTypeOK /\ task.at \in Nat /\ task.at > 1
  BY DEF TaskInv, TaskTypeOK, Tasks, Recovering
<1>6. task'.script = task.script /\ task'.at = task.at + 1
  <2>1. \E ok \in BOOLEAN : Returns(ok) /\ (task.at > 1 \/ ok)
    <3>1. Returns(TRUE) /\ TRUE \in BOOLEAN BY DEF transferCall
    <3> QED BY <1>5, <3>1
  <2>2. task.at > 0 /\ IsRecovery(TheScript) BY <1>5 DEF Recovering
  <2>3. GoesOn BY <1>5, <2>1, <2>2, RecoveryGoesOn
  <2> QED BY <1>2, <2>3 DEF GoesOn
<1>7. call'.stage = "IDLE"
  <2>1. call' = Polling(call.left - 1) \/ call' = Idle BY <1>3 DEF transferred
  <2>2. call.left = 1 BY <1>1 DEF TaskInv, CallOfTask
  <2>3. Polling(1 - 1) = Idle BY DEF Polling
  <2> QED BY <2>1, <2>2, <2>3, IdleStage
<1>8. slot'.used + 2 >= task'.at BY <1>1, <1>2, <1>4, <1>5, <1>6
<1>9. Recovering' BY <1>5, <1>6 DEF Recovering, TheScript
<1> QED BY <1>2, <1>4, <1>7, <1>8, <1>9 DEF RecoveryTrue

\* and the end of it: the last poll has found the operation over.
LEMMA RecoveryTakes ==
  ASSUME IInv, TaskTypeOK, RecoveryTrue, Recovering, ~(task.at < Len(TheScript.steps)),
         NEW c, takeCall(c)
  PROVE  RecoveryTrue'
<1>1. task.at \in Nat /\ Len(TheScript.steps) \in Nat /\ task.at >= 10 /\ task.at > 1
  BY StepTyped DEF Recovering, IsRecovery, MaxTransactions, TaskTypeOK, Tasks
<1>2. slot.pending
  <2>1. SUFFICES ASSUME slot.active PROVE FALSE BY DEF RecoveryTrue
  <2>2. slot.used + 2 >= task.at BY <2>1 DEF RecoveryTrue
  <2>3. slot.used \in 0..7 BY <2>1, UsedBelowMax
  <2> QED BY <1>1, <2>2, <2>3
<1>3. takeOperationResult /\ Returns(slot.outcome = "SUCCEEDED") BY <1>2 DEF takeCall
<1> DEFINE succeeded == slot.outcome = "SUCCEEDED"
<1>4. \E ok \in BOOLEAN : Returns(ok) /\ (task.at > 1 \/ ok)
  <2>1. succeeded \in BOOLEAN /\ Returns(succeeded) BY <1>3
  <2> HIDE DEF succeeded
  <2> QED BY <1>1, <2>1
<1>5. task'.at = 0
  <2>1. task.at > 0 /\ IsRecovery(TheScript) BY <1>1 DEF Recovering
  <2>2. GoesOn BY <1>4, <2>1, RecoveryGoesOn
  <2> QED BY <2>2 DEF GoesOn
<1>6. slot' = EmptySlot BY <1>3 DEF takeOperationResult
<1> QED BY <1>5, <1>6 DEF RecoveryTrue, Recovering

\* Other commands leave the slot empty.
LEMMA SlotStaysEmpty ==
  ASSUME slot = EmptySlot, slot' = slot, task.at = 0 => task'.at = 0,
         task.at > 0 => task'.script = task.script /\ ~IsRecovery(TheScript)
  PROVE  task.at \in Nat => RecoveryTrue'
BY DEF RecoveryTrue, Recovering, TheScript

\* The recovery keeps its account.
LEMMA RecoveryKeeps ==
  ASSUME IInv, TaskInv, CallKnown, KeptSaved, RecoveryTrue, [ProgramNext]_<<vars, task>>
  PROVE  RecoveryTrue'
<1>1. task \in Tasks /\ TaskTypeOK /\ task.at \in Nat BY DEF TaskInv, TaskTypeOK, Tasks
<1>2. ASSUME task' = task, slot' = slot, call' = call PROVE RecoveryTrue'
  BY <1>2 DEF RecoveryTrue, Recovering, TheScript
<1>3. ASSUME task.at = 0, slot' = slot, task'.at \in {0, 1} PROVE RecoveryTrue'
  BY <1>3 DEF RecoveryTrue, Recovering
<1>4. CASE Setup BY <1>2, <1>4 DEF Setup, bind
<1>5. CASE \E name \in DOMAIN Scripts : Begin(name) BY <1>3, <1>5 DEF Begin, NoTask, vars
<1>6. CASE Prompt BY <1>1, <1>3, <1>6 DEF Prompt, Done, Running, NoTask, vars
<1>7. CASE Work /\ task.at = 0
  <2>1. ~transferCall
    BY <1>7 DEF TaskInv, CallOfTask, transferCall, executeOperationTransfer
  <2>2. PICK c \in Due : DriverCall(c) \/ RecoveryCall(c) \/ Finish
    <3>1. RestoreCall[FirstOf(task.todo)] \in Due BY <1>7 DEF Due
    <3> QED BY <1>7, <2>1, <3>1 DEF Work
  <2>3. ~RecoveryCall(c)
    <3>1. c = RestoreCall[FirstOf(task.todo)] /\ FirstOf(task.todo) \in Phases
      BY <1>7, RestoreCalls DEF Due
    <3>2. c.op \in {"WRITE", "DIRECT"} BY <3>1, PhaseCalls DEF Phases
    <3> QED BY <3>2 DEF RecoveryCall, startCall, pollCall, takeCall
  <2>4. slot' = slot BY <1>1, <2>2, <2>3, SlotLeft
  <2>5. task'.at = 0
    <3>1. PICK d \in Due : Effect(d, Claimed(task)) BY <1>7, WorkEffect
    <3>2. ASSUME NEW t \in Tasks, NEW ok \in BOOLEAN, Noted(t, d), ReturnsNoting(t, ok)
          PROVE  task'.at = 0
      BY <1>7, <3>2, PhaseFields DEF Noted
    <3> QED BY <1>7, <3>1, <3>2 DEF Effect
  <2> QED BY <1>3, <1>7, <2>4, <2>5
<1>8. CASE Work /\ task.at > 0 /\ ~IsRecovery(TheScript)
  <2>1. slot = EmptySlot BY <1>8 DEF RecoveryTrue, Recovering
  <2>2. ~transferCall
    <3>1. ~slot.active BY <2>1 DEF EmptySlot
    <3> QED BY <3>1, TransferAdvances DEF transferCall
  <2>3. PICK d \in Due : Effect(d, Claimed(task)) BY <1>8, WorkEffect
  <2>4. slot' = slot
    <3>1. PICK c \in Due : DriverCall(c) \/ RecoveryCall(c) \/ Finish
      BY <1>8, <2>2, <2>3 DEF Work
    <3>2. c.op \notin RecoveryOps BY <1>1, <1>8, RecoverySteps
    <3>3. ~RecoveryCall(c) BY <3>2 DEF RecoveryCall, startCall, pollCall, takeCall, RecoveryOps
    <3> QED BY <1>1, <3>1, <3>3, SlotLeft
  <2>5. task'.script = task.script
    <3>1. ASSUME NEW t \in Tasks, NEW ok \in BOOLEAN, Noted(t, d), ReturnsNoting(t, ok)
          PROVE  task'.script = task.script
      BY <1>1, <1>8, <3>1, StepKeeps
    <3> QED BY <2>3, <3>1 DEF Effect
  <2> QED BY <1>1, <1>8, <2>1, <2>4, <2>5, SlotStaysEmpty
<1>9. CASE Work /\ task.at > 0 /\ IsRecovery(TheScript)
  <2>1. ASSUME NEW c \in Due, DriverCall(c) PROVE FALSE
    <3>1. c.op \in RecoveryOps BY <1>1, <1>9, RecoverySteps DEF RecoveryOps
    <3> QED BY <2>1, <3>1 DEF DriverCall, refusedCall, RecoveryOps, probeCall, readCall, saveCall,
         readPortCall, writeCall, writePortCall, writeRawCall, inputCall, directCall, directPortCall
  <2>2. ASSUME Finish \/ transferCall PROVE transferCall /\ Recovering
    <3>1. call.stage # "IDLE" BY <2>2 DEF Finish, transferCall, executeOperationTransfer
    <3>2. PICK c \in Due : Underway(c) BY <3>1 DEF CallKnown
    <3>3. c.op = IF task.at = 1 THEN "START"
                 ELSE IF task.at < Len(TheScript.steps) THEN "POLL" ELSE "TAKE"
      BY <1>1, <1>9, RecoverySteps
    <3>4. call.stage = "POLLING" /\ task.at # 1
      BY <3>2, <3>3 DEF Underway, EnableStages, ParkStages
    <3>5. ~Finish BY <3>4 DEF Finish
    <3> QED BY <1>1, <1>9, <2>2, <3>4, <3>5 DEF Recovering
  <2>3. CASE Finish \/ transferCall BY <2>2, <2>3, RecoveryTransfers
  <2>4. CASE \E c \in Due : DriverCall(c) \/ RecoveryCall(c)
    <3>1. PICK c \in Due : RecoveryCall(c) BY <2>1, <2>4
    <3>2. c.op = IF task.at = 1 THEN "START"
                 ELSE IF task.at < Len(TheScript.steps) THEN "POLL" ELSE "TAKE"
      BY <1>1, <1>9, RecoverySteps
    <3>3. CASE task.at = 1
      <4>1. c.op = "START" BY <3>2, <3>3
      <4>2. startCall(c) BY <3>1, <4>1 DEF RecoveryCall, pollCall, takeCall
      <4> QED BY <1>1, <1>9, <3>3, <4>2, RecoveryStarts
    <3>4. CASE task.at > 1 /\ task.at < Len(TheScript.steps)
      <4>1. c.op = "POLL" BY <3>2, <3>4
      <4>2. pollCall(c) BY <3>1, <4>1 DEF RecoveryCall, startCall, takeCall
      <4> QED BY <1>1, <1>9, <3>4, <4>2, RecoveryPolls DEF Recovering
    <3>5. CASE task.at > 1 /\ ~(task.at < Len(TheScript.steps))
      <4>1. c.op = "TAKE" BY <3>2, <3>5
      <4>2. takeCall(c) BY <3>1, <4>1 DEF RecoveryCall, startCall, pollCall
      <4> QED BY <1>1, <1>9, <3>5, <4>2, RecoveryTakes DEF Recovering
    <3> QED BY <1>1, <1>9, <3>3, <3>4, <3>5
  <2> QED BY <1>9, <2>3, <2>4 DEF Work
<1>10. CASE Around BY <1>2, <1>10 DEF Around, DeadlinePasses, PowerCycle
<1>11. CASE UNCHANGED <<vars, task>> BY <1>2, <1>11 DEF vars
<1> QED BY <1>1, <1>4, <1>5, <1>6, <1>7, <1>8, <1>9, <1>10, <1>11 DEF ProgramNext

-----------------------------------------------------------------------------
(* The invariant *)

\* The accounts of the programs hold before the first command.
LEMMA AccountsStart ==
  ASSUME ProgramInit
  PROVE  CallKnown /\ KeptSaved /\ QuietTrue /\ RecoveryTrue
<1>1. task = NoTask /\ call = Idle /\ slot = EmptySlot BY DEF ProgramInit, Init
<1>2. task.at = 0 /\ task.script = "NONE" /\ task.kept = {} BY <1>1 DEF NoTask
<1>3. CallKnown
  <2>1. Claimed(task) = {} BY <1>2 DEF Claimed
  <2>2. HoldNow({}) BY NothingClaimed DEF HoldNow
  <2> QED BY <1>1, <2>1, <2>2, IdleStage DEF CallKnown
<1>4. KeptSaved /\ QuietTrue BY <1>2 DEF KeptSaved, QuietTrue, Returned
<1>5. RecoveryTrue BY <1>1, <1>2 DEF RecoveryTrue, Recovering
<1> QED BY <1>3, <1>4, <1>5

\* The driver's invariant and the programs' together.
ProgramInv == IInv /\ TaskInv /\ CallKnown /\ KeptSaved /\ QuietTrue /\ RecoveryTrue

LEMMA ProgramInvariants == ProgramSpec => []ProgramInv
<1>1. ProgramInit => ProgramInv
  BY ProgramStart, InitIInv, AccountsStart DEF ProgramInv
<1>2. ASSUME ProgramInv, [ProgramNext]_<<vars, task>> PROVE ProgramInv'
  <2>1. IInv' /\ TaskInv'
    BY <1>2, ProgramStep, NextKeepsIInv, ProgramKeeps DEF ProgramInv, TaskInv
  <2>2. CallKnown' /\ KeptSaved' BY <1>2, KnownKeeps DEF ProgramInv
  <2>3. QuietTrue' BY <1>2, QuietKeeps DEF ProgramInv
  <2>4. RecoveryTrue' BY <1>2, RecoveryKeeps DEF ProgramInv
  <2> QED BY <2>1, <2>2, <2>3, <2>4 DEF ProgramInv
<1> QED BY <1>1, <1>2, PTL DEF ProgramSpec

-----------------------------------------------------------------------------
(* The theorems *)

\* Whichever calls failed, however the script went on and whenever the chip lost power,
\* a command knows at each of its steps what the outline of its script says.
THEOREM OutlinesHold == ProgramSpec => []OutlineTrue
<1>1. ASSUME ProgramInv PROVE OutlineTrue
  <2>1. SUFFICES ASSUME task.at > 0, task.script \in SafeScripts,
                        call.stage \notin EnableStages
                 PROVE  HoldNow(Known[task.script][task.at])
    BY DEF OutlineTrue, HoldNow, EnableStages
  <2>2. CallKnown /\ TaskTypeOK BY <1>1 DEF ProgramInv, TaskInv
  <2>3. HoldNow(Claimed(task)) BY <2>1, <2>2 DEF CallKnown, Ahead
  <2>4. Claimed(task) = Outline(Scripts[task.script])[task.at] BY <2>1 DEF Claimed
  <2>5. task.at \in DOMAIN Scripts[task.script].steps
    BY <2>1, <2>2, StepTyped DEF TheScript
  <2>6. Known[task.script][task.at] = Outline(Scripts[task.script])[task.at]
    BY <2>1, <2>5 DEF Known
  <2> QED BY <2>3, <2>4, <2>6
<1> QED BY <1>1, ProgramInvariants, PTL

\* However a command ends that had saved the latches and the directions, and whichever of
\* its calls failed, no pin is left driving a level of the diagnostic, unless the last
\* resort failed too: an output was one before, and has its saved latch, but for a latch
\* that a power loss has reset since.
THEOREM CommandsEndSafely == ProgramSpec => []SafeAtEnd
<1>1. ASSUME ProgramInv PROVE SafeAtEnd
  <2>1. SUFFICES ASSUME Done, {"OUTPUTS", "DIRECTIONS"} \subseteq task.kept, ~task.exposed,
                        NEW pin \in Pins
                 PROVE  \/ pin \in chip.regs["DIRECTIONS"]
                        \/ /\ pin \notin task.saved["DIRECTIONS"]
                           /\ \/ pin \in stale["OUTPUTS"]
                              \/ pin \in chip.regs["OUTPUTS"] <=> pin \in task.saved["OUTPUTS"]
    BY DEF SafeAtEnd
  <2>2. CallKnown /\ CallOfTask /\ task \in Tasks BY <1>1 DEF ProgramInv, TaskInv, TaskTypeOK
  <2>3. task.at = 0 /\ task.todo = {} BY <2>1, <2>2 DEF Done, Running, Tasks
  <2>4. call.stage = "IDLE" BY <2>2, <2>3 DEF CallOfTask, FirstOf
  <2>5. HoldNow(Claimed(task)) BY <2>2, <2>4 DEF CallKnown
  <2>6. Claimed(task) = RestoreKnown({}) BY <2>1, <2>3 DEF Claimed
  <2>7. "DIRECTIONS" \in RestoreKnown({}) /\ "LATCHES" \in RestoreKnown({}) BY DEF RestoreKnown
  <2>8. /\ task.saved["DIRECTIONS"] \subseteq chip.regs["DIRECTIONS"]
        /\ pin \in stale["OUTPUTS"] \/ PinSafe(task, pin, chip.regs)
    BY <2>1, <2>5, <2>6, <2>7 DEF HoldNow, FactsHold
  <2> QED BY <2>8 DEF PinSafe
<1> QED BY <1>1, ProgramInvariants, PTL

\* A command none of whose calls failed leaves the chip with every register pair that
\* it had saved as it found it, and the driver's shadow knows it.
THEOREM QuietCommandsRestore == ProgramSpec => []QuietEndIsRestored
<1>1. ASSUME ProgramInv PROVE QuietEndIsRestored
  <2>1. SUFFICES ASSUME Done, ~task.failed, NEW pair \in task.kept
                 PROVE  /\ pair \in ev.valid
                        /\ \A pin \in Pins \ stale[pair] :
                             pin \in chip.regs[pair] <=> pin \in task.saved[pair]
    BY DEF QuietEndIsRestored
  <2>2. task \in Tasks BY <1>1 DEF ProgramInv, TaskInv, TaskTypeOK
  <2>3. task.at = 0 /\ task.todo = {} BY <2>1, <2>2 DEF Done, Running, Tasks
  <2>4. Recorded(pair, task, ev) BY <1>1, <2>1, <2>3 DEF ProgramInv, QuietTrue, Returned, Done
  <2>5. ShadowSound BY <1>1 DEF ProgramInv, IInv
  <2> QED BY <2>2, <2>4, <2>5 DEF Recorded, ShadowSound, Tasks
<1> QED BY <1>1, ProgramInvariants, PTL

\* A recovery whose operation was admitted takes its result and leaves the slot empty:
\* its polls are as many as any apply, with its cleanup, has callbacks.
THEOREM RecoveriesDrain == ProgramSpec => []RecoveryDrains
<1>1. ProgramInv => RecoveryDrains
  BY DEF ProgramInv, RecoveryTrue, Recovering, RecoveryDrains, Running, TaskInv, TaskTypeOK, Tasks
<1> QED BY <1>1, ProgramInvariants, PTL

=============================================================================
