----------------------------- MODULE SyncCalls ------------------------------
(***************************************************************************)
(* The synchronous public calls.  Each action is one call up to the end of *)
(* its first callback; a call with more callbacks leaves the rest in       *)
(* `call`, and ContinueCall finishes it.  A call that a guard refuses, and *)
(* one with an empty mask, touches nothing: it is a stuttering step.  The  *)
(* Boolean overloads are the typed calls they forward to.                  *)
(***************************************************************************)
EXTENDS Driver

PortValues(port) == SUBSET PinsOf(port)

NonEmptyMasks == Values \ {{}}

\* Calls of one callback.
writePair(pair, value) ==
  /\ pair \in CallPairs
  /\ \E outcome \in WriteOutcome[3] : writePairTo(pair, value, outcome)
  /\ UNCHANGED <<bound, slot, call, late, owed>>

writePortOf(pair, port, value) ==
  /\ Ready
  /\ pair \in CallPairs
  /\ \E outcome \in WriteOutcome[2] :
       writePortTo(pair, port, value, withPort(ev.shadow[pair], port, value), outcome)
  /\ UNCHANGED <<bound, slot, call, late, owed>>

readWhole(pair) ==
  /\ Ready
  /\ pair \in CallPairs
  /\ \E outcome \in ReadOutcome[2] : readPair(pair, outcome)
  /\ UNCHANGED <<bound, slot, call, late, owed>>

readPortOf(pair, port) ==
  /\ Ready
  /\ pair \in CallPairs
  /\ \E outcome \in ReadOutcome[1] : readWritablePortRegister(pair, port, outcome)
  /\ UNCHANGED <<bound, slot, call, late, owed>>

-----------------------------------------------------------------------------
(* Output latches *)

writeOutputs(value) == Ready /\ writePair("OUTPUTS", value)

writeOutput(port, value) == writePortOf("OUTPUTS", port, value)

readOutputs == readWhole("OUTPUTS")

readOutput(port) == readPortOf("OUTPUTS", port)

readOutputPin(pin) == readOutput(PortOf[pin])

writePin(pin, high) ==
  /\ shadowStatus({"OUTPUTS"})
  /\ writePair("OUTPUTS", IF high THEN ev.shadow["OUTPUTS"] \cup {pin}
                                  ELSE ev.shadow["OUTPUTS"] \ {pin})

\* Only the full mask needs no shadow.
preloadOutputs(mask, values) ==
  /\ shadowStatus(IF mask = Pins THEN {} ELSE {"OUTPUTS"})
  /\ writePair("OUTPUTS", IF mask = Pins THEN values
                          ELSE Overlay(ev.shadow["OUTPUTS"], mask, values))

preloadOutput(pin, high) == preloadOutputs({pin}, IF high THEN {pin} ELSE {})

setOutputBits(mask) ==
  shadowStatus({"OUTPUTS"}) /\ writePair("OUTPUTS", ev.shadow["OUTPUTS"] \cup mask)

clearOutputBits(mask) ==
  shadowStatus({"OUTPUTS"}) /\ writePair("OUTPUTS", ev.shadow["OUTPUTS"] \ mask)

toggleOutputBits(mask) ==
  /\ shadowStatus({"OUTPUTS"})
  /\ writePair("OUTPUTS", (ev.shadow["OUTPUTS"] \ mask) \cup (mask \ ev.shadow["OUTPUTS"]))

togglePin(pin) == toggleOutputBits({pin})

-----------------------------------------------------------------------------
(* Directions.  A call that may enable an output writes the latches first,  *)
(* and goes on to the directions only when that write succeeded.            *)

\* Mistake: the directions are written although the preload failed.
preloadThenAlways(outcome, next) ==
  call' = next /\ UNCHANGED <<bound, slot, late, owed>>

\* The preload callback of such a call; next is the direction write it owes.
preloadThen(outcome, next) ==
  /\ call' = IF outcome.ok THEN next ELSE Idle
  /\ UNCHANGED <<bound, slot, late, owed>>

setConfiguration(directions) ==
  /\ Ready
  /\ "DIRECTIONS" \in CallPairs
  /\ IF directions = Pins THEN writePair("DIRECTIONS", directions)
     ELSE /\ shadowStatus({"OUTPUTS"})
          /\ \E outcome \in WriteOutcome[3] :
               /\ writePairTo("OUTPUTS", ev.shadow["OUTPUTS"], outcome)
               /\ preloadThen(outcome, Then("ENABLE_PAIR", directions, 0))

\* Mistake: a direction byte is written without regard to the latches behind it.
setPortDirectly(port, value) == writePortOf("DIRECTIONS", port, value)

setPortConfiguration(port, value) ==
  /\ Ready
  /\ "DIRECTIONS" \in CallPairs
  /\ IF value = PinsOf(port) THEN writePortOf("DIRECTIONS", port, value)
     ELSE /\ shadowStatus({"OUTPUTS"})
          /\ \E outcome \in WriteOutcome[2] :
               /\ writePortTo("OUTPUTS", port, portValue(ev.shadow["OUTPUTS"], port),
                              ev.shadow["OUTPUTS"], outcome)
               /\ preloadThen(outcome, Then("ENABLE_PORT", value, port))

getConfiguration == readWhole("DIRECTIONS")

checkPorDefaults == readWhole("DIRECTIONS")

getPortConfiguration(port) == readPortOf("DIRECTIONS", port)

getPinDirection(pin) == getPortConfiguration(PortOf[pin])

configureOutputs(mask, values) ==
  /\ shadowStatus({"OUTPUTS", "DIRECTIONS"})
  /\ "DIRECTIONS" \in CallPairs
  /\ \E outcome \in WriteOutcome[3] :
       /\ writePairTo("OUTPUTS", Overlay(ev.shadow["OUTPUTS"], mask, values), outcome)
       /\ preloadThen(outcome, Then("ENABLE_PAIR", ev.shadow["DIRECTIONS"] \ mask, 0))

configureInputBits(mask) ==
  shadowStatus({"DIRECTIONS"}) /\ writePair("DIRECTIONS", ev.shadow["DIRECTIONS"] \cup mask)

configureOutputBits(mask) == configureOutputs(mask, ev.shadow["OUTPUTS"])

setDirection(pin, input) ==
  IF input THEN configureInputBits({pin}) ELSE configureOutputBits({pin})

\* The direction write of setConfiguration and configureOutputs.
EnablePair ==
  /\ call.stage = "ENABLE_PAIR"
  /\ call' = Idle
  /\ \E outcome \in WriteOutcome[3] : writePairTo("DIRECTIONS", call.value, outcome)
  /\ UNCHANGED <<bound, slot, late, owed>>

\* The direction write of setPortConfiguration.
EnablePort ==
  /\ call.stage = "ENABLE_PORT"
  /\ call' = Idle
  /\ \E outcome \in WriteOutcome[2] :
       writePortTo("DIRECTIONS", call.port, call.value,
                   withPort(ev.shadow["DIRECTIONS"], call.port, call.value), outcome)
  /\ UNCHANGED <<bound, slot, late, owed>>

-----------------------------------------------------------------------------
(* Polarity *)

setPolarity(value) == Ready /\ writePair("POLARITY", value)

setPortPolarity(port, value) == writePortOf("POLARITY", port, value)

getPolarity == readWhole("POLARITY")

getPortPolarity(port) == readPortOf("POLARITY", port)

getPinPolarity(pin) == getPortPolarity(PortOf[pin])

setInvertBits(mask) ==
  shadowStatus({"POLARITY"}) /\ writePair("POLARITY", ev.shadow["POLARITY"] \cup mask)

clearInvertBits(mask) ==
  shadowStatus({"POLARITY"}) /\ writePair("POLARITY", ev.shadow["POLARITY"] \ mask)

setPinPolarity(pin, inverted) ==
  IF inverted THEN setInvertBits({pin}) ELSE clearInvertBits({pin})

-----------------------------------------------------------------------------
(* Raw register access.  Writes reach outputs and polarity only; the pair's  *)
(* shadow is given up before the attempt, and only a write of both bytes     *)
(* establishes a new one.                                                    *)

RawWritablePairs == WritablePairs \ {"DIRECTIONS"}

rawWrite(pair, first, length, value) ==
  /\ Ready
  /\ pair \in RawWritablePairs \cap CallPairs
  /\ \E outcome \in WriteOutcome[length + 1] :
       /\ Write(pair, first, value, outcome)
       /\ ev' = writeRegs([ev EXCEPT !.valid = @ \ {pair}], pair, value, length = 2, outcome)
  /\ UNCHANGED <<bound, slot, call, late, owed>>

writeRegisters(pair, first, value) == rawWrite(pair, first, 2, value)

writeRegister(pair, first, value) == rawWrite(pair, first, 1, value)

readRegisters(pair) == pair \in WritablePairs /\ readWhole(pair)

readRegister(pair, port) == pair \in WritablePairs /\ readPortOf(pair, port)

-----------------------------------------------------------------------------
(* readObservedState: three pair reads, given up at the first failure *)

observe(pair, next) ==
  /\ \E outcome \in ReadOutcome[2] :
       /\ readPair(pair, outcome)
       /\ call' = IF outcome.ok THEN Then(next, {}, 0) ELSE Idle
  /\ UNCHANGED <<bound, slot, late, owed>>

readObservedState ==
  Ready /\ "OUTPUTS" \in CallPairs /\ observe("OUTPUTS", "OBSERVE_POLARITY")

ObserveOn ==
  \/ call.stage = "OBSERVE_POLARITY" /\ observe("POLARITY", "OBSERVE_DIRECTIONS")
  \/ call.stage = "OBSERVE_DIRECTIONS" /\ observe("DIRECTIONS", "IDLE")

-----------------------------------------------------------------------------
(* Input reads, each followed by the pointer park that the interrupt erratum *)
(* asks for unless the command byte provably never arrived.  readRegister    *)
(* and readRegisters of the input pair are the same two callbacks.           *)

\* Mistake: only a successful input read is followed by the park.
parkOnlyAfterSuccess(whole, seen, outcome) ==
  /\ readInputRegisters(whole, outcome)
  /\ call' = IF outcome.ok THEN Then(seen, {}, 0) ELSE Idle
  /\ UNCHANGED <<bound, slot, late, owed>>

inputReadThen(whole, seen, outcome) ==
  /\ readInputRegisters(whole, outcome)
  /\ call' = CASE outcome.effect = "NOT_ATTEMPTED" -> Idle
               [] outcome.effect # "NOT_ATTEMPTED" /\ outcome.ok -> Then(seen, {}, 0)
               [] OTHER -> Then("PARK_NOTHING", {}, 0)
  /\ UNCHANGED <<bound, slot, late, owed>>

\* readInputs, readInputsAndClearInterrupt and clearInterrupts.
readInputs ==
  /\ Ready
  /\ "INPUTS" \in CallPairs
  /\ \E outcome \in ReadOutcome[2] : inputReadThen(TRUE, "PARK_PAIR", outcome)

readInput ==
  /\ Ready
  /\ "INPUTS" \in CallPairs
  /\ \E outcome \in ReadOutcome[1] : inputReadThen(FALSE, "PARK_PORT", outcome)

readPin == readInput

ParkAfterRead ==
  /\ call.stage \in {"PARK_NOTHING", "PARK_PAIR", "PARK_PORT"}
  /\ call' = Idle
  /\ \E outcome \in WriteOutcome[1] : parkPointer(outcome)
  /\ ev' = CASE call.stage = "PARK_PAIR" -> recordInputs(ev)
             [] call.stage = "PARK_PORT" -> syncInputs(ev)
             [] OTHER -> ev
  /\ UNCHANGED <<bound, slot, late, owed>>

applyInterruptErrataWorkaround ==
  /\ Ready
  /\ \E outcome \in WriteOutcome[1] : parkPointer(outcome)
  /\ UNCHANGED <<bound, ev, slot, call, late, owed>>

\* The address check: the command byte of the direction pair, nothing else.
probe ==
  /\ Ready
  /\ \E outcome \in WriteOutcome[1] : Command("DIRECTIONS", outcome)
  /\ UNCHANGED <<bound, ev, slot, call, late, stale, owed>>

-----------------------------------------------------------------------------
(* The calls, with every argument *)

PinCall(pin) ==
  \/ \E high \in BOOLEAN : writePin(pin, high) \/ preloadOutput(pin, high)
  \/ \E input \in BOOLEAN : setDirection(pin, input)
  \/ \E inverted \in BOOLEAN : setPinPolarity(pin, inverted)
  \/ togglePin(pin) \/ readOutputPin(pin) \/ getPinDirection(pin) \/ getPinPolarity(pin)

PortCall(port) ==
  \/ \E value \in PortValues(port) :
       \/ writeOutput(port, value) \/ setPortConfiguration(port, value)
       \/ setPortPolarity(port, value)
       \/ \E pair \in CallPairs : writeRegister(pair, port, value)
  \/ readOutput(port) \/ getPortConfiguration(port) \/ getPortPolarity(port)
  \/ \E pair \in CallPairs : readRegister(pair, port)

MaskCall(mask) ==
  \/ \E values \in Values : preloadOutputs(mask, values) \/ configureOutputs(mask, values)
  \/ setOutputBits(mask) \/ clearOutputBits(mask) \/ toggleOutputBits(mask)
  \/ configureInputBits(mask) \/ configureOutputBits(mask)
  \/ setInvertBits(mask) \/ clearInvertBits(mask)

PairCall ==
  \/ \E value \in Values :
       \/ writeOutputs(value) \/ setConfiguration(value) \/ setPolarity(value)
       \/ \E pair \in CallPairs, first \in Ports : writeRegisters(pair, first, value)
  \/ readOutputs \/ getConfiguration \/ checkPorDefaults \/ getPolarity
  \/ \E pair \in CallPairs : readRegisters(pair)
  \/ readObservedState \/ readInputs \/ readInput \/ readPin
  \/ applyInterruptErrataWorkaround \/ probe

SyncCall ==
  \/ \E pin \in Pins : PinCall(pin)
  \/ \E port \in Ports : PortCall(port)
  \/ \E mask \in NonEmptyMasks : MaskCall(mask)
  \/ PairCall

ContinueCall == EnablePair \/ EnablePort \/ ObserveOn \/ ParkAfterRead

=============================================================================
