------------------------- MODULE Diagnostics_proofs -------------------------
(***************************************************************************)
(* The example programs, for any scripts of the shape DiagnosticSteps      *)
(* gives them: they make no step that the driver does not make, so that    *)
(* everything proved of the driver holds below them; and what they restore *)
(* after a failure never enables an output on the diagnostic's pattern.    *)
(*                                                                         *)
(* TaskInv is the invariant: what a restore routine has established when   *)
(* it comes to the directions, and which calls can be in progress.         *)
(***************************************************************************)
EXTENDS Diagnostics, PCA9555_proofs

-----------------------------------------------------------------------------
(* Calls and steps have their shape. *)

\* A call of a script, by its operation.
LEMMA CallShape ==
  ASSUME NEW c \in DriverCalls
  PROVE  /\ c.op \in {"READ", "SAVE"} => c.pair \in WritablePairs
         /\ c.op \in {"READ_PORT", "SAVE_PORT"} => c.pair \in WritablePairs /\ c.port \in Ports
         /\ c.op = "SAVE_PORT" => c.port = 0
         /\ c.op = "WRITE" =>
              /\ c.value \in {"ANY", "LOW", "SAVED", "SET", "CLEAR", "TOGGLE"}
              /\ \/ c.pair \in {"OUTPUTS", "POLARITY"}
                 \/ c.pair = "DIRECTIONS" /\ c.value = "SET"
         /\ c.op = "WRITE_PORT" =>
              c.pair \in {"OUTPUTS", "POLARITY"} /\ c.port \in Ports /\ c.value = "ANY"
         /\ c.op = "WRITE_RAW" =>
              c.pair \in {"OUTPUTS", "POLARITY"} /\ c.port = 0 /\ c.value \in {"ANY", "SAVED"}
         /\ c.op = "WRITE_RAW_PORT" =>
              /\ c.pair \in {"OUTPUTS", "POLARITY"} /\ c.port \in Ports
              /\ c.value = "ANY" \/ (c.value = "SAVED" /\ c.port = 0)
         /\ c.op = "DIRECT" => c.value \in {"HIGH", "LOW", "SAVED", "CLEAR"}
         /\ c.op = "DIRECT_PORT" => c.port \in Ports /\ c.value = "ANY"
<1>1. CASE c \in PairCalls BY <1>1 DEF PairCalls, WritablePairs
<1>2. CASE c \in PortCalls
  <2>1. CASE c.op = "READ_PORT" \/ c.op = "SAVE_PORT" BY <1>2, <2>1 DEF PortCalls, Ports, WritablePairs
  <2>2. CASE c.op = "WRITE_PORT" BY <1>2, <2>2 DEF PortCalls
  <2>3. CASE c.op = "WRITE_RAW_PORT" BY <1>2, <2>3 DEF PortCalls, Ports
  <2>4. CASE c.op = "DIRECT_PORT" BY <1>2, <2>4 DEF PortCalls
  <2>5. c.op \in {"READ_PORT", "SAVE_PORT", "WRITE_PORT", "WRITE_RAW_PORT", "DIRECT_PORT"}
    BY <1>2 DEF PortCalls
  <2> QED BY <2>1, <2>2, <2>3, <2>4, <2>5
<1>3. CASE c \in OtherCalls
  BY <1>3 DEF OtherCalls, Probe, ReadInputs, ReadInputPort, Call
<1> QED BY <1>1, <1>2, <1>3 DEF DriverCalls

StepType == [calls : SUBSET DriverCalls, skip : Nat, stop : BOOLEAN, restore : DOMAIN Routine]

\* The script in progress and the step it has come to.
LEMMA StepTyped ==
  ASSUME TaskTypeOK, task.at > 0
  PROVE  /\ task.script \in DOMAIN Scripts /\ task.script # "NONE" /\ task.at \in 1..Len(TheScript.steps)
         /\ TheScript.steps \in Seq(StepType)
         /\ TheScript.loops \subseteq [first : Nat \ {0}, last : Nat, early : BOOLEAN]
         /\ TheScript.finally \in DOMAIN Routine
         /\ TheStep \in StepType
<1>1. task \in Tasks /\ task.script # "NONE" /\ task.at <= Len(TheScript.steps)
  BY DEF TaskTypeOK
<1>2. task.script \in DOMAIN Scripts /\ task.at \in Nat BY <1>1 DEF Tasks
<1>3. /\ TheScript.steps \in Seq(StepType)
      /\ TheScript.loops \subseteq [first : Nat \ {0}, last : Nat, early : BOOLEAN]
      /\ TheScript.finally \in DOMAIN Routine
  BY <1>2, ScriptAssumption DEF ScriptAssumption, TheScript, StepType
<1>4. Len(TheScript.steps) \in Nat /\ task.at \in 1..Len(TheScript.steps)
  BY <1>1, <1>2, <1>3
<1>5. TheStep \in StepType BY <1>3, <1>4 DEF TheStep
<1> QED BY <1>1, <1>2, <1>3, <1>4, <1>5

\* The calls of the restore routines.
LEMMA RestoreCalls ==
  ASSUME NEW phases
  PROVE  /\ FirstOf(phases) \in Phases
         /\ RestoreCall[FirstOf(phases)] \in DriverCalls
<1>1. FirstOf(phases) \in Phases BY DEF FirstOf, Phases
<1>2. WritePair("OUTPUTS", "SAVED") \in DriverCalls /\ WritePair("POLARITY", "SAVED") \in DriverCalls
  BY DEF DriverCalls, PairCalls, WritePair, Call
<1>3. SetDirections("SAVED") \in DriverCalls /\ SetDirections("HIGH") \in DriverCalls
  BY DEF DriverCalls, PairCalls, SetDirections, Call
<1> QED BY <1>1, <1>2, <1>3 DEF RestoreCall, Phases

\* Whatever is due is such a call.
LEMMA DueCalls ==
  ASSUME TaskTypeOK, NEW c \in Due
  PROVE  c \in DriverCalls
<1>1. CASE task.at > 0
  BY <1>1, StepTyped DEF Due, StepType
<1>2. CASE ~(task.at > 0)
  BY <1>2, RestoreCalls DEF Due
<1> QED BY <1>1, <1>2

-----------------------------------------------------------------------------
(* A program's step is a step of the driver. *)

\* A named value is a pair's value.
LEMMA MeantTyped ==
  ASSUME IInv, TaskTypeOK, NEW pair \in WritablePairs,
         NEW name \in {"LOW", "HIGH", "ANY", "SAVED", "SET", "CLEAR", "TOGGLE"}
  PROVE  Meant(pair, name) \subseteq Values
<1>1. /\ ev.shadow[pair] \in Values /\ task.saved[pair] \in Values
      /\ \A mask \in NonEmptyMasks : mask \in Values
  BY DEF IInv, TypeOK, Evidence, TaskTypeOK, Tasks, Images, NonEmptyMasks
<1>2. \A mask \in NonEmptyMasks :
        /\ ev.shadow[pair] \cup mask \in Values /\ ev.shadow[pair] \ mask \in Values
        /\ Toggled(ev.shadow[pair], mask) \in Values
  BY <1>1 DEF Values, Toggled
<1>3. {} \in Values /\ Pins \in Values BY DEF Values
<1> QED BY <1>1, <1>2, <1>3 DEF Meant

\* So is a port's byte.
LEMMA PortMeantTyped ==
  ASSUME TaskTypeOK, NEW port \in Ports, NEW name, name = "ANY" \/ (name = "SAVED" /\ port = 0)
  PROVE  PortMeant(port, name) \subseteq PortValues(port)
BY DEF PortMeant, PortValues, TaskTypeOK, Tasks

\* A probe, and the reads.
LEMMA ReadsAreCalls ==
  ASSUME NEW c \in DriverCalls, Ready, probeCall(c) \/ readCall(c) \/ saveCall(c) \/ readPortCall(c)
  PROVE  SyncCall
<1>1. CASE probeCall(c)
  <2>1. probe BY <1>1 DEF probeCall, probe, Answered, Keeps
  <2> QED BY <2>1 DEF SyncCall, PairCall
<1>2. CASE readCall(c) \/ saveCall(c)
  <2>1. c.pair \in WritablePairs BY <1>2, CallShape DEF readCall, saveCall
  <2>2. c.pair \in CallPairs BY <2>1, ProgramAssumption DEF ProgramAssumption, Pairs
  <2>3. readRegisters(c.pair)
    BY <1>2, <2>1, <2>2 DEF readCall, saveCall, readRegisters, readWhole, Answered, Keeps
  <2> QED BY <2>2, <2>3 DEF SyncCall, PairCall
<1>3. CASE readPortCall(c)
  <2>1. c.pair \in WritablePairs /\ c.port \in Ports BY <1>3, CallShape DEF readPortCall
  <2>2. c.pair \in CallPairs BY <2>1, ProgramAssumption DEF ProgramAssumption, Pairs
  <2>3. readRegister(c.pair, c.port)
    BY <1>3, <2>1, <2>2 DEF readPortCall, readRegister, readPortOf, Keeps
  <2> QED BY <2>1, <2>2, <2>3 DEF SyncCall, PortCall
<1> QED BY <1>1, <1>2, <1>3

\* The writes of whole pairs,
LEMMA WriteIsCall ==
  ASSUME IInv, TaskTypeOK, NEW c \in DriverCalls, writeCall(c)
  PROVE  SyncCall
<1>1. /\ c.value \in {"ANY", "LOW", "SAVED", "SET", "CLEAR", "TOGGLE"}
      /\ c.pair \in {"OUTPUTS", "POLARITY"} \/ (c.pair = "DIRECTIONS" /\ c.value = "SET")
  BY CallShape DEF writeCall
<1>2. PICK value \in Meant(c.pair, c.value) :
        \E outcome \in WriteOutcome[3] : writePairTo(c.pair, value, outcome) /\ Answered(outcome.ok)
  BY DEF writeCall
<1>3. c.pair \in WritablePairs BY <1>1 DEF WritablePairs
<1>4. value \in Values BY <1>1, <1>2, <1>3, MeantTyped
<1>5. c.pair \in CallPairs BY <1>3, ProgramAssumption DEF ProgramAssumption, Pairs
<1>6. writePair(c.pair, value) BY <1>2, <1>5 DEF writePair, Answered, Keeps
<1>7. shadowStatus(Needs(c.pair, c.value)) /\ Ready BY DEF writeCall, shadowStatus
<1>8. CASE c.pair = "OUTPUTS"
  <2>1. writeOutputs(value) BY <1>6, <1>7, <1>8 DEF writeOutputs
  <2> QED BY <1>4, <2>1 DEF SyncCall, PairCall
<1>9. CASE c.pair = "POLARITY"
  <2>1. setPolarity(value) BY <1>6, <1>7, <1>9 DEF setPolarity
  <2> QED BY <1>4, <2>1 DEF SyncCall, PairCall
<1>10. CASE c.pair = "DIRECTIONS" /\ c.value = "SET"
  <2>1. PICK mask \in NonEmptyMasks : value = ev.shadow["DIRECTIONS"] \cup mask
    BY <1>2, <1>10 DEF Meant
  <2>2. configureInputBits(mask) BY <1>6, <1>7, <1>10, <2>1 DEF configureInputBits, Needs
  <2> QED BY <2>2 DEF SyncCall, MaskCall
<1> QED BY <1>1, <1>8, <1>9, <1>10

\* and of single bytes,
LEMMA WritePortIsCall ==
  ASSUME TaskTypeOK, NEW c \in DriverCalls, Ready, writePortCall(c)
  PROVE  SyncCall
<1>1. c.pair \in {"OUTPUTS", "POLARITY"} /\ c.port \in Ports /\ c.value = "ANY"
  BY CallShape DEF writePortCall
<1>2. PICK value \in PortMeant(c.port, c.value) :
        \E outcome \in WriteOutcome[2] :
          /\ writePortTo(c.pair, c.port, value, withPort(ev.shadow[c.pair], c.port, value), outcome)
          /\ Answered(outcome.ok)
  BY DEF writePortCall
<1>3. value \in PortValues(c.port) BY <1>1, <1>2, PortMeantTyped
<1>4. c.pair \in CallPairs
  BY <1>1, ProgramAssumption DEF ProgramAssumption, Pairs, WritablePairs
<1>5. writePortOf(c.pair, c.port, value) BY <1>2, <1>4 DEF writePortOf, Answered, Keeps
<1>6. CASE c.pair = "OUTPUTS"
  <2>1. writeOutput(c.port, value) BY <1>5, <1>6 DEF writeOutput
  <2> QED BY <1>1, <1>3, <2>1 DEF SyncCall, PortCall
<1>7. CASE c.pair = "POLARITY"
  <2>1. setPortPolarity(c.port, value) BY <1>5, <1>7 DEF setPortPolarity
  <2> QED BY <1>1, <1>3, <2>1 DEF SyncCall, PortCall
<1> QED BY <1>1, <1>6, <1>7

\* the raw writes,
LEMMA WriteRawIsCall ==
  ASSUME IInv, TaskTypeOK, NEW c \in DriverCalls, Ready, writeRawCall(c)
  PROVE  SyncCall
<1>1. c.pair \in {"OUTPUTS", "POLARITY"} /\ c.op \in {"WRITE_RAW", "WRITE_RAW_PORT"}
  BY CallShape DEF writeRawCall
<1>2. c.pair \in CallPairs /\ c.pair \in RawWritablePairs /\ c.pair \in WritablePairs
  BY <1>1, ProgramAssumption DEF ProgramAssumption, Pairs, WritablePairs, RawWritablePairs
<1>3. CASE c.op = "WRITE_RAW"
  <2>1. c.port = 0 /\ c.value \in {"ANY", "SAVED"} BY <1>3, CallShape
  <2>2. PICK value \in Meant(c.pair, c.value), outcome \in WriteOutcome[3] :
          /\ Write(c.pair, c.port, value, outcome)
          /\ ev' = writeRegs([ev EXCEPT !.valid = @ \ {c.pair}], c.pair, value, TRUE, outcome)
          /\ Answered(outcome.ok)
    BY <1>3 DEF writeRawCall
  <2>3. value \in Values BY <1>2, <2>1, <2>2, MeantTyped
  <2>4. rawWrite(c.pair, 0, 2, value)
    <3>1. 2 + 1 = 3 /\ (2 = 2) = TRUE OBVIOUS
    <3>2. \E o \in WriteOutcome[2 + 1] :
            /\ Write(c.pair, 0, value, o)
            /\ ev' = writeRegs([ev EXCEPT !.valid = @ \ {c.pair}], c.pair, value, 2 = 2, o)
      BY <2>1, <2>2, <3>1 DEF writeRegs
    <3>3. UNCHANGED <<bound, slot, call, late, owed>> BY <2>2 DEF Answered, Keeps
    <3> QED BY <1>2, <3>2, <3>3, Zenon DEF rawWrite
  <2>5. writeRegisters(c.pair, 0, value) BY <2>4 DEF writeRegisters
  <2> QED BY <1>2, <2>3, <2>5 DEF SyncCall, PairCall, Ports
<1>4. CASE c.op = "WRITE_RAW_PORT"
  <2>1. c.port \in Ports /\ (c.value = "ANY" \/ (c.value = "SAVED" /\ c.port = 0))
    BY <1>4, CallShape
  <2>2. PICK value \in PortMeant(c.port, c.value), outcome \in WriteOutcome[2] :
          /\ Write(c.pair, c.port, value, outcome)
          /\ ev' = writeRegs([ev EXCEPT !.valid = @ \ {c.pair}], c.pair, value, FALSE, outcome)
          /\ Answered(outcome.ok)
    BY <1>4 DEF writeRawCall
  <2>3. value \in PortValues(c.port) BY <2>1, <2>2, PortMeantTyped
  <2>4. rawWrite(c.pair, c.port, 1, value)
    <3>1. 1 + 1 = 2 /\ (1 = 2) = FALSE OBVIOUS
    <3>2. \E o \in WriteOutcome[1 + 1] :
            /\ Write(c.pair, c.port, value, o)
            /\ ev' = writeRegs([ev EXCEPT !.valid = @ \ {c.pair}], c.pair, value, 1 = 2, o)
      BY <2>2, <3>1 DEF writeRegs
    <3>3. UNCHANGED <<bound, slot, call, late, owed>> BY <2>2 DEF Answered, Keeps
    <3> QED BY <1>2, <3>2, <3>3, Zenon DEF rawWrite
  <2>5. writeRegister(c.pair, c.port, value) BY <2>4 DEF writeRegister
  <2> QED BY <1>2, <2>1, <2>3, <2>5 DEF SyncCall, PortCall
<1> QED BY <1>1, <1>3, <1>4

\* the reads of the inputs,
LEMMA InputIsCall ==
  ASSUME Ready, NEW c, inputCall(c)
  PROVE  SyncCall
<1>1. "INPUTS" \in CallPairs BY ProgramAssumption DEF ProgramAssumption, Pairs
<1>2. CASE c.op = "INPUTS"
  <2>1. readInputs BY <1>1, <1>2 DEF inputCall, readInputs
  <2> QED BY <2>1 DEF SyncCall, PairCall
<1>3. CASE c.op = "INPUT_PORT"
  <2>1. readInput BY <1>1, <1>3 DEF inputCall, readInput
  <2> QED BY <2>1 DEF SyncCall, PairCall
<1> QED BY <1>2, <1>3 DEF inputCall

\* and the calls that set directions.
LEMMA DirectIsCall ==
  ASSUME IInv, TaskTypeOK, NEW c \in DriverCalls, Ready, directCall(c)
  PROVE  SyncCall
<1>1. PICK value \in Meant("DIRECTIONS", c.value), outcome \in WriteOutcome[3] :
        IF value = Pins
        THEN writePairTo("DIRECTIONS", value, outcome) /\ Answered(outcome.ok)
        ELSE /\ shadowStatus({"OUTPUTS"} \cup Needs("DIRECTIONS", c.value))
             /\ writePairTo("OUTPUTS", ev.shadow["OUTPUTS"], outcome)
             /\ Preloaded(outcome, Then("ENABLE_PAIR", value, 0))
  BY DEF directCall
<1>2. value \in Values
  BY <1>1, MeantTyped, CallShape DEF directCall, WritablePairs
<1>3. "DIRECTIONS" \in CallPairs
  BY ProgramAssumption DEF ProgramAssumption, Pairs, WritablePairs
<1>4. CASE value = Pins
  <2>1. setConfiguration(value)
    BY <1>1, <1>3, <1>4 DEF setConfiguration, writePair, Answered, Keeps
  <2> QED BY <1>2, <2>1 DEF SyncCall, PairCall
<1>5. CASE value # Pins
  <2>1. shadowStatus({"OUTPUTS"}) BY <1>1, <1>5 DEF shadowStatus
  <2>2. setConfiguration(value)
    BY <1>1, <1>3, <1>5, <2>1 DEF setConfiguration, Preloaded
  <2> QED BY <1>2, <2>2 DEF SyncCall, PairCall
<1> QED BY <1>4, <1>5

LEMMA DirectPortIsCall ==
  ASSUME TaskTypeOK, NEW c \in DriverCalls, Ready, directPortCall(c)
  PROVE  SyncCall
<1>1. c.port \in Ports /\ c.value = "ANY" BY CallShape DEF directPortCall
<1>2. PICK value \in PortMeant(c.port, c.value), outcome \in WriteOutcome[2] :
        IF value = PinsOf(c.port)
        THEN /\ writePortTo("DIRECTIONS", c.port, value,
                            withPort(ev.shadow["DIRECTIONS"], c.port, value), outcome)
             /\ Answered(outcome.ok)
        ELSE /\ shadowStatus({"OUTPUTS"})
             /\ writePortTo("OUTPUTS", c.port, portValue(ev.shadow["OUTPUTS"], c.port),
                            ev.shadow["OUTPUTS"], outcome)
             /\ Preloaded(outcome, Then("ENABLE_PORT", value, c.port))
  BY DEF directPortCall
<1>3. value \in PortValues(c.port) BY <1>1, <1>2, PortMeantTyped
<1>4. "DIRECTIONS" \in CallPairs
  BY ProgramAssumption DEF ProgramAssumption, Pairs, WritablePairs
<1>5. setPortConfiguration(c.port, value)
  <2>1. CASE value = PinsOf(c.port)
    BY <1>2, <1>4, <2>1 DEF setPortConfiguration, writePortOf, Answered, Keeps
  <2>2. CASE value # PinsOf(c.port)
    BY <1>2, <1>4, <2>2 DEF setPortConfiguration, Preloaded
  <2> QED BY <2>1, <2>2
<1> QED BY <1>1, <1>3, <1>5 DEF SyncCall, PortCall

\* The driver's part of a script's step.
LEMMA CallIsStep ==
  ASSUME IInv, TaskTypeOK, NEW c \in DriverCalls, DriverCall(c)
  PROVE  SyncCall \/ UNCHANGED vars
<1>1. CASE Ready /\ (probeCall(c) \/ readCall(c) \/ saveCall(c) \/ readPortCall(c))
  BY <1>1, ReadsAreCalls
<1>2. CASE Ready /\ (writeCall(c) \/ writePortCall(c) \/ writeRawCall(c) \/ inputCall(c))
  BY <1>2, WriteIsCall, WritePortIsCall, WriteRawIsCall, InputIsCall
<1>3. CASE Ready /\ (directCall(c) \/ directPortCall(c))
  BY <1>3, DirectIsCall, DirectPortIsCall
<1>4. CASE refusedCall(c)
  BY <1>4 DEF refusedCall
<1> QED BY <1>1, <1>2, <1>3, <1>4 DEF DriverCall

\* The recovery starts, polls and takes as any owner may.
LEMMA RecoveryIsStep ==
  ASSUME IInv, NEW c, RecoveryCall(c)
  PROVE  OperationCall \/ UNCHANGED vars
<1>1. CASE startCall(c)
  <2>1. CASE start("APPLY_IMAGE", PorImage, "APPLY_OUTPUTS")
    <3>1. PorImage \in CallerImages BY ProgramAssumption DEF ProgramAssumption
    <3>2. startApplyImage BY <2>1, <3>1 DEF startApplyImage
    <3> QED BY <3>2 DEF OperationCall
  <2> QED BY <1>1, <2>1 DEF startCall
<1>2. CASE pollCall(c)
  <2>1. CASE slot.active
    <3>1. 1 \in 1..Remaining BY <2>1, RemainingBound DEF MaxBudget
    <3>2. \E budget \in Budgets : 1 <= budget BY ProgramAssumption DEF ProgramAssumption
    <3>3. pollOperation BY <1>2, <2>1, <3>1, <3>2 DEF pollCall, pollOperation
    <3> QED BY <3>3 DEF OperationCall
  <2>2. CASE ~slot.active BY <1>2, <2>2 DEF pollCall
  <2> QED BY <2>1, <2>2
<1>3. CASE takeCall(c)
  BY <1>3 DEF takeCall, OperationCall
<1> QED BY <1>1, <1>2, <1>3 DEF RecoveryCall

\* The second callback of a call.
LEMMA FinishIsStep ==
  ASSUME Finish
  PROVE  ContinueCall
<1>1. CASE call.stage = "ENABLE_PAIR"
  <2>1. EnablePair BY <1>1 DEF Finish, EnablePair, Keeps
  <2> QED BY <2>1 DEF ContinueCall
<1>2. CASE call.stage = "ENABLE_PORT"
  <2>1. EnablePort BY <1>2 DEF Finish, EnablePort, Keeps
  <2> QED BY <2>1 DEF ContinueCall
<1>3. CASE call.stage \in {"PARK_NOTHING", "PARK_PAIR", "PARK_PORT"}
  <2>1. ParkAfterRead BY <1>3 DEF Finish, ParkAfterRead, Keeps
  <2> QED BY <2>1 DEF ContinueCall
<1> QED BY <1>1, <1>2, <1>3 DEF Finish

\* Whatever a program does is a step of the driver, or none of its steps.
LEMMA ProgramStep ==
  ASSUME IInv, TaskTypeOK, [ProgramNext]_<<vars, task>>
  PROVE  [Next]_vars
<1>1. CASE Setup BY <1>1 DEF Setup, Next, OperationCall
<1>2. CASE \E name \in DOMAIN Scripts : Begin(name) BY <1>2 DEF Begin
<1>3. CASE Prompt BY <1>3 DEF Prompt
<1>4. CASE Work
  <2>1. CASE \E c \in Due : DriverCall(c) \/ RecoveryCall(c)
    BY <2>1, DueCalls, CallIsStep, RecoveryIsStep DEF Next
  <2>2. CASE Finish BY <2>2, FinishIsStep DEF Next
  <2>3. CASE transferCall BY <2>3 DEF transferCall, Next, OperationCall
  <2> QED BY <1>4, <2>1, <2>2, <2>3 DEF Work
<1>5. CASE Around BY <1>5 DEF Around, Next
<1>6. CASE UNCHANGED <<vars, task>> BY <1>6
<1> QED BY <1>1, <1>2, <1>3, <1>4, <1>5, <1>6 DEF ProgramNext

-----------------------------------------------------------------------------
(* A program's state has its types. *)

Same(t) == t.script = task.script /\ t.at = task.at /\ t.todo = task.todo

\* The start of a restore routine.
LEMMA RestoringTyped ==
  ASSUME NEW t \in Tasks, NEW routine \in DOMAIN Routine
  PROVE  /\ Restoring(t, routine) \in Tasks /\ Restoring(t, routine).at = 0
         /\ "DIRECTION" \in Restoring(t, routine).todo => "LATCH" \in Restoring(t, routine).todo
<1>1. /\ Routine[routine] \subseteq Phases
      /\ "DIRECTION" \in Routine[routine] => "LATCH" \in Routine[routine]
  BY DEF Routine, Phases
<1> DEFINE lost == routine = "LAST_RESORT" /\ t.saved["DIRECTIONS"] = Pins
           todo == IF lost \/ (routine = "LATCH" /\ t.saved["OUTPUTS"] = {}) THEN {}
                   ELSE Routine[routine]
           exposed == t.exposed \/ lost
<1>2. Restoring(t, routine) = [t EXCEPT !.at = 0, !.todo = todo, !.exposed = exposed]
  BY Zenon DEF Restoring
<1>3. todo \subseteq Phases /\ ("DIRECTION" \in todo => "LATCH" \in todo) BY <1>1
<1>4. exposed \in BOOLEAN OBVIOUS
<1> HIDE DEF todo, exposed
<1>5. [t EXCEPT !.at = 0, !.todo = todo, !.exposed = exposed] \in Tasks
  BY <1>3, <1>4 DEF Tasks
<1>6. Restoring(t, routine).at = 0 /\ Restoring(t, routine).todo = todo
  BY <1>2 DEF Tasks
<1> QED BY <1>2, <1>3, <1>5, <1>6

\* The places to go on to.
LEMMA OnwardTyped ==
  ASSUME TaskTypeOK, task.at > 0, NEW n \in Nat, NEW next \in Onward(TheScript, task.at, n)
  PROVE  next \in Nat /\ next > 0
<1>1. task.at \in Nat BY DEF TaskTypeOK, Tasks
<1>2. \A loop \in TheScript.loops : loop.first \in Nat \ {0} /\ loop.last \in Nat
  BY StepTyped
<1> QED BY <1>1, <1>2 DEF Onward

\* A script that goes on, or restores: when it restores, it begins with the latches.
LEMMA GoToTyped ==
  ASSUME TaskTypeOK, task.at > 0, NEW t \in Tasks, t.script = task.script,
         NEW next \in Nat, next > 0
  PROVE  LET u == GoTo(t, next) IN
         /\ u \in Tasks
         /\ u.at > 0 => u.script # "NONE" /\ u.at <= Len(Scripts[u.script].steps)
         /\ u.at = 0 /\ "DIRECTION" \in u.todo => "LATCH" \in u.todo
<1>1. TheScript.finally \in DOMAIN Routine /\ task.script # "NONE" BY StepTyped
<1>2. CASE next <= Len(Scripts[t.script].steps)
  <2>1. GoTo(t, next) = [t EXCEPT !.at = next] BY <1>2 DEF GoTo
  <2> QED BY <1>1, <1>2, <2>1 DEF Tasks
<1>3. CASE ~(next <= Len(Scripts[t.script].steps))
  <2>1. GoTo(t, next) = Restoring(t, TheScript.finally) BY <1>3 DEF GoTo, TheScript
  <2> QED BY <1>1, <2>1, RestoringTyped
<1> QED BY <1>2, <1>3

\* A call of a script returns.
LEMMA StepReturns ==
  ASSUME TaskTypeOK, task.at > 0, NEW t \in Tasks, Same(t), NEW ok \in BOOLEAN, ReturnsNoting(t, ok)
  PROVE  /\ TaskTypeOK'
         /\ task'.at = 0 /\ "DIRECTION" \in task'.todo => "LATCH" \in task'.todo
<1>1. task' \in AfterStep(t, ok) BY DEF ReturnsNoting
<1>2. TheStep.restore \in DOMAIN Routine /\ TheStep.skip \in Nat BY StepTyped DEF StepType
<1>3. CASE ~ok /\ TheStep.stop
  <2> DEFINE u == [t EXCEPT !.failed = TRUE]
  <2>1. u \in Tasks BY DEF Tasks
  <2>2. task' = Restoring(u, TheStep.restore) BY <1>1, <1>3 DEF AfterStep
  <2> HIDE DEF u
  <2> QED BY <1>2, <2>1, <2>2, RestoringTyped DEF TaskTypeOK
<1>4. CASE ~(~ok /\ TheStep.stop)
  <2> DEFINE u == [t EXCEPT !.failed = @ \/ ~ok]
  <2>1. u \in Tasks /\ u.script = task.script
    <3>1. (t.failed \/ ~ok) \in BOOLEAN OBVIOUS
    <3> DEFINE failed == t.failed \/ ~ok
    <3>2. u = [t EXCEPT !.failed = failed] BY Zenon
    <3> HIDE DEF u, failed
    <3> QED BY <3>1, <3>2 DEF Tasks, Same, failed
  <2>2. PICK next \in Onward(TheScript, task.at, IF ok THEN 1 ELSE TheStep.skip + 1) :
          task' = GoTo(u, next)
    BY <1>1, <1>4, Zenon DEF AfterStep
  <2>3. (IF ok THEN 1 ELSE TheStep.skip + 1) \in Nat BY <1>2
  <2>4. next \in Nat /\ next > 0 BY <2>2, <2>3, OnwardTyped
  <2> HIDE DEF u
  <2> QED BY <2>1, <2>2, <2>4, GoToTyped DEF TaskTypeOK, TheScript
<1> QED BY <1>3, <1>4

\* What a restore routine has left when a call of it returns.
LEMMA PhaseReturns ==
  ASSUME TaskTypeOK, task.at = 0, NEW ok \in BOOLEAN, Returns(ok)
  PROVE  /\ TaskTypeOK' /\ task'.at = 0 /\ task'.saved = task.saved
         /\ "DIRECTION" \in task'.todo =>
              /\ "DIRECTION" \in task.todo
              /\ FirstOf(task.todo) \in {"LATCH", "POLARITY"}
              /\ FirstOf(task.todo) = "LATCH" => ok
<1>1. task \in Tasks /\ task' = AfterPhase(task, ok)
  BY DEF TaskTypeOK, Returns, ReturnsNoting
<1> DEFINE phase == FirstOf(task.todo)
           rest == task.todo \ {phase}
           forced == phase = "FORCE" \/ (phase = "DIRECTION" /\ task.saved["DIRECTIONS"] = Pins)
           left == IF ok THEN rest ELSE RestoreAfter(phase, rest, task.saved["DIRECTIONS"])
           failed == task.failed \/ ~ok
           exposed == task.exposed \/ (~ok /\ forced)
<1>2. phase \in Phases BY RestoreCalls
<1>3. task.todo \subseteq Phases BY <1>1 DEF Tasks
<1>4. left \subseteq Phases BY <1>3 DEF RestoreAfter, Phases
<1>5. "DIRECTION" \in left =>
        /\ "DIRECTION" \in task.todo
        /\ phase \in {"LATCH", "POLARITY"}
        /\ phase = "LATCH" => ok
  BY <1>2, <1>3 DEF RestoreAfter, Phases, FirstOf
<1>6. /\ task' \in Tasks /\ task'.at = task.at /\ task'.saved = task.saved /\ task'.todo = left
  <2>1. CASE ok
    <3>1. task' = [task EXCEPT !.todo = left] BY <1>1, <2>1, Zenon DEF AfterPhase
    <3> HIDE DEF left
    <3> QED BY <1>1, <1>4, <3>1 DEF Tasks
  <2>2. CASE ~ok
    <3>1. task' = [task EXCEPT !.todo = left, !.failed = TRUE, !.exposed = task.exposed \/ forced]
      BY <1>1, <2>2, Zenon DEF AfterPhase
    <3> DEFINE bared == task.exposed \/ forced
    <3>2. bared \in BOOLEAN OBVIOUS
    <3>3. task' = [task EXCEPT !.todo = left, !.failed = TRUE, !.exposed = bared] BY <3>1
    <3> HIDE DEF left, bared
    <3> QED BY <1>1, <1>4, <3>2, <3>3 DEF Tasks
  <2> QED BY <2>1, <2>2
<1> HIDE DEF left, phase
<1> QED BY <1>5, <1>6 DEF TaskTypeOK, phase

-----------------------------------------------------------------------------
(* The invariant *)

\* A restore that has come past the latches has established them.
Restored ==
  task.at = 0 /\ "DIRECTION" \in task.todo /\ "LATCH" \notin task.todo =>
    "OUTPUTS" \in ev.valid /\ ev.shadow["OUTPUTS"] = task.saved["OUTPUTS"]

\* A restore is between two calls or between the callbacks of its direction call;
\* a poll makes one callback.
CallOfTask ==
  /\ task.at = 0 =>
       \/ call.stage = "IDLE"
       \/ call.stage = "ENABLE_PAIR" /\ FirstOf(task.todo) = "DIRECTION"
  /\ call.stage = "POLLING" => call.left = 1

TaskInv == TaskTypeOK /\ Restored /\ CallOfTask

\* What a step of a script's call does to the program: the call goes on, or returns.
ScriptEffect ==
  \/ task' = task /\ (call'.stage = "POLLING" => call'.left = 1)
  \/ /\ call'.stage = "IDLE"
     /\ \E t \in Tasks, ok \in BOOLEAN : Same(t) /\ ReturnsNoting(t, ok)

\* Such a step keeps the invariant.
LEMMA ScriptKeeps ==
  ASSUME TaskInv, task.at > 0, ScriptEffect
  PROVE  TaskInv'
<1>1. task.at # 0 BY DEF TaskInv, TaskTypeOK, Tasks
<1>2. CASE task' = task /\ (call'.stage = "POLLING" => call'.left = 1)
  <2>1. TaskTypeOK' BY <1>2 DEF TaskInv, TaskTypeOK, TheScript
  <2> QED BY <1>1, <1>2, <2>1 DEF TaskInv, Restored, CallOfTask
<1>3. CASE /\ call'.stage = "IDLE"
           /\ \E t \in Tasks, ok \in BOOLEAN : Same(t) /\ ReturnsNoting(t, ok)
  <2>1. /\ TaskTypeOK'
        /\ task'.at = 0 /\ "DIRECTION" \in task'.todo => "LATCH" \in task'.todo
    BY <1>3, StepReturns DEF TaskInv
  <2> QED BY <1>3, <2>1 DEF TaskInv, Restored, CallOfTask
<1> QED BY <1>2, <1>3 DEF ScriptEffect

\* A call that returns as it stands,
LEMMA ReturnsEffect ==
  ASSUME TaskTypeOK, NEW ok \in BOOLEAN, Returns(ok), call'.stage = "IDLE"
  PROVE  ScriptEffect
<1>1. task \in Tasks /\ Same(task) BY DEF TaskTypeOK, Same
<1> QED BY <1>1 DEF ScriptEffect, Returns

\* and one of one callback.
LEMMA AnsweredEffect ==
  ASSUME TaskTypeOK, Ready, NEW ok \in BOOLEAN, Answered(ok)
  PROVE  ScriptEffect
BY ReturnsEffect, IdleStage DEF Answered, Ready

\* A preload that goes on, or returns.
LEMMA PreloadedEffect ==
  ASSUME TaskTypeOK, NEW outcome, outcome.ok \in BOOLEAN, NEW next, next.stage # "POLLING",
         Preloaded(outcome, next)
  PROVE  ScriptEffect
<1>1. CASE outcome.ok
  BY <1>1 DEF Preloaded, preloadThen, ScriptEffect
<1>2. CASE ~outcome.ok
  <2>1. call'.stage = "IDLE" /\ Returns(FALSE)
    BY <1>2, IdleStage DEF Preloaded, preloadThen
  <2> QED BY <2>1, ReturnsEffect
<1> QED BY <1>1, <1>2

\* The reads that a command keeps.
LEMMA SaveEffect ==
  ASSUME IInv, TaskTypeOK, NEW c \in DriverCalls, Ready, saveCall(c) \/ readPortCall(c)
  PROVE  ScriptEffect
<1>1. task \in Tasks /\ chip.regs \in Images /\ call'.stage = "IDLE"
  BY IdleStage DEF TaskTypeOK, IInv, TypeOK, Chip, Ready, saveCall, readPortCall
<1>2. CASE saveCall(c)
  <2>1. c.pair \in WritablePairs BY <1>2, CallShape DEF saveCall
  <2>2. PICK outcome \in ReadOutcome[2] :
          ReturnsNoting(IF outcome.ok THEN [task EXCEPT !.saved[c.pair] = chip.regs[c.pair],
                                                        !.kept = @ \cup {c.pair}]
                        ELSE task, outcome.ok)
    BY <1>2 DEF saveCall
  <2>3. outcome.ok \in BOOLEAN BY ReadOutcomeFacts
  <2> DEFINE t == IF outcome.ok THEN [task EXCEPT !.saved[c.pair] = chip.regs[c.pair],
                                                  !.kept = @ \cup {c.pair}]
                  ELSE task
  <2>4. t \in Tasks /\ Same(t) BY <1>1, <2>1, <2>3 DEF Tasks, Same, Images
  <2>5. ReturnsNoting(t, outcome.ok) BY <2>2
  <2> HIDE DEF t
  <2> QED BY <1>1, <2>3, <2>4, <2>5 DEF ScriptEffect
<1>3. CASE readPortCall(c)
  <2>1. c.op = "SAVE_PORT" => c.port = 0 BY CallShape
  <2>2. PICK outcome \in ReadOutcome[1] :
          ReturnsNoting(IF outcome.ok /\ c.op = "SAVE_PORT"
                        THEN [task EXCEPT !.byte = portValue(chip.regs[c.pair], c.port)]
                        ELSE task, outcome.ok)
    BY <1>3 DEF readPortCall
  <2>3. outcome.ok \in BOOLEAN BY ReadOutcomeFacts
  <2>4. c.pair \in WritablePairs BY <1>3, CallShape DEF readPortCall
  <2> DEFINE t == IF outcome.ok /\ c.op = "SAVE_PORT"
                  THEN [task EXCEPT !.byte = portValue(chip.regs[c.pair], c.port)]
                  ELSE task
  <2>5. portValue(chip.regs[c.pair], c.port) \subseteq PinsOf(c.port) BY DEF portValue
  <2>6. t \in Tasks /\ Same(t) BY <1>1, <2>1, <2>3, <2>5 DEF Tasks, Same
  <2>7. ReturnsNoting(t, outcome.ok) BY <2>2
  <2> HIDE DEF t
  <2> QED BY <1>1, <2>3, <2>6, <2>7 DEF ScriptEffect
<1> QED BY <1>2, <1>3

\* The reads of the inputs.
LEMMA InputEffect ==
  ASSUME TaskTypeOK, NEW c, Ready, inputCall(c)
  PROVE  ScriptEffect
<1>1. ASSUME NEW whole \in BOOLEAN, NEW seen \in {"PARK_PAIR", "PARK_PORT"}, NEW outcome,
             inputReadThen(whole, seen, outcome),
             IF call' = Idle THEN Returns(FALSE) ELSE UNCHANGED task
      PROVE  ScriptEffect
  <2>1. CASE call' = Idle
    BY <1>1, <2>1, ReturnsEffect, IdleStage
  <2>2. CASE call' # Idle
    <3>1. call' \in {Then(seen, {}, 0), Then("PARK_NOTHING", {}, 0)}
      BY <1>1, <2>2 DEF inputReadThen
    <3>2. call'.stage # "POLLING" BY <1>1, <3>1 DEF Then
    <3> QED BY <1>1, <2>2, <3>2 DEF ScriptEffect
  <2> QED BY <2>1, <2>2
<1>2. CASE c.op = "INPUTS"
  <2>1. PICK outcome \in ReadOutcome[2] :
          /\ inputReadThen(TRUE, "PARK_PAIR", outcome)
          /\ IF call' = Idle THEN Returns(FALSE) ELSE UNCHANGED task
    BY <1>2, Zenon DEF inputCall
  <2> QED BY <1>1, <2>1
<1>3. CASE c.op = "INPUT_PORT"
  <2>1. PICK outcome \in ReadOutcome[1] :
          /\ inputReadThen(FALSE, "PARK_PORT", outcome)
          /\ IF call' = Idle THEN Returns(FALSE) ELSE UNCHANGED task
    BY <1>3 DEF inputCall
  <2> QED BY <1>1, <2>1
<1> QED BY <1>2, <1>3 DEF inputCall

\* Every call of a script.
LEMMA CallEffect ==
  ASSUME IInv, TaskTypeOK, NEW c \in DriverCalls, DriverCall(c)
  PROVE  ScriptEffect
<1>1. CASE Ready /\ (saveCall(c) \/ readPortCall(c)) BY <1>1, SaveEffect
<1>2. CASE Ready /\ inputCall(c) BY <1>2, InputEffect
<1>3. CASE Ready /\ probeCall(c)
  BY <1>3, WriteOutcomeFacts, AnsweredEffect DEF probeCall
<1>4. CASE Ready /\ readCall(c)
  BY <1>4, ReadOutcomeFacts, AnsweredEffect DEF readCall
<1>5. CASE Ready /\ writeCall(c)
  BY <1>5, WriteOutcomeFacts, AnsweredEffect DEF writeCall
<1>6. CASE Ready /\ writePortCall(c)
  BY <1>6, WriteOutcomeFacts, AnsweredEffect DEF writePortCall
<1>7. CASE Ready /\ writeRawCall(c)
  <2>1. PICK n \in 1..3 : \E outcome \in WriteOutcome[n] : Answered(outcome.ok)
    BY <1>7 DEF writeRawCall
  <2> QED BY <1>7, <2>1, WriteOutcomeFacts, AnsweredEffect
<1>8. CASE Ready /\ directCall(c)
  <2>1. PICK value \in Meant("DIRECTIONS", c.value), outcome \in WriteOutcome[3] :
          \/ Answered(outcome.ok)
          \/ Preloaded(outcome, Then("ENABLE_PAIR", value, 0))
    BY <1>8 DEF directCall
  <2>2. outcome.ok \in BOOLEAN BY WriteOutcomeFacts
  <2>3. Then("ENABLE_PAIR", value, 0).stage # "POLLING" BY DEF Then
  <2> QED BY <1>8, <2>1, <2>2, <2>3, AnsweredEffect, PreloadedEffect
<1>9. CASE Ready /\ directPortCall(c)
  <2>1. PICK value \in PortMeant(c.port, c.value), outcome \in WriteOutcome[2] :
          \/ Answered(outcome.ok)
          \/ Preloaded(outcome, Then("ENABLE_PORT", value, c.port))
    BY <1>9 DEF directPortCall
  <2>2. outcome.ok \in BOOLEAN BY WriteOutcomeFacts
  <2>3. Then("ENABLE_PORT", value, c.port).stage # "POLLING" BY DEF Then
  <2> QED BY <1>9, <2>1, <2>2, <2>3, AnsweredEffect, PreloadedEffect
<1>10. CASE call = Idle /\ refusedCall(c)
  BY <1>10, ReturnsEffect, IdleStage DEF refusedCall, vars
<1> QED BY <1>1, <1>2, <1>3, <1>4, <1>5, <1>6, <1>7, <1>8, <1>9, <1>10 DEF DriverCall

\* The recovery's calls,
LEMMA RecoveryEffect ==
  ASSUME TaskTypeOK, NEW c, RecoveryCall(c)
  PROVE  ScriptEffect
<1>1. CASE startCall(c)
  <2>1. call' = Idle /\ (Returns(TRUE) \/ Returns(FALSE)) BY <1>1 DEF startCall, start, vars
  <2> QED BY <2>1, ReturnsEffect, IdleStage
<1>2. CASE pollCall(c)
  <2>1. \/ call' = Polling(1) /\ task' = task
        \/ call' = Idle /\ Returns(TRUE)
    BY <1>2 DEF pollCall, vars
  <2>2. Polling(1).left = 1 BY DEF Polling, Idle
  <2> QED BY <2>1, <2>2, ReturnsEffect, IdleStage DEF ScriptEffect
<1>3. CASE takeCall(c)
  <2> DEFINE succeeded == slot.outcome = "SUCCEEDED"
  <2>1. call' = Idle /\ (Returns(succeeded) \/ Returns(FALSE))
    BY <1>3, Zenon DEF takeCall, takeOperationResult, vars
  <2>2. succeeded \in BOOLEAN OBVIOUS
  <2> HIDE DEF succeeded
  <2> QED BY <2>1, <2>2, ReturnsEffect, IdleStage
<1> QED BY <1>1, <1>2, <1>3 DEF RecoveryCall

\* its transfers,
LEMMA TransferEffect ==
  ASSUME TaskTypeOK, CallOfTask, transferCall
  PROVE  ScriptEffect
<1>1. call.stage = "POLLING" /\ call.left = 1 /\ Returns(TRUE)
  BY DEF transferCall, executeOperationTransfer, CallOfTask
<1>2. \E s : transferred(s)
  BY DEF transferCall, executeOperationTransfer, applyPair, verifyPair, readInputsTransfer,
         parkTransfer
<1>3. call' = Polling(call.left - 1) \/ call' = Idle BY <1>2 DEF transferred
<1>4. Polling(1 - 1) = Idle BY DEF Polling
<1>5. call'.stage = "IDLE" BY <1>1, <1>3, <1>4, IdleStage
<1> QED BY <1>1, <1>5, ReturnsEffect

\* and the second callbacks.
LEMMA FinishEffect ==
  ASSUME TaskTypeOK, Finish
  PROVE  ScriptEffect
<1>1. call' = Idle BY DEF Finish
<1>2. CASE call.stage = "ENABLE_PAIR"
  BY <1>1, <1>2, WriteOutcomeFacts, ReturnsEffect, IdleStage DEF Finish
<1>3. CASE call.stage = "ENABLE_PORT"
  BY <1>1, <1>3, WriteOutcomeFacts, ReturnsEffect, IdleStage DEF Finish
<1>4. CASE call.stage \in {"PARK_NOTHING", "PARK_PAIR", "PARK_PORT"}
  <2>1. PICK outcome \in WriteOutcome[1] : Returns(outcome.ok /\ call.stage # "PARK_NOTHING")
    BY <1>4 DEF Finish
  <2> DEFINE ok == outcome.ok /\ call.stage # "PARK_NOTHING"
  <2>2. ok \in BOOLEAN OBVIOUS
  <2>3. Returns(ok) BY <2>1, Zenon
  <2> HIDE DEF ok
  <2> QED BY <1>1, <2>2, <2>3, ReturnsEffect, IdleStage
<1> QED BY <1>2, <1>3, <1>4 DEF Finish

-----------------------------------------------------------------------------
(* The restore routines *)

\* A pin that a restore enables has its saved latch, if the record is not void.
RestoreSafe ==
  task.at = 0 => \A pin \in Pins \ stale["OUTPUTS"] :
    Enabled(pin) => (pin \in chip.regs["OUTPUTS"] <=> pin \in task.saved["OUTPUTS"])

\* What is known of the output latches stays.
LatchesKept ==
  /\ "OUTPUTS" \in ev.valid => "OUTPUTS" \in ev'.valid
  /\ ev'.shadow["OUTPUTS"] = ev.shadow["OUTPUTS"]

\* A write of another pair keeps it, and a good write of the latches settles it.
LEMMA WriteLatches ==
  ASSUME ev \in Evidence, NEW pair \in WritablePairs, NEW value \in Values,
         NEW outcome \in WriteOutcome[3], ev' = writeRegs(ev, pair, value, TRUE, outcome)
  PROVE  /\ pair # "OUTPUTS" => LatchesKept
         /\ pair = "OUTPUTS" /\ outcome.ok =>
              "OUTPUTS" \in ev'.valid /\ ev'.shadow["OUTPUTS"] = value
<1>1. outcome.ok => outcome.effect = "COMMITTED" BY WriteOutcomeFacts
<1>2. ev' \in {invalidateShadowPair(ev, pair), establishShadowPair(ev, pair, value), ev}
  BY DEF writeRegs
<1>3. outcome.ok => ev' = establishShadowPair(ev, pair, value) BY <1>1 DEF writeRegs
<1>4. CASE pair # "OUTPUTS"
  <2>1. "OUTPUTS" \in WritablePairs BY DEF WritablePairs
  <2>2. invalidateShadowPair(ev, pair).shadow["OUTPUTS"] = ev.shadow["OUTPUTS"]
    BY DEF invalidateShadowPair, Evidence
  <2>3. "OUTPUTS" \in ev.valid => "OUTPUTS" \in invalidateShadowPair(ev, pair).valid
    BY <1>4 DEF invalidateShadowPair, Evidence
  <2>4. establishShadowPair(ev, pair, value).shadow["OUTPUTS"] = ev.shadow["OUTPUTS"]
    BY <1>4, <2>1 DEF establishShadowPair, Evidence, Images
  <2>5. "OUTPUTS" \in ev.valid => "OUTPUTS" \in establishShadowPair(ev, pair, value).valid
    BY DEF establishShadowPair, Evidence
  <2>6. LatchesKept BY <1>2, <2>2, <2>3, <2>4, <2>5 DEF LatchesKept
  <2> QED BY <1>4, <2>6
<1>5. CASE pair = "OUTPUTS"
  <2>1. "OUTPUTS" \in WritablePairs BY DEF WritablePairs
  <2>2. /\ "OUTPUTS" \in establishShadowPair(ev, pair, value).valid
        /\ establishShadowPair(ev, pair, value).shadow["OUTPUTS"] = value
    BY <1>5, <2>1 DEF establishShadowPair, Evidence, Images
  <2> QED BY <1>3, <1>5, <2>2
<1> QED BY <1>4, <1>5

\* A write of another pair enables no pin,
LEMMA NothingEnabled ==
  ASSUME chip \in Chip, NEW pair \in WritablePairs \ {"DIRECTIONS"}, NEW first, NEW value, NEW outcome,
         Write(pair, first, value, outcome)
  PROVE  RestoreSafe
<1>1. chip'.regs["DIRECTIONS"] = chip.regs["DIRECTIONS"]
  BY DEF Write, AcceptWrite, Chip, Images, WritablePairs
<1> QED BY <1>1 DEF RestoreSafe, Enabled

\* nor does a step that leaves the chip alone,
LEMMA ChipSame ==
  ASSUME chip' = chip
  PROVE  RestoreSafe
BY DEF RestoreSafe, Enabled

\* nor the last resort.
LEMMA AllInputs ==
  ASSUME IInv, NEW outcome, Write("DIRECTIONS", 0, Pins, outcome)
  PROVE  RestoreSafe
<1>1. ASSUME NEW pin \in Pins, Enabled(pin)
      PROVE  FALSE
  <2>1. pin \in chip.regs["DIRECTIONS"] \ Pins
    BY <1>1, EnabledByWrite DEF Ports, Values
  <2> QED BY <1>1, <2>1
<1> QED BY <1>1 DEF RestoreSafe

\* A phase that is over: what it had to establish is established.
LEMMA PhaseDone ==
  ASSUME TaskInv, task.at = 0, NEW ok \in BOOLEAN, Returns(ok), call'.stage = "IDLE",
         FirstOf(task.todo) = "LATCH" /\ ok =>
           "OUTPUTS" \in ev'.valid /\ ev'.shadow["OUTPUTS"] = task.saved["OUTPUTS"],
         FirstOf(task.todo) = "POLARITY" => LatchesKept
  PROVE  TaskInv'
<1>1. /\ TaskTypeOK' /\ task'.at = 0 /\ task'.saved = task.saved
      /\ "DIRECTION" \in task'.todo =>
           /\ "DIRECTION" \in task.todo
           /\ FirstOf(task.todo) \in {"LATCH", "POLARITY"}
           /\ FirstOf(task.todo) = "LATCH" => ok
  BY PhaseReturns DEF TaskInv
<1>2. FirstOf(task.todo) = "POLARITY" => "LATCH" \notin task.todo BY DEF FirstOf
<1>3. Restored' BY <1>1, <1>2 DEF TaskInv, Restored, LatchesKept
<1> QED BY <1>1, <1>3 DEF TaskInv, CallOfTask

\* The call that a phase makes, up to the end of its first callback.
LEMMA RestoreCallSafe ==
  ASSUME IInv, TaskInv, task.at = 0, NEW c \in Due, DriverCall(c) \/ RecoveryCall(c)
  PROVE  TaskInv' /\ RestoreSafe
<1> DEFINE phase == FirstOf(task.todo)
<1>1. phase \in Phases /\ c = RestoreCall[phase]
  BY RestoreCalls DEF Due
<1>2. /\ phase = "LATCH" => c = WritePair("OUTPUTS", "SAVED")
      /\ phase = "POLARITY" => c = WritePair("POLARITY", "SAVED")
      /\ phase = "DIRECTION" => c = SetDirections("SAVED")
      /\ phase = "FORCE" => c = SetDirections("HIGH")
  BY <1>1 DEF RestoreCall, Phases
<1>3. /\ phase \in {"LATCH", "POLARITY"} =>
           c.op = "WRITE" /\ c.value = "SAVED" /\ c.pair = (IF phase = "LATCH" THEN "OUTPUTS" ELSE "POLARITY")
      /\ phase \in {"DIRECTION", "FORCE"} =>
           c.op = "DIRECT" /\ c.value = (IF phase = "DIRECTION" THEN "SAVED" ELSE "HIGH")
  BY <1>2 DEF WritePair, SetDirections, Call
<1>4. c.op = "WRITE" \/ c.op = "DIRECT" BY <1>1, <1>3 DEF Phases
<1>5. /\ task \in Tasks /\ task.saved \in Images /\ ev \in Evidence /\ ev.shadow["OUTPUTS"] \in Values
      /\ chip \in Chip
  BY DEF TaskInv, TaskTypeOK, Tasks, IInv, TypeOK, Evidence, Images, WritablePairs
<1>6. CASE call = Idle /\ refusedCall(c)
  <2>1. Returns(FALSE) /\ call' = Idle /\ ev' = ev /\ chip' = chip
    BY <1>6 DEF refusedCall, vars
  <2> QED BY <2>1, PhaseDone, ChipSame, IdleStage DEF LatchesKept
<1>7. CASE Ready /\ writeCall(c)
  <2>1. c.op = "WRITE" BY <1>7 DEF writeCall
  <2>2. phase \in {"LATCH", "POLARITY"} BY <1>1, <1>3, <2>1 DEF Phases
  <2>3. Meant(c.pair, c.value) = {task.saved[c.pair]} BY <1>3, <2>2 DEF Meant
  <2>4. PICK outcome \in WriteOutcome[3] :
          writePairTo(c.pair, task.saved[c.pair], outcome) /\ Answered(outcome.ok)
    BY <1>7, <2>3 DEF writeCall
  <2>5. c.pair \in {"OUTPUTS", "POLARITY"} /\ c.pair \in WritablePairs \ {"DIRECTIONS"}
    BY <1>3, <2>2 DEF WritablePairs
  <2>6. task.saved[c.pair] \in Values BY <1>5, <2>5 DEF Images
  <2>7. /\ c.pair # "OUTPUTS" => LatchesKept
        /\ c.pair = "OUTPUTS" /\ outcome.ok =>
             "OUTPUTS" \in ev'.valid /\ ev'.shadow["OUTPUTS"] = task.saved[c.pair]
    BY <1>5, <2>4, <2>5, <2>6, WriteLatches DEF writePairTo
  <2>8. call'.stage = "IDLE" /\ Returns(outcome.ok)
    BY <1>7, <2>4, IdleStage DEF Answered, Ready
  <2>9. outcome.ok \in BOOLEAN BY WriteOutcomeFacts
  <2>10. TaskInv' BY <1>3, <2>2, <2>7, <2>8, <2>9, PhaseDone
  <2>11. RestoreSafe BY <1>5, <2>4, <2>5, NothingEnabled DEF writePairTo
  <2> QED BY <2>10, <2>11
<1>8. CASE Ready /\ directCall(c)
  <2>1. c.op = "DIRECT" BY <1>8 DEF directCall
  <2>2. phase \in {"DIRECTION", "FORCE"} BY <1>1, <1>3, <2>1 DEF Phases
  <2>3. PICK value \in Meant("DIRECTIONS", c.value), outcome \in WriteOutcome[3] :
          IF value = Pins
          THEN writePairTo("DIRECTIONS", value, outcome) /\ Answered(outcome.ok)
          ELSE /\ shadowStatus({"OUTPUTS"} \cup Needs("DIRECTIONS", c.value))
               /\ writePairTo("OUTPUTS", ev.shadow["OUTPUTS"], outcome)
               /\ Preloaded(outcome, Then("ENABLE_PAIR", value, 0))
    BY <1>8 DEF directCall
  <2>4. phase = "FORCE" => value = Pins BY <1>3, <2>3 DEF Meant
  <2>5. outcome.ok \in BOOLEAN BY WriteOutcomeFacts
  <2>6. CASE value = Pins
    <3>1. Write("DIRECTIONS", 0, Pins, outcome) /\ Answered(outcome.ok)
      BY <2>3, <2>6 DEF writePairTo
    <3>2. call'.stage = "IDLE" /\ Returns(outcome.ok)
      BY <1>8, <3>1, IdleStage DEF Answered, Ready
    <3>3. TaskInv' BY <2>2, <2>5, <3>2, PhaseDone
    <3> QED BY <3>1, <3>3, AllInputs
  <2>7. CASE value # Pins
    <3>1. writePairTo("OUTPUTS", ev.shadow["OUTPUTS"], outcome) /\ Preloaded(outcome, Then("ENABLE_PAIR", value, 0))
      BY <2>3, <2>7
    <3>2. phase = "DIRECTION" BY <2>2, <2>4, <2>7
    <3>3. RestoreSafe BY <1>5, <3>1, NothingEnabled DEF writePairTo, WritablePairs
    <3>4. CASE outcome.ok
      <4>1. call'.stage = "ENABLE_PAIR" /\ task' = task
        BY <3>1, <3>4 DEF Preloaded, preloadThen, Then
      <4>2. "OUTPUTS" \in ev'.valid /\ ev'.shadow["OUTPUTS"] = ev.shadow["OUTPUTS"]
        BY <1>5, <3>1, <3>4, WriteLatches DEF writePairTo, WritablePairs
      <4>3. TaskTypeOK' BY <4>1 DEF TaskInv, TaskTypeOK, TheScript
      <4> QED BY <3>2, <3>3, <4>1, <4>2, <4>3 DEF TaskInv, Restored, CallOfTask
    <3>5. CASE ~outcome.ok
      <4>1. call'.stage = "IDLE" /\ Returns(FALSE)
        BY <3>1, <3>5, IdleStage DEF Preloaded, preloadThen
      <4> QED BY <3>2, <3>3, <4>1, PhaseDone
    <3> QED BY <2>5, <3>4, <3>5
  <2> QED BY <2>6, <2>7
<1>9. ~RecoveryCall(c)
  BY <1>4 DEF RecoveryCall, startCall, pollCall, takeCall
<1>10. ~(probeCall(c) \/ readCall(c) \/ saveCall(c) \/ readPortCall(c))
  BY <1>4 DEF probeCall, readCall, saveCall, readPortCall
<1>11. ~(writePortCall(c) \/ writeRawCall(c) \/ inputCall(c) \/ directPortCall(c))
  BY <1>4 DEF writePortCall, writeRawCall, inputCall, directPortCall
<1> QED BY <1>6, <1>7, <1>8, <1>9, <1>10, <1>11 DEF DriverCall

\* The direction write of a restore: only here can it enable a pin, and the latch
\* behind the pin is the saved one.
LEMMA RestoreFinishSafe ==
  ASSUME IInv, TaskInv, task.at = 0, Finish
  PROVE  TaskInv' /\ RestoreSafe
<1>1. call.stage = "ENABLE_PAIR" /\ FirstOf(task.todo) = "DIRECTION"
  BY DEF TaskInv, CallOfTask, Finish
<1>2. PICK outcome \in WriteOutcome[3] :
        writePairTo("DIRECTIONS", call.value, outcome) /\ Returns(outcome.ok) /\ call' = Idle
  BY <1>1 DEF Finish
<1>3. outcome.ok \in BOOLEAN BY WriteOutcomeFacts
<1>4. TaskInv' BY <1>1, <1>2, <1>3, PhaseDone, IdleStage
<1>5. "DIRECTION" \in task.todo /\ "LATCH" \notin task.todo BY <1>1 DEF FirstOf
<1>6. "OUTPUTS" \in ev.valid /\ ev.shadow["OUTPUTS"] = task.saved["OUTPUTS"]
  BY <1>5 DEF TaskInv, Restored
<1>7. RestoreSafe BY <1>6 DEF RestoreSafe, IInv, ShadowSound
<1> QED BY <1>4, <1>7

\* Every step of a program keeps the invariant and restores safely.
LEMMA ProgramKeeps ==
  ASSUME IInv, TaskInv, [ProgramNext]_<<vars, task>>
  PROVE  TaskInv' /\ RestoreSafe
<1>1. task.at \in Nat /\ (task.at # 0 => RestoreSafe) BY DEF TaskInv, TaskTypeOK, Tasks, RestoreSafe
<1>2. CASE Setup
  <2>1. task' = task /\ call' = call /\ chip' = chip /\ task.at = 0 /\ task.todo = {}
    BY <1>2 DEF Setup, bind, NoTask
  <2>2. TaskTypeOK' BY <2>1 DEF TaskInv, TaskTypeOK, TheScript
  <2> QED BY <2>1, <2>2, ChipSame DEF TaskInv, Restored, CallOfTask
<1>3. CASE \E name \in DOMAIN Scripts : Begin(name)
  <2>1. PICK name \in DOMAIN Scripts : task = NoTask /\ task' = [NoTask EXCEPT !.script = name, !.at = 1]
    BY <1>3 DEF Begin
  <2>2. call' = call /\ chip' = chip BY <1>3 DEF Begin, vars
  <2>3. task'.at = 1 /\ task'.script = name BY <2>1 DEF NoTask
  <2>4. name # "NONE" /\ Len(Scripts[name].steps) >= 1
    <3>1. Scripts[name].steps \in Seq(StepType) /\ Scripts[name].steps # <<>> /\ "NONE" \notin DOMAIN Scripts
      BY ScriptAssumption DEF ScriptAssumption, StepType
    <3> QED BY <2>1, <3>1
  <2>5. task' \in Tasks
    <3>1. task \in Tasks BY DEF TaskInv, TaskTypeOK
    <3> QED BY <2>1, <3>1 DEF Tasks
  <2>6. TaskTypeOK' BY <2>3, <2>4, <2>5 DEF TaskTypeOK, TheScript
  <2> QED BY <2>2, <2>3, <2>6, ChipSame DEF TaskInv, Restored, CallOfTask
<1>4. CASE Prompt
  <2>1. task' = NoTask /\ call' = call /\ chip' = chip /\ ~Running BY <1>4 DEF Prompt, Done, vars
  <2>2. task.at = 0 /\ task.todo = {} BY <1>1, <2>1 DEF Running
  <2>3. call.stage = "IDLE" BY <2>2 DEF TaskInv, CallOfTask, FirstOf
  <2>4. task' \in Tasks
    <3>1. PorImage \in Images BY DEF PorImage, Images, Values
    <3> QED BY <2>1, <3>1 DEF NoTask, Tasks
  <2>5. task'.at = 0 /\ task'.todo = {} BY <2>1 DEF NoTask
  <2>6. TaskTypeOK' BY <2>4, <2>5 DEF TaskTypeOK
  <2> QED BY <2>1, <2>3, <2>5, <2>6, ChipSame DEF TaskInv, Restored, CallOfTask
<1>5. CASE Work
  <2>1. CASE task.at = 0
    <3>1. ~transferCall
      BY <2>1 DEF TaskInv, CallOfTask, transferCall, executeOperationTransfer
    <3> QED BY <1>5, <2>1, <3>1, RestoreCallSafe, RestoreFinishSafe DEF Work
  <2>2. CASE task.at > 0
    <3>1. TaskTypeOK /\ CallOfTask BY DEF TaskInv
    <3>2. ScriptEffect
      BY <1>5, <3>1, DueCalls, CallEffect, RecoveryEffect, TransferEffect, FinishEffect DEF Work
    <3> QED BY <1>1, <2>2, <3>2, ScriptKeeps
  <2> QED BY <1>1, <2>1, <2>2
<1>6. CASE Around
  <2>1. task' = task /\ call' = call /\ ev' = ev BY <1>6 DEF Around, DeadlinePasses, PowerCycle
  <2>2. TaskTypeOK' BY <2>1 DEF TaskInv, TaskTypeOK, TheScript
  <2>3. TaskInv' BY <2>1, <2>2 DEF TaskInv, Restored, CallOfTask
  <2>4. CASE DeadlinePasses BY <2>3, <2>4, ChipSame DEF DeadlinePasses
  <2>5. CASE PowerCycle
    <3>1. chip'.regs["DIRECTIONS"] = Pins BY <2>5 DEF PowerCycle, PowerOnChip, PorImage, WritablePairs
    <3> QED BY <2>3, <3>1 DEF RestoreSafe, Enabled
  <2> QED BY <1>6, <2>4, <2>5 DEF Around
<1>7. CASE UNCHANGED <<vars, task>>
  <2>1. task' = task /\ call' = call /\ ev' = ev /\ chip' = chip BY <1>7 DEF vars
  <2>2. TaskTypeOK' BY <2>1 DEF TaskInv, TaskTypeOK, TheScript
  <2> QED BY <2>1, <2>2, ChipSame DEF TaskInv, Restored, CallOfTask
<1> QED BY <1>2, <1>3, <1>4, <1>5, <1>6, <1>7 DEF ProgramNext

\* The invariant holds before the first command.
LEMMA ProgramStart ==
  ASSUME ProgramInit
  PROVE  Init /\ TaskInv
<1>1. task = NoTask /\ call = Idle /\ Init BY DEF ProgramInit, Init
<1>2. task \in Tasks
  <2>1. PorImage \in Images BY DEF PorImage, Images, Values
  <2> QED BY <1>1, <2>1 DEF NoTask, Tasks
<1>3. task.at = 0 /\ task.todo = {} BY <1>1 DEF NoTask
<1> QED BY <1>1, <1>2, <1>3, IdleStage DEF TaskInv, TaskTypeOK, Restored, CallOfTask

-----------------------------------------------------------------------------
(* The theorems *)

\* Both invariants hold of the programs.
LEMMA ProgramInvariant == ProgramSpec => [](IInv /\ TaskInv)
<1>1. ProgramInit => IInv /\ TaskInv BY ProgramStart, InitIInv
<1>2. IInv /\ TaskInv /\ [ProgramNext]_<<vars, task>> => IInv' /\ TaskInv'
  BY ProgramStep, NextKeepsIInv, ProgramKeeps DEF TaskInv
<1> QED BY <1>1, <1>2, PTL DEF ProgramSpec

\* The example programs use the driver as its specification allows, so that each
\* theorem about the driver is a theorem about the chip below the programs.
THEOREM ProgramsUseTheDriver == ProgramSpec => Spec
<1>1. ProgramInit => Init BY ProgramStart
<1>2. IInv /\ TaskInv /\ [ProgramNext]_<<vars, task>> => [Next]_vars
  BY ProgramStep DEF TaskInv
<1> QED BY <1>1, <1>2, ProgramInvariant, PTL DEF ProgramSpec, Spec

\* The program in progress is always at a step of its script.
THEOREM ProgramTyped == ProgramSpec => []TaskTypeOK
<1>1. TaskInv => TaskTypeOK BY DEF TaskInv
<1> QED BY <1>1, ProgramInvariant, PTL

\* Whatever a script had changed and wherever it failed, the restore that follows
\* enables an output only over the saved latch, unless a power loss that nothing
\* has met since has voided the latch.
THEOREM RestoresEnableSaved == ProgramSpec => RestoreEnablesSaved
<1>1. IInv /\ TaskInv /\ [ProgramNext]_<<vars, task>> =>
        [task.at = 0 => \A pin \in Pins \ stale["OUTPUTS"] :
           Enabled(pin) => (pin \in chip.regs["OUTPUTS"] <=> pin \in task.saved["OUTPUTS"])
        ]_<<vars, task>>
  BY ProgramKeeps DEF RestoreSafe
<1> QED BY <1>1, ProgramInvariant, PTL DEF ProgramSpec, RestoreEnablesSaved

=============================================================================
