---------------------------- MODULE Diagnostics ----------------------------
(***************************************************************************)
(* The example programs on top of the driver.  A command is a script of    *)
(* driver calls; the programs save registers, change them and restore them *)
(* through whatever failures the bus brings, and start the recovery        *)
(* operation and poll it to its end.  Each step is one callback of the     *)
(* driver, so the chip may lose power, and a deadline may pass, between    *)
(* any two of them.                                                        *)
(***************************************************************************)
EXTENDS PCA9555, ScriptOutline

CONSTANT Scripts  \* from the name of a command to its script

VARIABLE task     \* the command in progress

\* The programs reach every pair, and recover applies the power-on image.
ASSUME ProgramAssumption ==
  /\ CallPairs = Pairs
  /\ RequestIds # {} /\ 1 \in Budgets
  /\ "APPLY_IMAGE" \in Kinds /\ PorImage \in CallerImages

\* A script has a first step; a failed step, and the script, name their routine.
ASSUME ScriptAssumption ==
  /\ "NONE" \notin DOMAIN Scripts
  /\ \A name \in DOMAIN Scripts :
       LET script == Scripts[name] IN
       /\ script.steps \in Seq([calls : SUBSET DriverCalls, skip : Nat, stop : BOOLEAN,
                                restore : DOMAIN Routine])
       /\ script.steps # <<>>
       /\ script.loops \subseteq [first : Nat \ {0}, last : Nat, early : BOOLEAN]
       /\ script.finally \in DOMAIN Routine

\* at is the step the script has come to, or 0 once it is over; todo the rest of
\* its restore routine; saved, kept and byte what it read before it changed
\* anything.  failed: some call failed.  exposed: the last resort, every pin an
\* input, was tried and failed as well.
Tasks == [script : {"NONE"} \cup DOMAIN Scripts, at : Nat, todo : SUBSET Phases,
          saved : Images, kept : SUBSET WritablePairs,
          byte : SUBSET PinsOf(0),
          failed : BOOLEAN, exposed : BOOLEAN]

NoTask == [script |-> "NONE", at |-> 0, todo |-> {}, saved |-> PorImage, kept |-> {},
           byte |-> {}, failed |-> FALSE, exposed |-> FALSE]

Running == task.at > 0 \/ task.todo # {}

Done == task.script # "NONE" /\ ~Running

TheScript == Scripts[task.script]

TheStep == TheScript.steps[task.at]

\* The calls the command may make next.
Due == IF task.at > 0 THEN TheStep.calls ELSE {RestoreCall[FirstOf(task.todo)]}

-----------------------------------------------------------------------------
(* What a program does when a call returns *)

\* restoreOutputAfterFailedPreload does nothing when the latches it would
\* restore are those the failed preload was writing, all low; and there is no
\* last resort after saved directions that were all inputs already.
Restoring(t, routine) ==
  LET lost == routine = "LAST_RESORT" /\ t.saved["DIRECTIONS"] = Pins IN
  [t EXCEPT !.at = 0,
            !.todo = IF lost \/ (routine = "LATCH" /\ t.saved["OUTPUTS"] = {}) THEN {}
                     ELSE Routine[routine],
            !.exposed = @ \/ lost]

\* The places a script may go on to, n steps further: a loop may begin again.
Onward(script, at, n) ==
  LET around == {loop \in script.loops : loop.first <= at /\ at <= loop.last} IN
  {at + n} \cup {loop.first : loop \in {l \in around : at + n > l.last}}
           \cup {loop.last + 1 : loop \in {l \in around : l.early}}

\* Mistakes: the last step has one more after it; nothing is restored at the end.
GoToBeyond(t, next) ==
  IF next <= Len(Scripts[t.script].steps) + 1 THEN [t EXCEPT !.at = next]
  ELSE Restoring(t, Scripts[t.script].finally)

GoToWithoutRestore(t, next) ==
  IF next <= Len(Scripts[t.script].steps) THEN [t EXCEPT !.at = next]
  ELSE [t EXCEPT !.at = 0]

GoTo(t, next) ==
  IF next <= Len(Scripts[t.script].steps) THEN [t EXCEPT !.at = next]
  ELSE Restoring(t, Scripts[t.script].finally)

\* Mistake: after a failure one more step is passed over.
AfterStepTooFar(t, ok) ==
  IF ~ok /\ TheStep.stop THEN {Restoring([t EXCEPT !.failed = TRUE], TheStep.restore)}
  ELSE {GoTo([t EXCEPT !.failed = @ \/ ~ok], next) :
          next \in Onward(TheScript, task.at, IF ok THEN 1 ELSE TheStep.skip + 2)}

AfterStep(t, ok) ==
  IF ~ok /\ TheStep.stop THEN {Restoring([t EXCEPT !.failed = TRUE], TheStep.restore)}
  ELSE {GoTo([t EXCEPT !.failed = @ \/ ~ok], next) :
          next \in Onward(TheScript, task.at, IF ok THEN 1 ELSE TheStep.skip + 1)}

AfterPhase(t, ok) ==
  LET phase == FirstOf(t.todo)
      rest == t.todo \ {phase}
      forced == phase = "FORCE" \/ (phase = "DIRECTION" /\ t.saved["DIRECTIONS"] = Pins) IN
  IF ok THEN [t EXCEPT !.todo = rest]
  ELSE [t EXCEPT !.todo = RestoreAfter(phase, rest, t.saved["DIRECTIONS"]),
                 !.failed = TRUE, !.exposed = @ \/ forced]

\* The call in progress returns to the program, which has noted t.
ReturnsNoting(t, ok) ==
  task' \in IF task.at > 0 THEN AfterStep(t, ok) ELSE {AfterPhase(t, ok)}

Returns(ok) == ReturnsNoting(task, ok)

-----------------------------------------------------------------------------
(* What the scripts of both programs have in common, for what they leave    *)
(* behind *)

\* What a step leaves is enough for the one it leads to, or for the end of the script.
Leads(script, next, left) ==
  IF next <= Len(script.steps) THEN Outline(script)[next] \subseteq left
  ELSE EndsSafely(script.finally, left)

\* A script that saves the latches and the directions knows at each of its steps what
\* its outline says, whichever way it came there, and ends safely.
OutlineHolds(script) ==
  \A at \in DOMAIN script.steps : \A c \in script.steps[at].calls :
    LET step == script.steps[at]
        known == Outline(script)[at] IN
    /\ \A next \in Onward(script, at, 1) : Leads(script, next, After(c, TRUE, known))
    /\ IF step.stop
       THEN /\ EndsSafely(step.restore, After(c, FALSE, known))
            /\ step.restore = "LATCH" => PreloadOnly(c, known)
       ELSE \A next \in Onward(script, at, step.skip + 1) :
              Leads(script, next, After(c, FALSE, known))

SafeScripts ==
  {name \in DOMAIN Scripts : {"OUTPUTS", "DIRECTIONS"} \subseteq Saves(Scripts[name])}

ASSUME OutlineAssumption == \A name \in SafeScripts : OutlineHolds(Scripts[name])

\* The routine at the end of a script writes back every pair the script had saved.
ASSUME FinallyAssumption ==
  \A name \in DOMAIN Scripts :
    LET script == Scripts[name] IN
    /\ script.finally \in {"NOTHING", "LATCH_DIRECTION", "LATCH_POLARITY", "ALL"}
    /\ \A pair \in Saves(script) : PhaseOf[pair] \in Routine[script.finally]

\* Only the recovery touches the operation slot: it starts an operation, polls it as
\* often as an apply has callbacks, or more, and takes the result.
IsRecovery(script) ==
  LET last == Len(script.steps) IN
  /\ last >= MaxTransactions["APPLY_IMAGE"] + 2
  /\ \A c \in script.steps[1].calls : c.op = "START"
  /\ script.steps[1].stop /\ script.steps[1].restore = "NOTHING"
  /\ \A at \in 2..last :
       /\ ~script.steps[at].stop /\ script.steps[at].skip = 0
       /\ \A c \in script.steps[at].calls : c.op = IF at < last THEN "POLL" ELSE "TAKE"
  /\ script.loops = {} /\ script.finally = "NOTHING"

ASSUME RecoveryAssumption ==
  \A name \in DOMAIN Scripts :
    LET steps == Scripts[name].steps IN
    \/ IsRecovery(Scripts[name])
    \/ \A at \in DOMAIN steps : \A c \in steps[at].calls : c.op \notin {"START", "POLL", "TAKE"}

-----------------------------------------------------------------------------
(* The calls.  Each is one of the driver's, from its guard to the end of    *)
(* its first callback; a guard that refuses returns an error at once.       *)

Toggled(old, mask) == (old \ mask) \cup (mask \ old)

\* The values a named value may stand for.
Meant(pair, value) ==
  CASE value = "LOW" -> {{}}
    [] value = "HIGH" -> {Pins}
    [] value = "ANY" -> Values
    [] value = "SAVED" -> {task.saved[pair]}
    [] value = "SET" -> {ev.shadow[pair] \cup mask : mask \in NonEmptyMasks}
    [] value = "CLEAR" -> {ev.shadow[pair] \ mask : mask \in NonEmptyMasks}
    [] value = "TOGGLE" -> {Toggled(ev.shadow[pair], mask) : mask \in NonEmptyMasks}

\* The pairs whose shadow the call relies on.
Needs(pair, value) == IF value \in {"SET", "CLEAR", "TOGGLE"} THEN {pair} ELSE {}

\* A port's byte: read before by the command, or any.
PortMeant(port, value) == IF value = "SAVED" THEN {task.byte} ELSE PortValues(port)

Keeps == UNCHANGED <<bound, slot, late, owed>>

\* A call of one callback that ended with ok.
Answered(ok) == Returns(ok) /\ UNCHANGED call /\ Keeps

probeCall(c) ==
  /\ c.op = "PROBE"
  /\ \E outcome \in WriteOutcome[1] : Command("DIRECTIONS", outcome) /\ Answered(outcome.ok)
  /\ UNCHANGED <<ev, stale>>

readCall(c) ==
  /\ c.op = "READ"
  /\ \E outcome \in ReadOutcome[2] : readPair(c.pair, outcome) /\ Answered(outcome.ok)

\* A read whose value the command keeps.
saveCall(c) ==
  /\ c.op = "SAVE"
  /\ \E outcome \in ReadOutcome[2] :
       /\ readPair(c.pair, outcome)
       /\ ReturnsNoting(IF outcome.ok THEN [task EXCEPT !.saved[c.pair] = chip.regs[c.pair],
                                                        !.kept = @ \cup {c.pair}]
                        ELSE task, outcome.ok)
  /\ UNCHANGED call /\ Keeps

readPortCall(c) ==
  /\ c.op \in {"READ_PORT", "SAVE_PORT"}
  /\ \E outcome \in ReadOutcome[1] :
       /\ readWritablePortRegister(c.pair, c.port, outcome)
       /\ ReturnsNoting(IF outcome.ok /\ c.op = "SAVE_PORT"
                        THEN [task EXCEPT !.byte = portValue(chip.regs[c.pair], c.port)]
                        ELSE task, outcome.ok)
  /\ UNCHANGED call /\ Keeps

writeCall(c) ==
  /\ c.op = "WRITE"
  /\ shadowStatus(Needs(c.pair, c.value))
  /\ \E value \in Meant(c.pair, c.value), outcome \in WriteOutcome[3] :
       writePairTo(c.pair, value, outcome) /\ Answered(outcome.ok)

writePortCall(c) ==
  /\ c.op = "WRITE_PORT"
  /\ \E value \in PortMeant(c.port, c.value), outcome \in WriteOutcome[2] :
       /\ writePortTo(c.pair, c.port, value, withPort(ev.shadow[c.pair], c.port, value), outcome)
       /\ Answered(outcome.ok)

\* writeRegisters, and writeRegister: the raw writes give the shadow up first.
writeRawCall(c) ==
  /\ c.op \in {"WRITE_RAW", "WRITE_RAW_PORT"}
  /\ LET whole == c.op = "WRITE_RAW" IN
     \E value \in IF whole THEN Meant(c.pair, c.value) ELSE PortMeant(c.port, c.value),
        outcome \in WriteOutcome[IF whole THEN 3 ELSE 2] :
       /\ Write(c.pair, c.port, value, outcome)
       /\ ev' = writeRegs([ev EXCEPT !.valid = @ \ {c.pair}], c.pair, value, whole, outcome)
       /\ Answered(outcome.ok)

inputCall(c) ==
  /\ c.op \in {"INPUTS", "INPUT_PORT"}
  /\ LET whole == c.op = "INPUTS" IN
     \E outcome \in ReadOutcome[IF whole THEN 2 ELSE 1] :
       /\ inputReadThen(whole, IF whole THEN "PARK_PAIR" ELSE "PARK_PORT", outcome)
       /\ IF call' = Idle THEN Returns(FALSE) ELSE UNCHANGED task

\* The preload of a call that goes on to the directions.
Preloaded(outcome, next) ==
  /\ preloadThen(outcome, next)
  /\ IF outcome.ok THEN UNCHANGED task ELSE Returns(FALSE)

\* setConfiguration and, editing the shadow, configureOutputBits.
directCall(c) ==
  /\ c.op = "DIRECT"
  /\ \E value \in Meant("DIRECTIONS", c.value), outcome \in WriteOutcome[3] :
       IF value = Pins
       THEN writePairTo("DIRECTIONS", value, outcome) /\ Answered(outcome.ok)
       ELSE /\ shadowStatus({"OUTPUTS"} \cup Needs("DIRECTIONS", c.value))
            /\ writePairTo("OUTPUTS", ev.shadow["OUTPUTS"], outcome)
            /\ Preloaded(outcome, Then("ENABLE_PAIR", value, 0))

directPortCall(c) ==
  /\ c.op = "DIRECT_PORT"
  /\ \E value \in PortMeant(c.port, c.value), outcome \in WriteOutcome[2] :
       IF value = PinsOf(c.port)
       THEN /\ writePortTo("DIRECTIONS", c.port, value,
                           withPort(ev.shadow["DIRECTIONS"], c.port, value), outcome)
            /\ Answered(outcome.ok)
       ELSE /\ shadowStatus({"OUTPUTS"})
            /\ writePortTo("OUTPUTS", c.port, portValue(ev.shadow["OUTPUTS"], c.port),
                           ev.shadow["OUTPUTS"], outcome)
            /\ Preloaded(outcome, Then("ENABLE_PORT", value, c.port))

\* The driver refuses a call for want of a shadow it relies on.
LacksShadow(c) ==
  CASE c.op = "WRITE" -> ~shadowStatus(Needs(c.pair, c.value))
    [] c.op = "DIRECT" -> /\ ~shadowStatus({"OUTPUTS"} \cup Needs(c.pair, c.value))
                          /\ Meant(c.pair, c.value) # {Pins}
    [] c.op = "DIRECT_PORT" -> ~shadowStatus({"OUTPUTS"}) /\ PinsOf(c.port) # {}
    [] OTHER -> FALSE

RecoveryOps == {"START", "POLL", "TAKE"}

refusedCall(c) ==
  /\ c.op \notin RecoveryOps
  /\ ~Ready \/ LacksShadow(c)
  /\ Returns(FALSE) /\ UNCHANGED vars

DriverCall(c) ==
  \/ /\ Ready
     /\ \/ probeCall(c) \/ readCall(c) \/ saveCall(c) \/ readPortCall(c)
        \/ writeCall(c) \/ writePortCall(c) \/ writeRawCall(c)
        \/ inputCall(c) \/ directCall(c) \/ directPortCall(c)
  \/ call = Idle /\ refusedCall(c)

-----------------------------------------------------------------------------
(* The rest of a call of two callbacks *)

Finish ==
  \/ /\ call.stage = "ENABLE_PAIR"
     /\ call' = Idle
     /\ \E outcome \in WriteOutcome[3] :
          writePairTo("DIRECTIONS", call.value, outcome) /\ Returns(outcome.ok)
     /\ Keeps
  \/ /\ call.stage = "ENABLE_PORT"
     /\ call' = Idle
     /\ \E outcome \in WriteOutcome[2] :
          /\ writePortTo("DIRECTIONS", call.port, call.value,
                         withPort(ev.shadow["DIRECTIONS"], call.port, call.value), outcome)
          /\ Returns(outcome.ok)
     /\ Keeps
  \/ /\ call.stage \in {"PARK_NOTHING", "PARK_PAIR", "PARK_PORT"}
     /\ call' = Idle
     /\ \E outcome \in WriteOutcome[1] :
          parkPointer(outcome) /\ Returns(outcome.ok /\ call.stage # "PARK_NOTHING")
     /\ ev' = CASE call.stage = "PARK_PAIR" -> recordInputs(ev)
                [] call.stage = "PARK_PORT" -> syncInputs(ev)
                [] OTHER -> ev
     /\ Keeps

-----------------------------------------------------------------------------
(* The recovery: the power-on image is applied cooperatively, one callback  *)
(* a poll, as long as the operation is in progress.                         *)

startCall(c) ==
  /\ c.op = "START"
  /\ \/ start("APPLY_IMAGE", PorImage, "APPLY_OUTPUTS") /\ Returns(TRUE)
     \/ /\ call = Idle
        /\ ~bound \/ slot.active \/ slot.pending
        /\ Returns(FALSE) /\ UNCHANGED vars

\* Mistake: a poll with no budget.
pollCallWithoutBudget(c) ==
  /\ c.op = "POLL"
  /\ call = Idle
  /\ IF slot.active THEN pollWithoutBudget ELSE UNCHANGED vars
  /\ Returns(TRUE)

\* A poll of budget one; a poll that finds the operation over is not made.
pollCall(c) ==
  /\ c.op = "POLL"
  /\ call = Idle
  /\ IF slot.active
     THEN /\ slot' = enterPoll
          /\ IF slot'.active THEN call' = Polling(1) /\ UNCHANGED <<late, task>>
             ELSE UNCHANGED call /\ late' = FALSE /\ Returns(TRUE)
          /\ UNCHANGED <<chip, bound, ev, stale, excused, owed>>
     ELSE Returns(TRUE) /\ UNCHANGED vars

transferCall == executeOperationTransfer /\ Returns(TRUE)

takeCall(c) ==
  /\ c.op = "TAKE"
  /\ \/ takeOperationResult /\ Returns(slot.outcome = "SUCCEEDED")
     \/ call = Idle /\ ~slot.pending /\ Returns(FALSE) /\ UNCHANGED vars

RecoveryCall(c) == startCall(c) \/ pollCall(c) \/ takeCall(c)

-----------------------------------------------------------------------------
(* The programs *)

\* setup and app_main: one binding, at the start. (The probe that the Arduino program
\* makes next is that of its probe command.)
Setup == task = NoTask /\ ~bound /\ bind /\ UNCHANGED task

\* A command line that the program accepts.
Begin(name) ==
  /\ task = NoTask
  /\ task' = [NoTask EXCEPT !.script = name, !.at = 1]
  /\ UNCHANGED vars

Prompt == Done /\ task' = NoTask /\ UNCHANGED vars

Work ==
  \/ Running /\ \E c \in Due : DriverCall(c) \/ RecoveryCall(c)
  \/ Finish
  \/ transferCall

Around == (DeadlinePasses \/ PowerCycle) /\ UNCHANGED task

ProgramInit == Init /\ task = NoTask

ProgramNext ==
  \/ Setup
  \/ \E name \in DOMAIN Scripts : Begin(name)
  \/ Prompt
  \/ Work
  \/ Around

ProgramSpec == ProgramInit /\ [][ProgramNext]_<<vars, task>>

-----------------------------------------------------------------------------
(* Properties *)

\* Every variable of the programs holds a value of its type.
TaskTypeOK ==
  /\ task \in Tasks
  /\ task.at > 0 => task.script # "NONE" /\ task.at <= Len(TheScript.steps)

\* The pin drives nothing, or its saved latch.
PinSafe(t, pin, regs) ==
  \/ pin \in regs["DIRECTIONS"]
  \/ pin \in regs["OUTPUTS"] <=> pin \in t.saved["OUTPUTS"]

\* The facts hold, for what the command t saved, of the registers, of the latches a
\* power loss reset and of the driver's evidence.
FactsHold(t, known, regs, reset, e) ==
  /\ "DIRECTIONS" \in known \cap t.kept => t.saved["DIRECTIONS"] \subseteq regs["DIRECTIONS"]
  /\ "OUTPUTS" \in t.kept =>
       /\ "SHADOW" \in known /\ "OUTPUTS" \in e.valid => e.shadow["OUTPUTS"] = t.saved["OUTPUTS"]
       /\ "LATCHES" \in known => \A pin \in Pins \ reset : PinSafe(t, pin, regs)
       /\ \A port \in Ports :
            PortFact[port] \in known => \A pin \in PinsOf(port) : PinSafe(t, pin, regs)
       /\ "BYTE" \in known => \A pin \in PinsOf(0) :
            pin \in regs["DIRECTIONS"] \/ (pin \in t.byte <=> pin \in t.saved["OUTPUTS"])

Known == [name \in SafeScripts |->
            [at \in DOMAIN Scripts[name].steps |-> Outline(Scripts[name])[at]]]

\* Whichever calls failed and however the script went on, the program knows between
\* two of its calls what the outline says: with what a step has left behind, each
\* later step that may end the command leaves to its restore routine all it must.
OutlineTrue ==
  task.at > 0 /\ task.script \in SafeScripts /\ call.stage \notin {"ENABLE_PAIR", "ENABLE_PORT"} =>
    FactsHold(task, Known[task.script][task.at], chip.regs, stale["OUTPUTS"], ev)

\* However a command ends that had saved the latches and the directions, and
\* unless the last resort failed, no pin is left driving a level of the diagnostic:
\* a pin is an input, or it was an output before and has its saved latch.  Only
\* that latch is excused, where the chip lost power and nothing has reached it since.
SafeAtEnd ==
  Done /\ {"OUTPUTS", "DIRECTIONS"} \subseteq task.kept /\ ~task.exposed =>
    \A pin \in Pins :
      \/ pin \in chip.regs["DIRECTIONS"]
      \/ /\ pin \notin task.saved["DIRECTIONS"]
         /\ \/ pin \in stale["OUTPUTS"]
            \/ pin \in chip.regs["OUTPUTS"] <=> pin \in task.saved["OUTPUTS"]

\* A command all of whose calls succeeded leaves the chip as it found it, in
\* every register pair it had saved, and the driver's shadow knows it.
QuietEndIsRestored ==
  Done /\ ~task.failed =>
    \A pair \in task.kept :
      /\ pair \in ev.valid
      /\ \A pin \in Pins \ stale[pair] :
           pin \in chip.regs[pair] <=> pin \in task.saved[pair]

\* The comment on the restore helpers: saved outputs are enabled again only
\* after the saved latches are known to be restored, never on the diagnostic's
\* pattern or on an uncertain latch.
RestoreEnablesSaved ==
  [][task.at = 0 => \A pin \in Pins \ stale["OUTPUTS"] :
       Enabled(pin) => (pin \in chip.regs["OUTPUTS"] <=> pin \in task.saved["OUTPUTS"])
    ]_<<vars, task>>

\* A recovery leaves no operation behind: the polls it allows itself bring any
\* operation to its end, and the slot is free for the next command.
RecoveryDrains == ~Running => slot = EmptySlot

=============================================================================
