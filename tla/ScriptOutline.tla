--------------------------- MODULE ScriptOutline ----------------------------
(***************************************************************************)
(* What a command that saves the latches and the directions still knows of *)
(* them at each step of its script, whatever its calls came to and however *)
(* often the chip lost power: the outline of the argument that it leaves   *)
(* no pin driving a level of the diagnostic.                               *)
(***************************************************************************)
EXTENDS DiagnosticSteps, Naturals

\* Each fact speaks of a pair only once the command has saved it.
\* DIRECTIONS: no pin is an output that was not one.  SHADOW: a valid output shadow
\* is the saved one.  PORT_0, PORT_1: a pin of the port is an input, or has its saved
\* latch.  LATCHES: so is every pin whose latch no unnoticed power loss has reset.
\* BYTE: so would be a pin of port 0 with the latch in the byte the command read.
Facts == {"DIRECTIONS", "SHADOW", "LATCHES", "PORT_0", "PORT_1", "BYTE"}

PortFact == [port \in Ports |-> IF port = 0 THEN "PORT_0" ELSE "PORT_1"]

PortFacts == {"PORT_0", "PORT_1"}

\* The facts that survive the call c, of those known before, whatever it comes to.
Kept(c, known) ==
  CASE c.op = "SAVE" /\ c.pair = "OUTPUTS" -> known \ {"BYTE"}
    [] c.op \in {"READ", "READ_PORT"} /\ c.pair = "OUTPUTS" -> known \ {"LATCHES"}
    [] c.op = "SAVE_PORT" -> known \ {"LATCHES", "BYTE"}
    [] c.op \in {"WRITE", "WRITE_RAW", "WRITE_PORT"} /\ c.pair = "OUTPUTS" ->
         IF c.value = "SAVED" THEN known ELSE known \ ({"SHADOW", "LATCHES"} \cup PortFacts)
    [] c.op = "WRITE_RAW_PORT" /\ c.pair = "OUTPUTS" ->
         known \ ({"LATCHES"} \cup IF c.value = "SAVED" /\ "BYTE" \in known THEN {}
                                   ELSE {PortFact[c.port]})
    [] c.op = "WRITE" /\ c.pair = "DIRECTIONS" -> known \cap {"SHADOW"}
    [] c.op \in {"DIRECT", "DIRECT_PORT"} ->
         known \cap ({"SHADOW"} \cup (IF "SHADOW" \in known THEN {"LATCHES"} ELSE {})
                                \cup (IF c.value = "SAVED" THEN {"DIRECTIONS"} ELSE {}))
    [] c.op \in {"START", "POLL", "TAKE"} -> {}
    [] OTHER -> known

\* Those that its success establishes.
Gained(c, known) ==
  CASE c.op = "SAVE" -> IF c.pair = "OUTPUTS" THEN {"SHADOW", "LATCHES"} \cup PortFacts
                        ELSE IF c.pair = "DIRECTIONS" THEN {"DIRECTIONS"} ELSE {}
    [] c.op \in {"WRITE", "WRITE_RAW"} /\ c.pair = "OUTPUTS" /\ c.value = "SAVED" ->
         {"SHADOW", "LATCHES"} \cup PortFacts
    [] c.op = "SAVE_PORT" -> IF "PORT_0" \in known THEN {"BYTE"} ELSE {}
    [] c.op = "WRITE_RAW_PORT" /\ c.pair = "OUTPUTS" /\ c.value = "SAVED" ->
         IF "BYTE" \in known THEN {"PORT_0"} ELSE {}
    [] c.op = "DIRECT" /\ c.value = "SAVED" -> {"DIRECTIONS"}
    [] OTHER -> {}

After(c, ok, known) == Kept(c, known) \cup IF ok THEN Gained(c, known) ELSE {}

\* What is known before each step when the steps run in turn; Diagnostics requires
\* that passing over steps and going round loops leave no less.
Outline(script) ==
  LET known[at \in 1..Len(script.steps)] ==
        IF at = 1 THEN Facts
        ELSE LET step == script.steps[at - 1]
                 before == known[at - 1] IN
             {fact \in Facts : \A c \in step.calls :
                /\ fact \in After(c, TRUE, before)
                /\ step.stop \/ fact \in After(c, FALSE, before)}
  IN known

-----------------------------------------------------------------------------

\* Every pin is an input or has its saved latch, unless an unnoticed power loss reset it.
LatchesKnown(known) == "LATCHES" \in known \/ PortFacts \subseteq known

\* A routine that neither writes a pair back nor makes every pin an input needs that
\* pair to be safe already.
EndsSafely(routine, known) ==
  /\ Routine[routine] \cap {"DIRECTION", "FORCE"} = {} => "DIRECTIONS" \in known
  /\ Routine[routine] \cap {"LATCH", "FORCE"} = {} => LatchesKnown(known)

\* The routine after a failed preload may do nothing at all when the latches it would
\* write are low: it is for a write of all low over latches that were safe.
PreloadOnly(c, known) == c = WritePair("OUTPUTS", "LOW") /\ LatchesKnown(known)

\* The phase that writes a pair back.
PhaseOf == [OUTPUTS |-> "LATCH", POLARITY |-> "POLARITY", DIRECTIONS |-> "DIRECTION"]

\* The pairs that a script saves.
Saves(script) ==
  {pair \in WritablePairs : \E i \in DOMAIN script.steps : Save(pair) \in script.steps[i].calls}

=============================================================================
