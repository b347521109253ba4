-------------------------- MODULE DiagnosticSteps ---------------------------
(***************************************************************************)
(* The commands of the two example programs as data.  A command that talks *)
(* to the device is a script: driver calls in order, what the program does *)
(* when one of them fails, the loops among them, and the restore routine   *)
(* the command ends with.  ArduinoCli and NativeCli are the tables of the  *)
(* two programs, and Diagnostics gives a script its meaning.               *)
(***************************************************************************)
EXTENDS Registers, Sequences

\* A driver call.  The value is named, and Diagnostics says which it is: ANY is
\* an argument of the user or a pattern of the program, SAVED what the command
\* read before it changed anything, SET, CLEAR and TOGGLE an edit of the shadow
\* by any mask that is not empty.
Call(op, pair, value, port) == [op |-> op, pair |-> pair, value |-> value, port |-> port]

Probe == Call("PROBE", "DIRECTIONS", "ANY", 0)
Read(pair) == Call("READ", pair, "ANY", 0)
Save(pair) == Call("SAVE", pair, "ANY", 0)
WritePair(pair, value) == Call("WRITE", pair, value, 0)
WriteRaw(pair, value) == Call("WRITE_RAW", pair, value, 0)
SetDirections(value) == Call("DIRECT", "DIRECTIONS", value, 0)
ReadInputs == Call("INPUTS", "INPUTS", "ANY", 0)

ReadPort(pair) == {Call("READ_PORT", pair, "ANY", port) : port \in Ports}
ReadInputPort == Call("INPUT_PORT", "INPUTS", "ANY", 0)
WritePort(pair) == {Call("WRITE_PORT", pair, "ANY", port) : port \in Ports}
WriteRawPort(pair) == {Call("WRITE_RAW_PORT", pair, "ANY", port) : port \in Ports}
SetPortDirections == {Call("DIRECT_PORT", "DIRECTIONS", "ANY", port) : port \in Ports}

\* readRegister of the eight addresses in turn.
ReadRegister ==
  <<ReadInputPort, ReadInputPort>>
    \o <<Call("READ_PORT", "OUTPUTS", "ANY", 0), Call("READ_PORT", "OUTPUTS", "ANY", 1),
         Call("READ_PORT", "POLARITY", "ANY", 0), Call("READ_PORT", "POLARITY", "ANY", 1),
         Call("READ_PORT", "DIRECTIONS", "ANY", 0), Call("READ_PORT", "DIRECTIONS", "ANY", 1)>>

-----------------------------------------------------------------------------
(* A step is one of a set of calls.  After a failure a script goes on with  *)
(* the next step (Try), passes over n further steps (Skip), or stops and    *)
(* runs a restore routine (Must).                                           *)

Try(calls) == [calls |-> calls, skip |-> 0, stop |-> FALSE, restore |-> "NOTHING"]

Skip(calls, n) == [Try(calls) EXCEPT !.skip = n]

Must(calls, routine) == [Try(calls) EXCEPT !.stop = TRUE, !.restore = routine]

\* Steps of one call each: none, or every one, ends the script when it fails.
Tries(calls) == [i \in DOMAIN calls |-> Try({calls[i]})]

Chain(calls) == [i \in DOMAIN calls |-> Must({calls[i]}, "NOTHING")]

\* Steps first..last go round any number of times; with early set the loop may
\* be left after any of them.
Loop(first, last, early) == [first |-> first, last |-> last, early |-> early]

Script(steps, loops, routine) == [steps |-> steps, loops |-> loops, finally |-> routine]

Plain(calls) == Script(<<Try(calls)>>, {}, "NOTHING")

-----------------------------------------------------------------------------
(* The shape of a script.  Only raw writes reach a register without the     *)
(* driver's interlocks, and they cannot reach the directions; directions    *)
(* are set by calls that preload, or edited towards inputs.                 *)

PairCalls ==
  [op : {"READ", "SAVE"}, pair : WritablePairs, value : {"ANY"}, port : {0}]
    \cup [op : {"WRITE"}, pair : {"OUTPUTS", "POLARITY"},
          value : {"ANY", "LOW", "SAVED", "SET", "CLEAR", "TOGGLE"}, port : {0}]
    \cup [op : {"WRITE"}, pair : {"DIRECTIONS"}, value : {"SET"}, port : {0}]
    \cup [op : {"WRITE_RAW"}, pair : {"OUTPUTS", "POLARITY"}, value : {"ANY", "SAVED"}, port : {0}]
    \cup [op : {"DIRECT"}, pair : {"DIRECTIONS"},
          value : {"HIGH", "LOW", "SAVED", "CLEAR"}, port : {0}]

PortCalls ==
  [op : {"READ_PORT"}, pair : WritablePairs, value : {"ANY"}, port : Ports]
    \cup [op : {"WRITE_PORT", "WRITE_RAW_PORT"}, pair : {"OUTPUTS", "POLARITY"}, value : {"ANY"},
          port : Ports]
    \cup [op : {"DIRECT_PORT"}, pair : {"DIRECTIONS"}, value : {"ANY"}, port : Ports]
    \cup [op : {"SAVE_PORT"}, pair : {"OUTPUTS"}, value : {"ANY"}, port : {0}]
    \cup [op : {"WRITE_RAW_PORT"}, pair : {"OUTPUTS"}, value : {"SAVED"}, port : {0}]

OtherCalls ==
  {Probe, ReadInputs, ReadInputPort}
    \cup [op : {"START", "POLL", "TAKE"}, pair : {"OUTPUTS"}, value : {"ANY"}, port : {0}]

DriverCalls == PairCalls \cup PortCalls \cup OtherCalls

-----------------------------------------------------------------------------
(* The restore routines, as the phases they go through, in this order:      *)
(* LATCH, POLARITY and DIRECTION write what was saved, FORCE makes every pin *)
(* an input.                                                                *)

Phases == {"LATCH", "POLARITY", "DIRECTION", "FORCE"}

Routine ==
  [NOTHING |-> {}, FORCE |-> {"FORCE"}, LAST_RESORT |-> {"FORCE"}, LATCH |-> {"LATCH"},
   LATCH_DIRECTION |-> {"LATCH", "DIRECTION"},
   LATCH_POLARITY |-> {"LATCH", "POLARITY"},
   ALL |-> {"LATCH", "POLARITY", "DIRECTION"}]

\* Mistake: the directions come back before the latches.
FirstOfEnabling(phases) ==
  IF "DIRECTION" \in phases THEN "DIRECTION"
  ELSE IF phases = {} THEN "FORCE" ELSE CHOOSE phase \in phases : TRUE

FirstOf(phases) ==
  CASE "LATCH" \in phases -> "LATCH"
    [] "LATCH" \notin phases /\ "POLARITY" \in phases -> "POLARITY"
    [] phases \cap {"LATCH", "POLARITY"} = {} /\ "DIRECTION" \in phases -> "DIRECTION"
    [] OTHER -> "FORCE"

RestoreCall ==
  [LATCH |-> WritePair("OUTPUTS", "SAVED"), POLARITY |-> WritePair("POLARITY", "SAVED"),
   DIRECTION |-> SetDirections("SAVED"), FORCE |-> SetDirections("HIGH")]

\* Mistake: a latch that could not be restored does not stop the saved directions.
RestoreAfterIgnoring(phase, rest, saved) ==
  IF phase = "DIRECTION" /\ saved # Pins THEN {"FORCE"} ELSE rest

\* What is left of a routine when one of its phases has failed; saved is the
\* saved direction pair.
RestoreAfter(phase, rest, saved) ==
  CASE phase = "LATCH" -> (rest \ {"DIRECTION"}) \cup {"FORCE"}
    [] phase = "DIRECTION" /\ saved # Pins -> {"FORCE"}
    [] OTHER -> rest

=============================================================================
