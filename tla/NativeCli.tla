----------------------------- MODULE NativeCli ------------------------------
(***************************************************************************)
(* The CLI of examples/espidf_basic as scripts.  It has the commands of the *)
(* Arduino program; the self test is shorter, a dump ends at the first     *)
(* register that cannot be read, and the address probe goes past the driver. *)
(***************************************************************************)
EXTENDS DiagnosticSteps, Naturals

\* The reads that handleCommand makes itself: whole pairs, ports and registers.
ReadCommands ==
  {ReadInputs, ReadInputPort} \cup {Read(pair) : pair \in WritablePairs}
    \cup UNION {ReadPort(pair) : pair \in WritablePairs}

\* The same for single pins.
PinReadCommands == {ReadInputPort} \cup UNION {ReadPort(pair) : pair \in WritablePairs}

RegisterReadCommands == ReadCommands

\* cmdWritePin to cmdSetPortPolarity.
ChangeCommands ==
  {WritePair("OUTPUTS", edit) : edit \in {"SET", "CLEAR", "TOGGLE"}}
    \cup {WritePair("DIRECTIONS", "SET"), SetDirections("CLEAR")}
    \cup {WritePair("POLARITY", edit) : edit \in {"SET", "CLEAR"}}
    \cup WritePort("OUTPUTS") \cup SetPortDirections \cup WritePort("POLARITY")

cmdMask ==
  {WritePair("OUTPUTS", edit) : edit \in {"SET", "CLEAR", "TOGGLE"}}
    \cup {WritePair("DIRECTIONS", "SET"), SetDirections("CLEAR")}
    \cup {WritePair("POLARITY", edit) : edit \in {"SET", "CLEAR"}}

RegisterWriteCommands ==
  UNION {WriteRawPort(pair) \cup {WriteRaw(pair, "ANY")} : pair \in {"OUTPUTS", "POLARITY"}}

PlainCommands ==
  ReadCommands \cup PinReadCommands \cup RegisterReadCommands \cup ChangeCommands \cup cmdMask
    \cup RegisterWriteCommands

printPinInfo ==
  Script([i \in 1..4 |->
            Must(<<{ReadInputPort}, ReadPort("OUTPUTS"), ReadPort("DIRECTIONS"),
                   ReadPort("POLARITY")>>[i], "NOTHING")], {}, "NOTHING")

printAllPins ==
  Script(Chain(<<ReadInputs, Read("OUTPUTS"), Read("DIRECTIONS"), Read("POLARITY")>>),
         {}, "NOTHING")

dumpRegs == Script(Chain(ReadRegister), {}, "NOTHING")

runStress == Script(<<Try({ReadInputs})>>, {Loop(1, 1, FALSE)}, "NOTHING")

applyExampleRecoveryImage ==
  Script(<<Must({Call("START", "OUTPUTS", "ANY", 0)}, "NOTHING")>>
           \o [i \in 1..8 |-> Try({Call("POLL", "OUTPUTS", "ANY", 0)})]
           \o <<Try({Call("TAKE", "OUTPUTS", "ANY", 0)})>>, {}, "NOTHING")

-----------------------------------------------------------------------------
(* The restore routines *)

restoreOutputAndDirection == "LATCH_DIRECTION"

restoreOutputAfterFailedPreload == "LATCH"

restoreOutputAndPolarity == "LATCH_POLARITY"

restoreState == "ALL"

-----------------------------------------------------------------------------
(* Pin tests *)

SaveAndDriveLow ==
  Chain(<<Save("DIRECTIONS"), Save("OUTPUTS")>>)
    \o <<Must({WritePair("OUTPUTS", "LOW")}, restoreOutputAfterFailedPreload),
         Must({SetDirections("LOW")}, restoreOutputAndDirection)>>

cmdSweep ==
  Script(SaveAndDriveLow
           \o <<Skip({WritePair("OUTPUTS", "SET")}, 1), Try({Read("OUTPUTS")}),
                Skip({WritePair("OUTPUTS", "CLEAR")}, 1), Try({Read("OUTPUTS")})>>,
         {Loop(5, 6, FALSE), Loop(7, 8, FALSE)}, restoreOutputAndDirection)

cmdWalk ==
  Script(SaveAndDriveLow
           \o <<Skip({WritePair("OUTPUTS", "ANY")}, 1), Try({Read("OUTPUTS")})>>,
         {Loop(5, 6, FALSE)}, restoreOutputAndDirection)

\* cmdAllOutputs and cmdPattern.
cmdPattern ==
  Script(Chain(<<WritePair("OUTPUTS", "ANY"), SetDirections("LOW")>>), {}, "NOTHING")

-----------------------------------------------------------------------------
(* stress_mix and selftest *)

PrepareStressMix ==
  Chain(<<Save("OUTPUTS"), Save("DIRECTIONS"), Save("POLARITY")>>)
    \o <<Must({WritePair("OUTPUTS", "LOW")}, restoreOutputAfterFailedPreload),
         Must({WritePair("POLARITY", "LOW")}, restoreOutputAndPolarity),
         Must({SetDirections("LOW")}, restoreState)>>

StressMixCalls ==
  <<ReadInputs, Read("OUTPUTS"), Read("DIRECTIONS"), Read("POLARITY"),
    ReadInputPort, Read("OUTPUTS"),
    WritePair("OUTPUTS", "SET"), WritePair("OUTPUTS", "CLEAR"),
    WritePair("OUTPUTS", "TOGGLE"), WritePair("OUTPUTS", "TOGGLE"),
    WritePair("DIRECTIONS", "SET"), SetDirections("CLEAR"),
    WritePair("POLARITY", "SET"), WritePair("POLARITY", "CLEAR")>>

runStressMix ==
  Script(PrepareStressMix \o Tries(StressMixCalls), {Loop(7, 20, TRUE)}, restoreState)

SelfTestSetup ==
  Chain(<<Save("OUTPUTS"), Save("DIRECTIONS"), Save("POLARITY")>>)
    \o Tries(<<ReadInputs, Read("OUTPUTS"), Read("DIRECTIONS"), Read("POLARITY"),
               ReadInputPort, Read("OUTPUTS")>>)
    \o <<Must({WritePair("OUTPUTS", "LOW")}, restoreOutputAfterFailedPreload),
         Must({SetDirections("LOW")}, restoreOutputAndDirection)>>

\* Unlike the Arduino program, nothing establishes the polarity shadow before
\* the last two helpers but the write of all low, whose failure they survive.
SelfTestBits ==
  <<Skip({WritePair("OUTPUTS", "SET")}, 1), Try({Read("OUTPUTS")}),
    Skip({WritePair("OUTPUTS", "CLEAR")}, 1), Try({Read("OUTPUTS")}),
    Skip({WritePair("OUTPUTS", "TOGGLE")}, 1), Try({Read("OUTPUTS")}),
    Skip({WritePair("OUTPUTS", "TOGGLE")}, 1), Try({Read("OUTPUTS")}),
    Skip({SetDirections("LOW")}, 2),
    Skip({WritePair("DIRECTIONS", "SET")}, 1), Try({Read("DIRECTIONS")}),
    Skip({SetDirections("CLEAR")}, 1), Try({Read("DIRECTIONS")}),
    Skip({WritePair("POLARITY", "LOW")}, 2),
    Skip({WritePair("POLARITY", "SET")}, 1), Try({Read("POLARITY")}),
    Skip({WritePair("POLARITY", "CLEAR")}, 1), Try({Read("POLARITY")})>>

cmdSelfTest == Script(SelfTestSetup \o SelfTestBits, {}, restoreState)

-----------------------------------------------------------------------------

Commands ==
  [native_command |-> Plain(PlainCommands), native_pininfo |-> printPinInfo,
   native_pins |-> printAllPins, native_dump |-> dumpRegs,
   native_recover |-> applyExampleRecoveryImage, native_selftest |-> cmdSelfTest,
   native_stress |-> runStress, native_stress_mix |-> runStressMix,
   native_sweep |-> cmdSweep, native_walk |-> cmdWalk, native_pattern |-> cmdPattern]

=============================================================================
