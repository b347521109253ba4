----------------------------- MODULE ArduinoCli -----------------------------
(***************************************************************************)
(* The bring-up CLI of examples/01_basic_bringup_cli as scripts.  A command *)
(* that makes one driver call stands in the set of the commands of its     *)
(* kind; a command that makes several is a script of its own.  Arguments,  *)
(* confirmation, printing, delays and pass counters are left out.          *)
(***************************************************************************)
EXTENDS DiagnosticSteps, Naturals

ReadCommands ==
  {ReadInputs} \cup {Read(pair) : pair \in WritablePairs}
    \cup UNION {ReadPort(pair) : pair \in WritablePairs}

PinCommands ==
  {WritePair("OUTPUTS", "SET"), WritePair("OUTPUTS", "CLEAR"), ReadInputPort}
    \cup UNION {ReadPort(pair) : pair \in WritablePairs}

ChangeCommands ==
  {WritePair("OUTPUTS", "TOGGLE"),
   WritePair("DIRECTIONS", "SET"), SetDirections("CLEAR"),
   WritePair("POLARITY", "SET"), WritePair("POLARITY", "CLEAR")}
    \cup WritePort("OUTPUTS") \cup SetPortDirections \cup WritePort("POLARITY")

MaskCommands ==
  {WritePair("OUTPUTS", edit) : edit \in {"SET", "CLEAR", "TOGGLE"}}
    \cup {WritePair("DIRECTIONS", "SET"), SetDirections("CLEAR")}
    \cup {WritePair("POLARITY", edit) : edit \in {"SET", "CLEAR"}}

\* The registers 2 to 5 are the raw-writable ones.
RegisterCommands ==
  {ReadInputPort, ReadInputs} \cup {Read(pair) : pair \in WritablePairs}
    \cup UNION {ReadPort(pair) : pair \in WritablePairs}
    \cup UNION {WriteRawPort(pair) \cup {WriteRaw(pair, "ANY")} : pair \in {"OUTPUTS", "POLARITY"}}

PlainCommands ==
  ReadCommands \cup PinCommands \cup ChangeCommands \cup MaskCommands \cup RegisterCommands
    \cup {Probe}

cmdPinInfo ==
  Script([i \in 1..4 |->
            Must(<<{ReadInputPort}, ReadPort("OUTPUTS"), ReadPort("DIRECTIONS"),
                   ReadPort("POLARITY")>>[i], "NOTHING")], {}, "NOTHING")

cmdPins ==
  Script(Chain(<<ReadInputs, Read("OUTPUTS"), Read("DIRECTIONS"), Read("POLARITY")>>),
         {}, "NOTHING")

\* A register that cannot be read does not end the dump.
cmdDump == Script(Tries(ReadRegister), {}, "NOTHING")

\* loop() reads the inputs once a turn while a stress run is active, and takes
\* no command line before the run is over.
stress == Script(<<Try({ReadInputs})>>, {Loop(1, 1, FALSE)}, "NOTHING")

\* MAX_APPLY_IMAGE_TRANSACTIONS polls of budget one, and the result is taken.
RecoveryPolls == 8

applyExampleRecoveryImage ==
  Script(<<Must({Call("START", "OUTPUTS", "ANY", 0)}, "NOTHING")>>
           \o [i \in 1..RecoveryPolls |-> Try({Call("POLL", "OUTPUTS", "ANY", 0)})]
           \o <<Try({Call("TAKE", "OUTPUTS", "ANY", 0)})>>, {}, "NOTHING")

-----------------------------------------------------------------------------
(* The restore routines the scripts name.  RestoreAfter has what becomes of *)
(* each when the latches, or the directions, cannot be restored.            *)

restoreOutputAndDirection == "LATCH_DIRECTION"

restoreOutputAfterFailedPreload == "LATCH"

restoreOutputAndPolarity == "LATCH_POLARITY"

restoreWritableState == "ALL"

\* restoreDirectionAfterLatch with a status that is not OK.
restoreDirectionAfterLatch == "FORCE"

-----------------------------------------------------------------------------
(* Pin tests: all pins become outputs, low, and are restored at the end *)

SaveAndDriveLow ==
  Chain(<<Save("DIRECTIONS"), Save("OUTPUTS")>>)
    \o <<Must({WritePair("OUTPUTS", "LOW")}, restoreOutputAfterFailedPreload),
         Must({SetDirections("LOW")}, restoreOutputAndDirection)>>

\* One pin after the other goes on, then off; each that was set is read back.
cmdSweep ==
  Script(SaveAndDriveLow
           \o <<Skip({WritePair("OUTPUTS", "SET")}, 1), Try({Read("OUTPUTS")}),
                Skip({WritePair("OUTPUTS", "CLEAR")}, 1), Try({Read("OUTPUTS")})>>,
         {Loop(5, 6, FALSE), Loop(7, 8, FALSE)}, restoreOutputAndDirection)

cmdWalk ==
  Script(SaveAndDriveLow
           \o <<Skip({WritePair("OUTPUTS", "ANY")}, 1), Try({Read("OUTPUTS")})>>,
         {Loop(5, 6, FALSE)}, restoreOutputAndDirection)

\* cmdAllHigh, cmdAllLow and cmdPattern: the latches first.
cmdPattern ==
  Script(Chain(<<WritePair("OUTPUTS", "ANY"), SetDirections("LOW")>>), {}, "NOTHING")

-----------------------------------------------------------------------------
(* stress_mix *)

PrepareStressMix ==
  Chain(<<Save("OUTPUTS"), Save("DIRECTIONS"), Save("POLARITY")>>)
    \o <<Must({WritePair("OUTPUTS", "LOW")}, restoreOutputAfterFailedPreload),
         Must({WritePair("POLARITY", "LOW")}, restoreOutputAndPolarity),
         Must({SetDirections("LOW")}, restoreWritableState)>>

StressMixCalls ==
  <<ReadInputs, Read("OUTPUTS"), Read("DIRECTIONS"), Read("POLARITY"),
    ReadInputPort, Read("OUTPUTS"),
    WritePair("OUTPUTS", "SET"), WritePair("OUTPUTS", "CLEAR"),
    WritePair("OUTPUTS", "TOGGLE"), WritePair("OUTPUTS", "TOGGLE"),
    WritePair("DIRECTIONS", "SET"), SetDirections("CLEAR"),
    WritePair("POLARITY", "SET"), WritePair("POLARITY", "CLEAR")>>

\* The calls in turn, any number of them, from the first again after the last.
runStressMix ==
  Script(PrepareStressMix \o Tries(StressMixCalls),
         {Loop(7, 20, TRUE)}, restoreWritableState)

-----------------------------------------------------------------------------
(* selftest *)

SelfTestReads ==
  <<Try({Probe}), Try({ReadInputs}), Try({ReadInputPort}),
    Try({Read("OUTPUTS")}), Try(ReadPort("OUTPUTS")), Try(ReadPort("OUTPUTS")),
    Try({Read("DIRECTIONS")}), Try(ReadPort("DIRECTIONS")), Try(ReadPort("DIRECTIONS")),
    Try({Read("POLARITY")}), Try(ReadPort("POLARITY")), Try(ReadPort("POLARITY"))>>

\* The writable state is captured, and written back to establish the shadow.
SelfTestCapture ==
  Chain(<<Save("OUTPUTS"), Save("DIRECTIONS"), Save("POLARITY"),
          WritePair("OUTPUTS", "SAVED"), WritePair("POLARITY", "SAVED"),
          SetDirections("SAVED")>>)

SelfTestPorts ==
  <<Skip(WritePort("OUTPUTS"), 1), Try({Read("OUTPUTS")}),
    Skip(WritePort("OUTPUTS"), 1), Try({Read("OUTPUTS")}),
    Must({WritePair("OUTPUTS", "SAVED")}, restoreDirectionAfterLatch),
    Skip(SetPortDirections, 1), Try({Read("DIRECTIONS")}),
    Must({SetDirections("SAVED")}, "LAST_RESORT")>>

SelfTestPolarity ==
  <<Skip(WritePort("POLARITY"), 1), Try({Read("POLARITY")}),
    Skip({WritePair("POLARITY", "SET")}, 1), Try({Read("POLARITY")}),
    Must({WritePair("POLARITY", "SAVED")}, "NOTHING")>>

Register2 == Call("WRITE_RAW_PORT", "OUTPUTS", "ANY", 0)

SelfTestRaw ==
  Tries(ReadRegister)
    \o <<Skip({WriteRaw("OUTPUTS", "ANY")}, 1), Try({Read("OUTPUTS")}),
         Must({WriteRaw("OUTPUTS", "SAVED")}, restoreDirectionAfterLatch),
         Try({Read("DIRECTIONS")}),
         Must({Call("SAVE_PORT", "OUTPUTS", "ANY", 0)}, "NOTHING"),
         Skip({Register2}, 1), Try({Call("READ_PORT", "OUTPUTS", "ANY", 0)}),
         Must({[Register2 EXCEPT !.value = "SAVED"]}, restoreDirectionAfterLatch)>>

SelfTestBits ==
  <<Must({WritePair("OUTPUTS", "LOW")}, restoreOutputAfterFailedPreload),
    Must({SetDirections("LOW")}, restoreOutputAndDirection),
    Skip({WritePair("OUTPUTS", "SET")}, 1), Try({Read("OUTPUTS")}),
    Skip({WritePair("OUTPUTS", "CLEAR")}, 1), Try({Read("OUTPUTS")}),
    Skip({WritePair("OUTPUTS", "TOGGLE")}, 1), Try({Read("OUTPUTS")}),
    Skip({WritePair("OUTPUTS", "TOGGLE")}, 1), Try({Read("OUTPUTS")}),
    Skip({SetDirections("LOW")}, 2),
    Skip({WritePair("DIRECTIONS", "SET")}, 1), Try({Read("DIRECTIONS")}),
    Skip({SetDirections("CLEAR")}, 1), Try({Read("DIRECTIONS")}),
    Skip({WritePair("POLARITY", "LOW")}, 2),
    Skip({WritePair("POLARITY", "SET")}, 1), Try({Read("POLARITY")}),
    Skip({WritePair("POLARITY", "CLEAR")}, 1), Try({Read("POLARITY")})>>

\* The restore at the end is attempted whatever failed before it.
runSelfTest ==
  Script(SelfTestReads \o SelfTestCapture \o SelfTestPorts \o SelfTestPolarity
           \o SelfTestRaw \o SelfTestBits, {}, restoreWritableState)

-----------------------------------------------------------------------------

Commands ==
  [command |-> Plain(PlainCommands), pininfo |-> cmdPinInfo, pins |-> cmdPins,
   dump |-> cmdDump, recover |-> applyExampleRecoveryImage, selftest |-> runSelfTest,
   stress |-> stress, stress_mix |-> runStressMix, sweep |-> cmdSweep, walk |-> cmdWalk,
   pattern |-> cmdPattern]

=============================================================================
