---------------------------- MODULE CommandLine -----------------------------
(***************************************************************************)
(* How the two example programs find the command of a line: a chain of     *)
(* tests, and the first that matches decides.  A line is the sequence of   *)
(* its words, with "..." for arguments.                                    *)
(***************************************************************************)
EXTENDS Naturals, Sequences, Functions, SequencesExt

CONSTANT Programs  \* the programs on the board: "Arduino", "native"

VARIABLES program,  \* the program that runs
          line,     \* the line it was given, or NoLine
          at,       \* the test it has come to
          reached   \* the command it found, or NoCommand

\* A test for the whole line, for words that an argument must follow, and for
\* words that an argument may follow.
Exactly(words, command) == [words |-> words, args |-> {FALSE}, command |-> command]
Before(words, command) == [words |-> words, args |-> {TRUE}, command |-> command]
With(words, command) == [words |-> words, args |-> BOOLEAN, command |-> command]

\* Several forms of one command.
Each(Test(_, _), lines, command) == [i \in DOMAIN lines |-> Test(lines[i], command)]

-----------------------------------------------------------------------------
(* The tests of processCommand, in their order *)

ArduinoReads ==
  Each(Exactly, <<<<"help">>, <<"?">>>>, "printHelp")
    \o Each(Exactly, <<<<"version">>, <<"ver">>>>, "printVersionInfo")
    \o <<Exactly(<<"scan">>, "scan")>>
    \o Each(Exactly, <<<<"read">>, <<"inputs">>, <<"read", "inputs">>>>, "cmdReadInputs")
    \o Each(Before, <<<<"read", "input", "port">>, <<"rin">>>>, "cmdReadInputPort")
    \o Each(Exactly, <<<<"outputs">>, <<"read", "outputs">>>>, "cmdReadOutputs")
    \o <<Before(<<"read", "output", "port">>, "cmdReadOutputPort")>>
    \o Each(Exactly, <<<<"config">>, <<"read", "config">>>>, "cmdReadConfig")
    \o <<Before(<<"read", "config", "port">>, "cmdReadConfigPort")>>
    \o Each(Exactly, <<<<"polarity">>, <<"read", "polarity">>>>, "cmdReadPolarity")
    \o <<Before(<<"read", "polarity", "port">>, "cmdReadPolarityPort")>>
    \o Each(Exactly, <<<<"cfg">>, <<"settings">>>>, "printSettings")
    \o Each(Before, <<<<"read", "pin">>, <<"rpin">>>>, "cmdReadPin")
    \o Each(Before, <<<<"read", "outpin">>, <<"rout">>>>, "cmdReadOutputPin")
    \o Each(Before, <<<<"read", "dirpin">>, <<"rdir">>>>, "cmdReadDirectionPin")
    \o Each(Before, <<<<"read", "polpin">>, <<"rpol">>>>, "cmdReadPolarityPin")
    \o <<Before(<<"pininfo">>, "cmdPinInfo"), Exactly(<<"pins">>, "cmdPins")>>
    \o Each(Before, <<<<"read", "regs">>, <<"rregs">>>>, "cmdRegsRead")
    \o <<Before(<<"read", "reg">>, "cmdRegRead"), Exactly(<<"dump">>, "cmdDump")>>

ArduinoWrites ==
  Each(Before, <<<<"write", "pin">>, <<"wpin">>>>, "cmdWritePin")
    \o <<Before(<<"toggle">>, "cmdTogglePin")>>
    \o Each(Before, <<<<"dir", "pin">>, <<"dir">>>>, "cmdSetDirection")
    \o Each(Before, <<<<"write", "port">>, <<"wport">>>>, "cmdWritePort")
    \o Each(Before, <<<<"dir", "port">>, <<"dport">>>>, "cmdSetPortDirection")
    \o Each(Before, <<<<"polarity", "pin">>, <<"pol">>>>, "cmdSetPinPolarity")
    \o Each(Before, <<<<"polarity", "port">>, <<"wpol">>>>, "cmdSetPortPolarity")
    \o Each(Before, <<<<"setbits">>, <<"sb">>>>, "cmdSetBits")
    \o Each(Before, <<<<"clearbits">>, <<"cb">>>>, "cmdClearBits")
    \o Each(Before, <<<<"togglebits">>, <<"tb">>>>, "cmdToggleBits")
    \o <<Before(<<"dirin">>, "cmdDirIn"), Before(<<"dirout">>, "cmdDirOut"),
         Before(<<"invertset">>, "cmdInvertSet"), Before(<<"invertclr">>, "cmdInvertClr")>>

ArduinoTests ==
  Each(Before, <<<<"write", "regs">>, <<"wregs">>>>, "cmdRegsWrite")
    \o <<Before(<<"write", "reg">>, "cmdRegWrite"), Before(<<"rreg">>, "cmdRegRead"),
         Before(<<"wreg">>, "cmdRegWrite")>>
    \o Each(Exactly, <<<<"drv">>, <<"health">>>>, "printDriverHealth")
    \o <<Exactly(<<"probe">>, "probe"), With(<<"recover">>, "applyExampleRecoveryImage"),
         With(<<"verbose">>, "verbose"), With(<<"selftest">>, "runSelfTest"),
         With(<<"sweep">>, "cmdSweep"), With(<<"walk">>, "cmdWalk"),
         With(<<"allhigh">>, "cmdAllHigh"), With(<<"alllow">>, "cmdAllLow")>>
    \o Each(Before, <<<<"pattern">>, <<"pat">>>>, "cmdPattern")
    \o <<With(<<"stress_mix">>, "runStressMix"), With(<<"stress">>, "stress")>>

\* The chain of handleCommand; it has the same words for the same commands.
NativeReads ==
  Each(Exactly, <<<<"help">>, <<"?">>>>, "printHelp")
    \o Each(Exactly, <<<<"version">>, <<"ver">>>>, "printVersionInfo")
    \o <<Exactly(<<"scan">>, "scan"), Exactly(<<"probe">>, "probe"),
         With(<<"recover">>, "applyExampleRecoveryImage")>>
    \o Each(Exactly, <<<<"drv">>, <<"health">>>>, "printDriverHealth")
    \o Each(Exactly, <<<<"cfg">>, <<"settings">>>>, "printSettings")
    \o <<Exactly(<<"dump">>, "cmdDump")>>
    \o Each(Exactly, <<<<"read">>, <<"inputs">>, <<"read", "inputs">>>>, "cmdReadInputs")
    \o Each(Exactly, <<<<"outputs">>, <<"read", "outputs">>>>, "cmdReadOutputs")
    \o Each(Before, <<<<"read", "input", "port">>, <<"rin">>>>, "cmdReadInputPort")
    \o <<Before(<<"read", "output", "port">>, "cmdReadOutputPort")>>
    \o Each(Exactly, <<<<"read", "config">>, <<"config">>>>, "cmdReadConfig")
    \o <<Before(<<"read", "config", "port">>, "cmdReadConfigPort")>>
    \o Each(Exactly, <<<<"read", "polarity">>, <<"polarity">>>>, "cmdReadPolarity")
    \o <<Before(<<"read", "polarity", "port">>, "cmdReadPolarityPort")>>
    \o Each(Before, <<<<"read", "pin">>, <<"rpin">>>>, "cmdReadPin")
    \o Each(Before, <<<<"read", "outpin">>, <<"rout">>>>, "cmdReadOutputPin")
    \o Each(Before, <<<<"read", "dirpin">>, <<"rdir">>>>, "cmdReadDirectionPin")
    \o Each(Before, <<<<"read", "polpin">>, <<"rpol">>>>, "cmdReadPolarityPin")

NativeTests ==
  <<Before(<<"pininfo">>, "cmdPinInfo"), Exactly(<<"pins">>, "cmdPins")>>
    \o ArduinoWrites
    \o Each(Before, <<<<"write", "regs">>, <<"wregs">>>>, "cmdRegsWrite")
    \o Each(Before, <<<<"write", "reg">>, <<"wreg">>>>, "cmdRegWrite")
    \o <<With(<<"allhigh">>, "cmdAllHigh"), With(<<"alllow">>, "cmdAllLow")>>
    \o Each(Before, <<<<"pattern">>, <<"pat">>>>, "cmdPattern")
    \o <<With(<<"sweep">>, "cmdSweep"), With(<<"walk">>, "cmdWalk"),
         With(<<"selftest">>, "runSelfTest"), With(<<"stress_mix">>, "runStressMix"),
         With(<<"stress">>, "stress")>>
    \o Each(Before, <<<<"rreg">>, <<"read", "reg">>>>, "cmdRegRead")
    \o Each(Before, <<<<"rregs">>, <<"read", "regs">>>>, "cmdRegsRead")
    \o <<With(<<"verbose">>, "verbose")>>

Tests == [Arduino |-> ArduinoReads \o ArduinoWrites \o ArduinoTests,
          native |-> NativeReads \o NativeTests]

-----------------------------------------------------------------------------

\* The lines a test is for; the help of the program lists each.
Forms(p) ==
  UNION {{[words |-> test.words, args |-> more, command |-> test.command] : more \in test.args} :
           test \in Range(Tests[p])}

NoLine == [words |-> <<>>, args |-> FALSE, command |-> "none"]

\* A test looks at the beginning of the line, where an argument is any word.
Matches(test, l) ==
  IF test.words = l.words THEN l.args \in test.args
  ELSE TRUE \in test.args /\ IsStrictPrefix(test.words, l.words)

-----------------------------------------------------------------------------

Init == program \in Programs /\ line = NoLine /\ at = 0 /\ reached = "none"

Enter ==
  /\ at = 0
  /\ line' \in Forms(program)
  /\ at' = 1 /\ reached' = "none"
  /\ UNCHANGED program

\* The test at hand decides, or the next one is tried.
Try ==
  /\ at \in DOMAIN Tests[program]
  /\ IF Matches(Tests[program][at], line)
     THEN reached' = Tests[program][at].command /\ at' = 0
     ELSE reached' = reached /\ at' = at + 1
  /\ UNCHANGED <<program, line>>

Unknown ==
  /\ at > Len(Tests[program])
  /\ reached' = "unknown" /\ at' = 0
  /\ UNCHANGED <<program, line>>

Next == Enter \/ Try \/ Unknown

Spec == Init /\ [][Next]_<<program, line, at, reached>>

-----------------------------------------------------------------------------

\* The help of both programs: a line of the form it gives for a command runs
\* that command.
HelpIsTrue == at = 0 => reached = line.command

=============================================================================
