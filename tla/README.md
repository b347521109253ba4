# Formal models of the PCA9555 driver

This directory holds TLA+ models of the PCA9555 I/O expander driver, the TLC
configurations that check them on small instances, and TLAPS proofs of their main
safety properties for every value of the constants. `src/` below is the repository:
the driver itself is `src/src/PCA9555.cpp` with the headers in
`src/include/PCA9555/`, and two example programs drive it from a console, one for
Arduino and one for ESP-IDF. Every definition is read off that code; `PROJECT.json` maps
each one to its lines, and lists the components, runs, mutants, hazards, findings and
theorems.

    tlc -workers 2 -config outputs.cfg MC_PCA9555     # one run
    tlapm PCA9555_proofs.tla                          # one module's proofs

## 1. Inventory of the system

The driver has no thread, clock, heap or bus of its own. One owner calls it, it calls
two injected callbacks (`i2cWrite`, `i2cWriteRead`), and a public call runs to its end
before another begins. It is still a concurrent system in three ways: the chip can lose
its power between any two callbacks of a call, every callback can fail after having
reached the chip in part, and a cooperative operation spreads over many public calls,
between which the owner may do anything else.

| Part | State | Operations | Interacts with |
|---|---|---|---|
| Register map, images (`CommandTable.h`, `PCA9555.h`) | none | byte/pair packing, masks | used by all |
| Transport boundary (`Config.h`, `PCA9555.cpp` 149-231) | `_lastWriteEffect` | `_i2cWriteRaw`, `_i2cWriteReadRaw`, result mapping, effect inference | calls the callbacks; its verdict drives shadow and slot |
| Shadow and observations (`PCA9555.cpp` 267-455) | `_shadow`, `_shadowValidPairs`, `_uncertainPairs`, `_observed` | `_writeRegs`, `establishShadowPair`, `invalidateShadowPair`, `_recordPairObservation`, `_syncObservedRegister` | every register call |
| Synchronous calls (`PCA9555.cpp` 456-550, 942-1360) | none between calls | about 45 public calls of one to three callbacks | guards read the slot, the shadow; effects go to both chip and shadow |
| Cooperative operation (`PCA9555.cpp` 81-122, 555-940) | `_operation` (one slot) | start, poll, cancel, time out, take; eight I2C phases | owns the bus while active; blocks `bind`, `detach` waits for a park |
| Poll arithmetic (`PCA9555.cpp` 555-558, 832-927) | `deadlineMs`, `transactionsUsed`, `_callbackTimeoutMs` | limit of callbacks, share of time per callback | the caller's wrapping clock |
| Health (`PCA9555.cpp` 190-266) | state, counters, last error, timestamps | `_updateHealth`, three tracked wrappers | every callback |
| Arduino transport (`examples/common/I2cTransport.h`) | the timeout of `Wire` | `wireWrite`, `wireWriteRead`, `initWire` | implements the callbacks |
| The chip | registers, pointer, INT | I2C transfers, power loss | modelled from the tests' bus fake |
| ESP-IDF transport (`examples/espidf_basic/main/main.cpp` 100-335) | a device handle and the address it is for | `ensureDevice`, `i2cWrite`, `i2cWriteRead` | implements the callbacks |
| Example programs (`01_basic_bringup_cli/main.cpp`, `espidf_basic/main/main.cpp`) | the command in progress, what it saved | about 50 commands: reads, edits, pin tests, self test, stress, recovery | call the driver; restore what they changed |
| Status and version headers; example support headers; HIL runner; packaging scripts | values, console, report | printing, text checks | users of the driver |

What is hard here, and what makes each part correct:

- **Partial failure.** A write can be refused, cut after the command or after one byte, or
  complete but reported as an error. *The shadow may be called valid only if it is right*
  (`ShadowSound`), and what the driver says about a pair must never contradict itself
  (`EvidenceConsistent`, `ObservationWhole`).
- **Stale knowledge.** A cached read-modify-write and a one-port write adopt bits from a
  shadow that something earlier may have voided, and a power loss is invisible.
  *An output is enabled only on a known latch* (`LatchBeforeEnable`), unless a power loss reset that latch.
- **The interrupt erratum.** After a read of the inputs the command pointer must be
  parked away from them, on every error path, cancellation, deadline and detach
  (`PointerDebt`, `CleanupNeverAbandoned`).
- **Long protocols.** Start, poll, cancel, time out, detach, rebind and take in any order
  over one slot: each operation gives exactly one result (`ExactlyOnce`,
  `ResultStable`, `FirstCauseWins`), owns the bus (`ActiveOwnsBus`), reports what it did
  (`VerifiedBeforeInputs`, `SuccessMeansImage`, `WriteFailureClassified`), never runs out
  of callbacks (`TransfersSuffice`) and comes to an end (`OperationEnds`, `ParkHappens`).
- **Boundaries of numbers.** A 32-bit clock that wraps, a time allowance shared out in
  whole milliseconds, counters at their limits.
- **The callbacks' own honesty.** Everything rests on a contract the driver cannot check;
  the callbacks of both example programs must keep it (`AdapterHonest`, `DoubtIsReal`,
  `SuccessIsComplete`), the one without losing the application's timeout (`TimeoutScoped`), the
  other through the handle of the address it was given (`NativeRightDevice`).
- **Restoring through failures.** A diagnostic drives pins that somebody's circuit is
  connected to, and puts them back through the same failing bus. *However a command
  ends, no pin is left driving a level of the diagnostic* (`SafeAtEnd`), since at each step
  what the script knows of the saved latches is what the next one relies on (`OutlineTrue`);
  saved outputs are enabled only over saved latches (`RestoreEnablesSaved`), a command without failures
  leaves nothing changed (`QuietEndIsRestored`), and a recovery leaves no operation
  behind (`RecoveryDrains`).

The list in `PROJECT.json` names 34 hazards at their lines. One has no property, since nothing the driver could do
avoids it: a power loss between the preload and the direction write of one call.

## 2. The modules

| Module | Models | Lines of code it stands for |
|---|---|---|
| `Registers` | register pairs as sets of pins, power-on image, one port of a pair | `CommandTable.h`, helpers of `PCA9555.cpp` |
| `Transport` | results, their classification, the callback contract | `Config.h`, `_i2cWriteRaw`, `_i2cWriteReadRaw` |
| `Expander` | the chip: registers, pointer, cut transfers, power loss | external; as `FakeBus` of `test/test_basic.cpp` |
| `Evidence` | shadow and observations, every update of them | `_writeRegs`, `establishShadowPair`, ... |
| `Driver` | the shared variables, one callback with the code around it | the private helpers |
| `SyncCalls` | all synchronous public calls, one action each | `PCA9555.cpp`, second half |
| `OperationSlot` | binding and the cooperative operation | `PCA9555.cpp`, `bind`/`detach`, operation calls |
| `PCA9555` | composition, specification, properties | |
| `PollBudget` | clock, deadline, limit and time shares of a poll | `deadlineReached`, `pollOperation` |
| `Callback` | the call in progress, the I2C transaction under it, and what any callbacks must keep | the contract of `Config.h` |
| `WireAdapter` | the two Arduino callbacks, call by call to `Wire` | `I2cTransport.h` |
| `NativeAdapter` | the two ESP-IDF callbacks and the cached device | `ensureDevice`, `i2cWrite`, `i2cWriteRead` |
| `Adapters` | the callbacks of both programs, one program in each behaviour | composition |
| `Health` | the health record | `_updateHealth`, the tracked wrappers, `bind`, `detach` |
| `OperationPromise` | what an owner may rely on of an operation, without its phases | abstract; implemented by `PCA9555` |
| `DiagnosticSteps` | driver calls, steps, scripts and restore routines as data | the shared shape of both programs |
| `ArduinoCli`, `NativeCli` | each command of a program as a script | both `main.cpp` |
| `ScriptOutline` | what a script that saves latches and directions knows of them at each step | none: the outline of an argument about the scripts |
| `Diagnostics` | runs scripts on the driver, callback by callback | the restore helpers, `applyExampleRecoveryImage`, the `run...` and `cmd...` functions |
| `CommandLine` | which command a line finds | `processCommand`, `handleCommand` |
| `MC_*` | instances for TLC | |
| `*_proofs` | lemmas and theorems | |

`Driver` extends `Evidence`, `Expander` and `Transport`; `SyncCalls` and
`OperationSlot` extend `Driver`; `PCA9555` interleaves their actions with
`DeadlinePasses` and `PowerCycle`. `Diagnostics` extends `PCA9555` with one variable and
composes its actions, not copies of them; `ScriptOutline` gives it vocabulary only, and no action
looks at an outline. `PollBudget`, `WireAdapter`, `NativeAdapter` and
`Health` are
specifications of their own that share no variable with the core: the core chooses
nondeterministically what they determine (the number of callbacks of a poll, the result
of a callback) or leaves it out (health), and they show that the choice is theirs to make.
`Callback` extends `Transport`, so the contract the adapters are checked against is the very
definition the core assumes.

Operators whose comment begins with "Mistake" are plausible bugs of the operator after
them. No specification uses them; they are there to show that each property would notice.

### How state and actions correspond to the code

| Variable | Code |
|---|---|
| `chip` | the registers and the pointer of the chip |
| `bound` | `_bound` |
| `ev` | `_shadow`, `_shadowValidPairs`, `_uncertainPairs`, `_observed` |
| `slot` | `_operation` with its result |
| `call` | the program counter, argument and loop count of the public call in progress |
| `late` | `deadlineReached()` on the owner's present clock |
| `stale`, `excused`, `owed` | history only, see below |

- **A step is one callback** and the code around it, because power can fail between two
  callbacks of one call but nothing else can happen there. `call` says what the
  interrupted call does next, and every action that begins a public call requires
  `call = Idle`.
- **A pair is the set of pins whose bit is 1**, so `|`, `& ~` and `^` are set operations.
  A port's byte is the part of it on that port's pins.
- **A refused call is a stuttering step**, as are calls with an empty mask and the Boolean
  overloads' argument checks: they touch nothing. Wrong request IDs and invalid
  pins are refused before any state changes.
- **Transfers.** `WriteOutcome[n]` and `ReadOutcome[n]` are all the triples (seen as
  success, inferred effect, bytes really accepted) that an honest callback can produce
  for n bytes. They are computed by applying the code's classification to every
  `TransportResult` that satisfies the contract: reported bytes are a lower bound, and a
  result never denies bytes the chip accepted. `_lastWriteEffect` is the effect
  of that triple and so not a variable: `_writeRegs` assigns the field in every write it makes, and each
  reader reads it right after one. That no reader sees an older value is thus read off the code, and not
  checked.
- **Stale bits.** `stale` is the set of register bits reset by a power loss that no
  transfer has touched since. The driver cannot know them, so the properties about the
  chip speak of all others.
- **Excused pointer.** `excused` is true when the pointer is on the inputs for a reason
  the owner knows: power-on, or a park that was attempted and failed with an error.
- **Left out of the core:** input levels, timestamps (no decision depends on them), health
  (its own module), the wording of statuses, the INT output.
- **Poll limit.** `pollOperation` picks any limit from 1 to the lesser of the budget and the
  remaining transactions: `callLimit` in `PollBudget` can come out as any of
  these, depending on the milliseconds left. `PollWithinOperation` shows it is never more.
- **Time.** `late` may become true at any moment of an active operation, also between two
  callbacks of a poll; as in the code, a poll looks at it only on entry.

### How the example programs are modelled

A command that talks to the device is a **script**: the driver calls it makes in order, each
with what the program does when that call fails.

| Step | In the code | After a failure |
|---|---|---|
| `Try` | the result is printed or counted | goes on |
| `Skip(.., n)` | `if (st.ok()) {...}` around the next n calls | passes over them |
| `Must(.., routine)` | `if (!st.ok()) { restore...(); return; }` | ends with the routine |

Loops over pins, patterns and cycles go round any number of times, and may be left early
where the code breaks out of them. Arguments and patterns are any value; a value read
before the change and written back is `SAVED`, an edit of bits is an edit of the
shadow by any mask. The restore routines are sets of phases with a fixed order
(latches, polarity, directions, all inputs), and `RestoreAfter` says what is left of one when a
phase fails. The variable `task` is the command's place: script and step, rest of the
routine, saved values, whether a call failed (`failed`), and whether the last resort,
every pin an input, failed too (`exposed`).

Each call of a script goes through the driver's own guards and is interrupted after each
callback, where power can fail, an active operation's deadline can pass, and nothing else
happens: the programs have one thread. A call that the driver refuses (for
want of a shadow, or of a free slot) fails without a callback. Most scripts are the same
in both programs, and the run takes those once.

`CommandLine` is the chain of string tests as data, one test a step; a line is its words.
Validation and parsing of arguments, confirmation prompts, `verbose` and printing are
not in the models: a line that is not accepted calls nothing.

## 3. What the runs check

Every property of a passing run has a mutant in `PROJECT.json`: a definition is replaced by one of
the "Mistake" operators and the run must then fail.

| Run | Instance and bounds | Shows |
|---|---|---|
| `outputs` | two pins on two ports, output and input calls, power loss | `ShadowSound`, `EvidenceConsistent`, `PointerDebt`, `ObservationWhole` |
| `directions` | one pin, output and direction calls, power loss | `LatchBeforeEnable` |
| `apply` | one pin, APPLY_IMAGE alone, budget up to 8, power loss | `TransfersSuffice`, `VerifiedBeforeInputs`, `CleanupNeverAbandoned`, `WriteFailureClassified` |
| `slot` | one pin, all three kinds, input and polarity calls between them, budgets up to 8 | `TypeOK`, `ExactlyOnce`, `ActiveOwnsBus`, `PointerDebt`, `ResultStable`, `FirstCauseWins`, `SuccessMeansImage`, `KeepsPromise` |
| `progress` | one pin, apply and input operations, fairness | `OperationEnds`, `ParkHappens` |
| `diagnostics` | one pin, every command of both programs, power loss | `TaskTypeOK`, `OutlineTrue`, `SafeAtEnd`, `QuietEndIsRestored`, `RecoveryDrains`, `RestoreEnablesSaved` |
| `budget` | clock of 16 values, timeouts to 7, 14 ms after admission, 5 transactions | `TypeOK`, `DeadlineExact`, `PollWithinOperation`, `DeadlineKept`, `CallbackTimed` |
| `adapters` | every code, count and cut of the callbacks of both programs; timeouts below, at and above the limit of `Wire`; two addresses for the ESP-IDF callbacks | `AdapterHonest`, `DoubtIsReal`, `SuccessIsComplete`, `TimeoutScoped`, `NativeTypeOK`, `NativeRightDevice` |
| `health` | limits 2 and 4, up to 8 callbacks per binding | `TypeOK`, `StateTellsLatest`, `CountersSaturate`, `ErrorLeavesDegraded` |
| `readback`, `enabling`, `unreachable` | see findings | violations |

Why the bounds are enough. The driver treats the pins of a port alike, and the
ports differ only in which byte is first; `outputs` has a pin on each, so
that a byte differs from a pair and the halves of a cut write differ. One pin suffices for
questions about phases, slots and scripts: their control looks at no bit, and each
property of theirs speaks of one pin at a time. The theorems of section 5 hold for any
pins. Nothing else is bounded in the core: values, transport
results, call orders and lengths of histories are complete, so its runs explore their
whole state spaces. `owed` stays at 0 or 1. Request IDs matter only for equality
with the active one, and a different one is refused, so there is one. The calls are
split over `CallPairs` because the pairs' evidence is independent but for
`LatchBeforeEnable`, whose run has both pairs. `outputs` reads polarity and directions
too, through `readObservedState`. In `diagnostics` every pair takes part, and the only image is the
recovery's own. In `budget`, `MaxElapsed` and `MaxTransactions`
cap the state; the clock wraps within most operations, and the proofs remove both bounds. In
`health`, `MaxCallbacks` is twice the largest limit.

The ESP-IDF callbacks are checked for two addresses, which is wider than the program: it
binds `gCfg.i2cAddress` alone, and so never replaces a handle. `ensureDevice` is written for any
address, and the second one makes its branches run. All that holds here holds of one address too.

`SuccessMeansImage` is checked in `slot`, where applies and verifications run and other calls
come between; that it also holds when power is lost meanwhile is the theorem's.

Two runs have a VIEW, and it loses nothing. In `slot` it leaves out the observation
record (`observed`, `mismatch` and their flags), which the code writes beside the shadow and
reads only to report it: no guard, no later value of another variable and no property of that
run looks at it. In `diagnostics` it leaves out the command pointer with its `excused` as well,
which likewise decide only their own later values.

The passing runs reach 172,492 (`outputs`), 60,160 (`directions`), 702,034
(`apply`), 232,240 (`slot`, as viewed), 43,463 (`progress`), 1,229,359 (`diagnostics`, as
viewed), 632,112 (`budget`), 2,652 (`adapters`)
and 1,633 (`health`) distinct states, each within three minutes on two workers. Deadlock is
checked in every run.

**Fairness** (`FairSpec`). Weak fairness of `ContinueCall` and `executeOperationTransfer`:
a public call that has begun returns, as its callbacks are required to be bounded
(`Config.h`) and its loops are. Weak fairness of `pollOperation`: the owner polls an active
operation with a nonzero budget. The driver cannot make it do so; `src/README.md` leaves
all scheduling to the owner, and without polls the operation indeed stays. Nothing is
assumed of transfers, which may fail for ever, of the deadline, or of the owner's
cancellations and takes.

## 4. Findings

These are disagreements of a document with the code, found while stating the documents'
words as properties.

1. **"Verified" cannot be told from "written"** (`readback`, `AppliedMeansVerified`).
   `src/README.md:255-259` lets a caller skip a second apply when an APPLY_IMAGE result has
   all `PAIR_ALL_WRITABLE` bits in `completedPairs` and no `mismatchPairs`, since the image
   was then read back. `PCA9555.cpp:686` sets the bits when the pairs are *written*,
   and the readback sets the same ones. An apply that is cancelled, expires or fails
   in VERIFY_OUTPUTS passes the README's test with an empty readback. What does
   tell is `observed.validPairs`, or a terminal phase of READ_INPUTS or later:
   `VerifiedBeforeInputs` holds.
2. **`setDirection` does not always preload** (`enabling`, `OutputEnableOrdering`).
   `src/docs/register_reference.md:58-62` says that the library enforces "latch first" in
   `setDirection()`. To *input* it goes to `configureInputBits`
   (`PCA9555.cpp:1181`), which writes the whole direction pair from the shadow with neither
   preload nor a look at the output shadow. After an unnoticed power loss that write
   enables the pair's *other* outputs on their power-on latches.
   `LatchBeforeEnable` is the weaker statement that does hold: it excepts this, a
   one-callback call while the power loss has been met by no transfer, and latches reset between
   the preload and the direction write of a call, of which no driver could know.

3. **`dir port` is unreachable** (`unreachable`, `HelpIsTrue`).
   The help of both programs lists `dir port <P> <V> / dport <P> <V>` (`src/examples/01_basic_bringup_cli/main.cpp:2197`,
   `src/examples/espidf_basic/main/main.cpp:502`). `processCommand` tests for the prefix `dir ` first, so the line
   `dir port 0 0xFF` finds `cmdSetDirection`, which rejects `port` as a pin number. Only the short
   form `dport` works. The order of the tests is the same in both programs, and no other line
   of either help is hidden.

## 5. What is proved

All proofs are checked by TLAPS for arbitrary constants under the named
assumptions: `PortAssumption` (each pin has a port), `CallerAssumption` (request IDs
positive, images total, budgets positive), `BudgetAssumption` (timeouts below half the clock range,
1 to 8 transactions), `WireAssumption`, `HealthAssumption` (limits positive),
`ProgramAssumption` and `ScriptAssumption` (what scripts are made of), and `OutlineAssumption`,
`FinallyAssumption` and `RecoveryAssumption` (see the programs below). Pins, images, request IDs and
clock ranges may be of any number.

**The core** (`PCA9555_proofs`): `TypeCorrect`, `ShadowIsSound`,
`EvidenceIsConsistent`, `LatchesComeFirst`, `NoResultLost`, `OperationOwnsBus`,
`TransactionsNeverRunOut`.

None of these invariants is inductive alone. `IInv` is their conjunction with

- `CallInv`: a call between callbacks excludes an active operation (and a poll needs one);
  a call that waits to write the directions has a *valid* output shadow, because the
  preload succeeded; a pending byte fits its port.
- `SlotInv`: an operation that is about to write polarity or directions has a valid output
  shadow, because the outputs were written first and nothing else got at the bus.

The argument runs in four layers. `WriteOutcomeFacts` and `ReadOutcomeFacts` extract from the
contract what the classification guarantees: COMMITTED means every byte was accepted,
NOT_ATTEMPTED that no data byte was. The lemmas about the operators, which come first, show that each update
of the evidence keeps it consistent, and keeps it sound for the chip the same callback leaves
behind. `SyncCallStep` and `ContinueCallStep` reduce the 45 calls to eight
kinds of callback (`CallbackStep`), so that preservation is proved eight times and not
45 times; in it lies the case analysis of the masks. Finally each operation action is
one lemma (`...KeepsIInv`). `LatchesComeFirst` then shows that no step allowed by `IInv` enables a
pin that is neither known nor unmet.

**Poll arithmetic** (`PollBudget_proofs`): `DeadlineIsExact`, `DeadlineIsKept`,
`CallbackIsTimed`, `PollIsWithinOperation`. `IInv` adds `ClockAgrees` (the wrapped
difference of clock and deadline is the true one), `AllowanceFits` (what a poll has not handed
out covers one millisecond for each callback it may still make, and ends by the deadline)
and `ActiveHasCallbacks`. The one nonlinear fact, that a floor share leaves enough for the
others, is the lemma `ShareFits`. `DeadlineExact` claims the comparison only until half a
clock range after the deadline: a poll later than that, 24 days in the code, takes the
deadline for a future one.

**The operation's promises** (`Operation_proofs`): `CleanupIsAttempted`, `ResultsAreStable`,
`FirstCauseIsKept`, `PromiseIsKept`, `ImagesAreVerified`, `SuccessIsTheImage`,
`PointerIsParked`, `FailedWritesAreClassified`, `ObservationsAreWhole`. The last two follow from
`IInv`, by the callbacks that end an apply phase and by those that touch an observation. Three
more invariants carry the others, each on top of `IInv`:

- `SlotShape` relates the fields of the slot: an active operation has no outcome yet,
  one that owes a park has not attempted it, one that has ended attempted what it owed.
  Every action of the driver changes the slot by one of the few cases of `SlotStep`,
  which is proved once per action; cleanup, result stability, first cause and the
  refinement are then proved from `SlotStep` and not from the actions. `PromiseIsKept` maps each
  case to an action of `OperationPromise` or to a stutter.
- `ReadBack` says of the pairs before the operation's phase that each was read back, is valid
  in the shadow with the caller's value or a recorded mismatch, and that an image operation
  comes to the inputs without a mismatch. Each step keeps it and succeeds only with every
  pair so (`Accounted`). It needs that the operation owns the bus, and `ShadowSound`
  turns the shadow into the chip.
- `PointerDebt` is inductive once it is split: a park is owed by the operation or by the call in
  progress (`Owes`), or a pointer on the inputs is `Explained`. Each kind of callback is shown to
  pay or to come to owe.

**The example programs** (`Diagnostics_proofs`): `ProgramsUseTheDriver` shows that
every behaviour of the programs is a behaviour of `Spec` once the program's variable is
forgotten: each step of a script, a restore or a recovery is one of the driver's steps or a
stutter. All theorems on the core therefore hold for the chip below the programs.
`ProgramTyped` types the script's place. `RestoresEnableSaved` adds `TaskInv`: once a
restore routine has got as far as its directions, the latch shadow is valid and is the
saved one, since the phase before it wrote it and a failure would have replaced the
directions by inputs. Both hold for any table of scripts that satisfies `ProgramAssumption`
and `ScriptAssumption`.

**How commands end** (`Outcome_proofs`): `CommandsEndSafely`, `OutlinesHold`,
`QuietCommandsRestore`, `RecoveriesDrain`. They are about every script of a table, and so need to
know something of the scripts, which three assumptions on the constant `Scripts` state. Each
is about the table alone, no state occurs in it, and TLC evaluates all three on the tables of both programs.

- `OutlineAssumption` is about the scripts that save the latches and the directions.
  `Outline` computes, step by step, which of six facts such a script can rely on: that no
  pin has become an output, that a valid shadow is the saved one, that each pin of a port is
  an input or has its saved latch (one fact a port), that all of them do but those a power
  loss has reset, and that the byte it read of port 0 is a saved one. A call costs the
  facts of `Kept` whatever it comes to, and its success establishes those of `Gained`. The
  assumption says that the outline is one: passing over steps after a failure, going round a
  loop and leaving it early know no less, and a script ends, at each step where it may end,
  with a routine that restores what is not known. It is a static check, as of types or of
  initialisation before use.
- `FinallyAssumption`: the routine at the end of a script has a phase for each pair it saves.
- `RecoveryAssumption`: only a recovery touches the operation slot. It starts an operation,
  polls it at least eight times, goes on whatever a poll says, and takes the result.

`ProgramInv` is the inductive invariant: `IInv` and `TaskInv`, and four more.

- `CallKnown`: between two calls what is claimed of the chip and the shadow holds, where
  `Claimed` is the outline at the script's step, or what the phases left of a restore routine do
  not settle. During a call of two callbacks it holds as far as the call cannot cost it, and the call
  is one that is due. The work is in one lemma for each kind of call (`...Facts`): whatever the transfer
  comes to, and whatever part of it the chip took, the chip and the shadow afterwards
  satisfy `Kept`, and after a success `Gained` too. A power loss costs nothing, as all pins
  are then inputs and each latch is excused until something touches it. A read of the latches does
  cost the fact that excuses them, for it meets the power loss. `ShadowSound` is not enough: a write cut
  between its bytes leaves one port restored and the other not, which the facts by port tell apart.
- `KeptSaved`: a command keeps only pairs that its script saves.
- `QuietTrue`: unless a call failed, each pair the command kept is still to be written back or its
  shadow is valid with the saved value; with `ShadowSound` the chip has it.
- `RecoveryTrue`: outside of a recovery the slot is empty; within one, an active
  operation has used a callback for every poll made. As `TransfersSuffice` bounds the callbacks of an
  apply with its cleanup by eight, the last poll has ended it.

`SafeAtEnd` excuses a power loss only in the *level* of a latch that it reset and that nothing has reached
since: the pin of a command that ended may not be left an output against its saved directions, power
loss or not. `RestoreEnablesSaved` leaves such latches out. So when power fails exactly between the restore of the
latches and that of the directions, the outputs come back on their power-on levels, which no
property denies.

**The callbacks** (`Adapters_proofs`, `NativeAdapter_proofs`). On Wire: `AdapterIsHonest`,
`TimeoutIsScoped`, `DoubtsAreReal`, `SuccessesAreComplete`, `AdapterTyped`. In the ESP-IDF program:
`NativeIsHonest`, `TransfersGoRight`, for any number of devices. Of whichever program runs:
`CallbacksKeepContract`, `NativeTyped`, `NativeGoesRight`, from the two invariants; the second is
taken over by an INSTANCE of the module that proves it, once `SameInit` and `SameNext` have
shown the two instances of `NativeAdapter` to be the same. These discharge the assumption of the core
for both transports, up to what the buses under them promise: that `endTransmission` codes 1 and 2 mean
that the device accepted nothing is the contract of the Wire library, which is not part of the repository.

**Health** (`Health_proofs`): `StateIsTrue`, `CountersAreTrue`, `ErrorsStayVisible`, `HealthTyped`.
`BudgetTyped` and `HealthTyped` are the type invariants of their modules.

### Only model-checked

`OperationEnds` and `ParkHappens` stay with TLC: TLAPS does not reason about liveness
under fairness or about ENABLED. What they rest on is proved: every transfer uses a
callback of the operation's supply, and the supply suffices (`TransfersSuffice`). Every other property
of a passing run is stated by a theorem. That the scripts of the two programs satisfy the three
assumptions on their form is TLC's to say, which evaluates them for the tables. There is no induction
over data and no recursive operator in the models.

## 6. What is not modelled

- Input levels, INT and the effect of traffic to *other* devices on it: the erratum is
  represented by the pointer's position only.
- Timestamps of observations and health.
- Callbacks that outlast their timeout, break the contract, or re-enter the driver:
  excluded by `Config.h`. Two threads in the driver: excluded by its documentation.
- `initWire` and board bring-up; the non-ESP32 build of the adapter; the ESP-IDF console
  and bus installation.
- Of the example programs: the parsing of arguments, confirmations, printing and counting of
  results, the bus scan, and the address probe of the ESP-IDF program, which talks to the bus past the
  driver. What a command concludes from what it read (the "PASS" and "FAIL" of a self
  test) is printed and decides no later call.
- The examples' support headers (console, logging, scanner, board constants), the HIL runner,
  packaging and version scripts: text and serial I/O. `Status.h` and `Version.h` hold no state.
- Nothing runs in parallel with a program but the chip's power and the clock: neither program
  starts a second task that calls the driver.

## 7. Plan

Order of work: the evidence and the synchronous calls first, since every other
promise rests on them; then the operation; then the arithmetic, the transports and health
around them; then the operation's promises as theorems and as a refinement, and the
programs on top, with theorems about how their commands end. Those are done. What would follow, in order:

1. *The erratum itself*: INT and a second device on the bus, to show what a parked pointer is good for.
2. *The non-ESP32 build* of the Arduino adapter, against the same contract.
3. *The supply of callbacks as a measure*: that it falls with every transfer, as an action property of
   its own with a theorem, which is the safety part of `OperationEnds`.
