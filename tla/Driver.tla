------------------------------- MODULE Driver -------------------------------
(***************************************************************************)
(* The state shared by every public call of the driver, and the steps they *)
(* are made of.  The driver is single-threaded and non-reentrant: a public *)
(* call runs to its end before another begins.  It does make up to three   *)
(* callbacks, though, and the chip can lose power between any two of them, *)
(* so the atomic step here is one callback together with the code around   *)
(* it, and `call` is what the interrupted call will do next.               *)
(***************************************************************************)
EXTENDS Evidence, Expander, Transport

CONSTANTS CallPairs,     \* the pairs the synchronous calls are exercised on
          RequestIds,    \* the request IDs callers use
          Kinds,         \* the cooperative operations that are started
          CallerImages,  \* the complete images callers apply or verify
          Budgets,       \* the nonzero transaction budgets of a poll
          PowerLoss      \* whether the chip may lose power

ASSUME CallerAssumption ==
  /\ CallPairs \subseteq Pairs
  /\ RequestIds \subseteq Nat \ {0}
  /\ Kinds \subseteq {"APPLY_IMAGE", "VERIFY_IMAGE", "READ_INPUTS"}
  /\ CallerImages \subseteq Images
  /\ Budgets \subseteq Nat \ {0}
  /\ PowerLoss \in BOOLEAN

VARIABLES
  chip,     \* the expander on the bus
  bound,    \* a binding is stored (_bound)
  ev,       \* shadow and observations
  slot,     \* the one cooperative operation (_operation)
  call,     \* the rest of the public call in progress
  late,     \* the caller's clock has passed the active operation's deadline
  stale,    \* history: bits a power loss reset, and no transfer has met since
  excused,  \* history: the pointer is on the inputs, and the owner knows why
  owed      \* history: operations admitted, less results taken

vars == <<chip, bound, ev, slot, call, late, stale, excused, owed>>

-----------------------------------------------------------------------------
(* The rest of a call: which callback comes next, the value and port it is  *)
(* for, and how many more callbacks a poll may make.                        *)

Stages == {"IDLE",             \* no call in progress
           "ENABLE_PAIR",      \* latches preloaded, direction pair is next
           "ENABLE_PORT",      \* latches preloaded, direction byte is next
           "OBSERVE_POLARITY", "OBSERVE_DIRECTIONS",  \* readObservedState
           "PARK_NOTHING", "PARK_PAIR", "PARK_PORT",  \* park after an input read
           "POLLING"}          \* inside pollOperation's loop

MaxBudget == 8

Calls == [stage : Stages, value : Values, port : Ports, left : 0..MaxBudget]

Idle == [stage |-> "IDLE", value |-> {}, port |-> 0, left |-> 0]

Then(stage, value, port) == [stage |-> stage, value |-> value, port |-> port, left |-> 0]

Polling(left) == IF left = 0 THEN Idle ELSE [Idle EXCEPT !.stage = "POLLING", !.left = left]

\* A synchronous I2C call passes its guards: bound, and no operation owns the bus.
Ready == call = Idle /\ bound /\ ~slot.active

\* ... and a cached read-modify-write may also rely on the given pairs' shadows.
shadowStatus(pairs) ==
  Ready /\ pairs \cap ev.uncertain = {} /\ pairs \subseteq ev.valid

-----------------------------------------------------------------------------
(* One callback and its effect on the chip, without what the driver makes  *)
(* of it.                                                                  *)

Write(pair, start, value, outcome) ==
  /\ chip' = AcceptWrite(chip, pair, start, value, outcome.accepted)
  /\ stale' = [stale EXCEPT ![pair] = @ \ Reached(start, outcome.accepted)]
  /\ excused' = (excused /\ outcome.accepted = 0)

\* A command byte alone: a read's command phase, a probe or a pointer park.
Command(pair, outcome) ==
  /\ chip' = AcceptCommand(chip, pair, outcome.accepted)
  /\ excused' = (excused /\ outcome.accepted = 0)

\* The read of a whole pair of writable registers.
readPair(pair, outcome) ==
  /\ Command(pair, outcome)
  /\ stale' = IF outcome.ok THEN [stale EXCEPT ![pair] = {}] ELSE stale
  /\ ev' = IF outcome.ok THEN recordPairObservation(ev, pair, chip.regs[pair])
                         ELSE failedPairRead(ev, pair)

\* The read of one writable register.
readWritablePortRegister(pair, port, outcome) ==
  /\ Command(pair, outcome)
  /\ stale' = IF outcome.ok THEN [stale EXCEPT ![pair] = @ \ PinsOf(port)] ELSE stale
  /\ ev' = IF outcome.ok
           THEN syncObservedRegister(ev, pair, port, portValue(chip.regs[pair], port))
           ELSE ev

\* The read of one or both input registers; the observation of a successful
\* one is recorded only when the park that follows has been attempted.
readInputRegisters(whole, outcome) ==
  /\ Command("INPUTS", outcome)
  /\ ev' = IF whole /\ ~outcome.ok THEN failedPairRead(ev, "INPUTS") ELSE ev
  /\ UNCHANGED stale

\* The write of a whole pair: both bytes in one callback.
writePairTo(pair, value, outcome) ==
  /\ Write(pair, 0, value, outcome)
  /\ ev' = writeRegs(ev, pair, value, TRUE, outcome)

\* The write of one port's byte; intended is the pair it should leave.
writePortTo(pair, port, value, intended, outcome) ==
  /\ Write(pair, port, value, outcome)
  /\ ev' = writePort(ev, pair, intended, outcome)

\* The pointer park: one command byte, that of the output pair.  When the
\* attempt fails, the owner has been told that the pointer may be on the inputs.
parkPointer(outcome) ==
  /\ chip' = AcceptCommand(chip, "OUTPUTS", outcome.accepted)
  /\ excused' = (outcome.accepted = 0 /\ (excused \/ chip.pointer = "INPUTS"))
  /\ UNCHANGED stale

-----------------------------------------------------------------------------
(* Power loss: the chip comes back with its power-on registers, and nothing *)
(* tells the driver.                                                        *)

PowerCycle ==
  /\ PowerLoss
  /\ chip' = PowerOnChip
  /\ stale' = [pair \in WritablePairs |-> Pins]
  /\ excused' = TRUE
  /\ UNCHANGED <<bound, ev, slot, call, late, owed>>

=============================================================================
