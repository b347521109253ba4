--------------------------- MODULE MC_Diagnostics ---------------------------
(***************************************************************************)
(* The commands of both example programs, on a chip of one pin.            *)
(***************************************************************************)
EXTENDS Diagnostics, TLC

OnePin == {"P00"}
OnePort == [pin \in OnePin |-> 0]

A == INSTANCE ArduinoCli
N == INSTANCE NativeCli

\* Most scripts are the same in both programs, and those are run once.
NativeOwn == {n \in DOMAIN N!Commands : \A a \in DOMAIN A!Commands :
                N!Commands[n] # A!Commands[a]}

BothPrograms == A!Commands @@ [n \in NativeOwn |-> N!Commands[n]]

RecoveryImages == {PorImage}

\* The observation record and the command pointer decide nothing that a program
\* or a property here looks at: states that differ only in them are one.
WithoutObservations ==
  <<chip.regs, bound, ev.shadow, ev.valid, ev.uncertain, slot, call, late, stale, owed, task>>

=============================================================================
