---------------------------- MODULE MC_PCA9555 ------------------------------
(***************************************************************************)
(* Small instances of the driver for TLC: one pin, or one pin per port, so *)
(* that a byte and a pair, and the two halves of a pair, are different.    *)
(***************************************************************************)
EXTENDS PCA9555, TLC

OnePin == {"P00"}
TwoPins == {"P00", "P10"}

OnePort == [pin \in OnePin |-> 0]
TwoPorts == ("P00" :> 0) @@ ("P10" :> 1)

\* An image that differs from power-on in every pair.
AllOutputs == [OUTPUTS |-> {}, POLARITY |-> Pins, DIRECTIONS |-> {}]

NoImages == {}
OneImage == {AllOutputs}
AllKinds == {"APPLY_IMAGE", "VERIFY_IMAGE", "READ_INPUTS"}

\* The observation record decides nothing but its own later values: states that
\* differ only in it are one, for the properties that do not look at it.
WithoutObservations ==
  <<chip, bound, ev.shadow, ev.valid, ev.uncertain, slot, call, late, stale, excused, owed>>

=============================================================================
