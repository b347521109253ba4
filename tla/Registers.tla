----------------------------- MODULE Registers -----------------------------
(***************************************************************************)
(* The register map of the expander, as the driver sees it.  A register    *)
(* pair is two bytes, one bit per pin: the model keeps a pair as the set   *)
(* of the pins whose bit is 1, so that `|`, `& ~` and `^` of the source    *)
(* are union, difference and symmetric difference.  Sixteen pins on two    *)
(* ports become the constants Pins and PortOf.                             *)
(***************************************************************************)
CONSTANTS Pins,     \* the pins of the expander (P00..P17 in the source)
          PortOf    \* the port each pin belongs to

Ports == {0, 1}

ASSUME PortAssumption == PortOf \in [Pins -> Ports]

Values == SUBSET Pins

WritablePairs == {"OUTPUTS", "POLARITY", "DIRECTIONS"}

Pairs == WritablePairs \cup {"INPUTS"}

Images == [WritablePairs -> Values]

PinsOf(port) == {pin \in Pins : PortOf[pin] = port}

\* Power-on values: every latch high, nothing inverted, every pin an input.
PorImage == [pair \in WritablePairs |-> IF pair = "POLARITY" THEN {} ELSE Pins]

\* One port's byte replaced in a combined pair (value holds pins of that port).
withPort(combined, port, value) == (combined \ PinsOf(port)) \cup value

portValue(combined, port) == combined \cap PinsOf(port)

=============================================================================
