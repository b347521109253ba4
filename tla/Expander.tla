------------------------------ MODULE Expander ------------------------------
(***************************************************************************)
(* The chip: the writable registers and the command pointer.  The model    *)
(* follows the bus-level fake the repository's tests run against.          *)
(*                                                                         *)
(* The command byte selects a register; each data byte the chip accepts    *)
(* lands in the selected register and moves the selection to the other     *)
(* register of the pair.  A transfer may be cut anywhere, so a write of a  *)
(* pair can leave either half of it behind.                                *)
(***************************************************************************)
EXTENDS Registers, Naturals

Chip == [regs : Images, pointer : Pairs]

\* The registers' values are lost, and the pointer selects the input ports.
PowerOnChip == [regs |-> PorImage, pointer |-> "INPUTS"]

\* The pins whose register bits a write that begins with port `start` has
\* rewritten when the chip has accepted `accepted` bytes, the command included.
Reached(start, accepted) ==
  CASE accepted >= 3 -> Pins
    [] accepted = 2 -> PinsOf(start)
    [] OTHER -> {}

Overlay(old, reached, value) == (old \ reached) \cup (value \cap reached)

AcceptCommand(chip, pair, accepted) ==
  [chip EXCEPT !.pointer = IF accepted >= 1 THEN pair ELSE @]

AcceptWrite(chip, pair, start, value, accepted) ==
  [regs |-> [chip.regs EXCEPT ![pair] = Overlay(@, Reached(start, accepted), value)],
   pointer |-> AcceptCommand(chip, pair, accepted).pointer]

=============================================================================
