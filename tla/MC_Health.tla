----------------------------- MODULE MC_Health -----------------------------
(***************************************************************************)
(* Counters with limits low enough to be passed.                           *)
(***************************************************************************)
EXTENDS Health

TwoErrors == {"I2C_NACK_ADDR", "I2C_TIMEOUT"}
=============================================================================
