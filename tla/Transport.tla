----------------------------- MODULE Transport -----------------------------
(***************************************************************************)
(* The boundary between the driver and the injected I2C callbacks.  A      *)
(* callback makes one physical attempt and returns a TransportResult; the  *)
(* driver turns it into an error and a WriteEffect, the evidence on which  *)
(* every decision about the shadow and the command pointer rests.          *)
(*                                                                         *)
(* What really happened on the bus is the number of transmit bytes the     *)
(* device accepted, which the driver never sees.  HonestWrite and          *)
(* HonestRead are the contract that ties it to the reported result.        *)
(***************************************************************************)
EXTENDS Naturals

TransportCode == {"OK", "NACK_ADDRESS", "NACK_DATA", "TIMEOUT", "BUS_ERROR", "IO_ERROR"}

WriteEffect == {"NOT_APPLICABLE", "NOT_ATTEMPTED", "COMMITTED", "MAY_HAVE_COMMITTED"}

MaxTxBytes == 3  \* a command byte and a register pair
MaxRxBytes == 2

TransportResult == [code : TransportCode, writeEffect : WriteEffect,
                    completedTxBytes : 0..MaxTxBytes, completedRxBytes : 0..MaxRxBytes]

Complete(result, expectedTx, expectedRx) ==
  /\ result.code = "OK"
  /\ result.completedTxBytes = expectedTx
  /\ result.completedRxBytes = expectedRx

\* The effect of a register write of expectedTx bytes, the command included.
RegisterWriteEffect(result, expectedTx) ==
  CASE Complete(result, expectedTx, 0) -> "COMMITTED"
    [] /\ ~Complete(result, expectedTx, 0)
       /\ result.writeEffect = "NOT_ATTEMPTED"
       /\ \/ result.completedTxBytes = 0
          \/ expectedTx > 1 /\ result.completedTxBytes <= 1 -> "NOT_ATTEMPTED"
    [] OTHER -> "MAY_HAVE_COMMITTED"

\* The effect of the one-byte command phase of a read.
CommandEffect(result) ==
  CASE result.completedTxBytes = 1 -> "COMMITTED"
    [] /\ result.completedTxBytes = 0
       /\ result.completedRxBytes = 0
       /\ result.writeEffect = "NOT_ATTEMPTED" -> "NOT_ATTEMPTED"
    [] OTHER -> "MAY_HAVE_COMMITTED"

\* The Err a result maps to: a short "successful" transfer is an error too.
MappedError(result, expectedTx, expectedRx) ==
  CASE Complete(result, expectedTx, expectedRx) -> "OK"
    [] result.code = "NACK_ADDRESS" -> "I2C_NACK_ADDR"
    [] result.code = "NACK_DATA" -> "I2C_NACK_DATA"
    [] result.code = "TIMEOUT" -> "I2C_TIMEOUT"
    [] result.code = "BUS_ERROR" -> "I2C_BUS"
    [] OTHER -> "I2C_ERROR"

-----------------------------------------------------------------------------
(* The callback contract.  Reported bytes are bytes known accepted, so they *)
(* are a lower bound.  For a write the reported effect speaks of register   *)
(* data after the command byte; for a read it speaks of the command byte.   *)

HonestWrite(result, expectedTx, accepted) ==
  /\ result.completedTxBytes <= accepted
  /\ accepted <= expectedTx
  /\ result.completedRxBytes = 0
  /\ result.writeEffect = "NOT_ATTEMPTED" => accepted <= 1
  /\ result.writeEffect = "COMMITTED" => accepted = expectedTx

HonestRead(result, expectedRx, accepted) ==
  /\ result.completedTxBytes <= accepted
  /\ accepted <= 1
  /\ result.completedRxBytes <= expectedRx
  /\ result.completedRxBytes > 0 => accepted = 1
  /\ result.writeEffect = "NOT_ATTEMPTED" => accepted = 0
  /\ result.writeEffect = "COMMITTED" => accepted = 1

-----------------------------------------------------------------------------
(* What one callback can leave behind: whether the driver sees success, the *)
(* effect it infers and, on the bus, how many transmit bytes were accepted. *)

HonestWrites(expectedTx) ==
  {attempt \in TransportResult \X (0..expectedTx) :
     HonestWrite(attempt[1], expectedTx, attempt[2])}

HonestReads(expectedRx) ==
  {attempt \in TransportResult \X (0..1) : HonestRead(attempt[1], expectedRx, attempt[2])}

WriteOutcomes(expectedTx) ==
  {[ok |-> Complete(attempt[1], expectedTx, 0),
    effect |-> RegisterWriteEffect(attempt[1], expectedTx),
    accepted |-> attempt[2]] : attempt \in HonestWrites(expectedTx)}

ReadOutcomes(expectedRx) ==
  {[ok |-> Complete(attempt[1], 1, expectedRx),
    effect |-> CommandEffect(attempt[1]),
    accepted |-> attempt[2]] : attempt \in HonestReads(expectedRx)}

\* By the number of bytes transmitted, and received.
WriteOutcome == <<WriteOutcomes(1), WriteOutcomes(2), WriteOutcomes(3)>>

ReadOutcome == <<ReadOutcomes(1), ReadOutcomes(2)>>

=============================================================================
