------------------------------ MODULE Callback ------------------------------
(***************************************************************************)
(* One transport callback as the driver sees it, from either example       *)
(* program: what it was asked to transfer, what it returned, and what in   *)
(* truth happened on the bus.  Every theorem about the driver assumes the  *)
(* contract that AdapterHonest states.                                     *)
(***************************************************************************)
EXTENDS Transport

VARIABLES
  kind,      \* "WRITE" or "READ": the callback in progress or returned
  tx, rx,    \* the bytes it is to transmit and to receive
  step,      \* the next thing it does
  result,    \* what it returned
  accepted,  \* history: transmit bytes the device accepted
  maybeSent  \* history: by what the I2C library said, something may have gone out

\* Mistake: the address byte is counted too.
OkWithAddress(txBytes, rxBytes) ==
  [code |-> "OK", writeEffect |-> "COMMITTED",
   completedTxBytes |-> txBytes + 1, completedRxBytes |-> rxBytes]

Ok(txBytes, rxBytes) ==
  [code |-> "OK", writeEffect |-> IF txBytes = 0 THEN "NOT_APPLICABLE" ELSE "COMMITTED",
   completedTxBytes |-> txBytes, completedRxBytes |-> rxBytes]

Error(code, effect, txBytes, rxBytes) ==
  [code |-> code, writeEffect |-> effect,
   completedTxBytes |-> txBytes, completedRxBytes |-> rxBytes]

-----------------------------------------------------------------------------

\* Whatever the I2C library answers, the result keeps the callback contract: it reports no
\* more bytes than the device accepted, and never denies an accepted one.
AdapterHonest ==
  step = "RETURNED" =>
    IF kind = "WRITE" THEN HonestWrite(result, tx, accepted)
                      ELSE HonestRead(result, rx, accepted)

Effect == IF kind = "WRITE" THEN RegisterWriteEffect(result, tx) ELSE CommandEffect(result)

\* The driver is not made to doubt its shadow, or to park the pointer, by a call
\* of which Wire said that nothing went out or that nobody answered.
DoubtIsReal ==
  step = "RETURNED" /\ Effect # "NOT_ATTEMPTED" => maybeSent

\* The driver sees success only of a transfer that was complete.
SuccessIsComplete ==
  step = "RETURNED" /\ MappedError(result, tx, rx) = "OK" => maybeSent /\ accepted = tx

=============================================================================
