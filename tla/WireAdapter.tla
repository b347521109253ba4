---------------------------- MODULE WireAdapter ----------------------------
(***************************************************************************)
(* The Arduino transport callbacks, wireWrite and wireWriteRead, as built  *)
(* for the ESP32.  Every theorem about the driver assumes callbacks that   *)
(* tell the truth about the bus; this module checks that these two do,     *)
(* whatever the Wire library answers.  A call is taken apart into the calls*)
(* it makes to Wire, whose answers are the environment's choice.           *)
(***************************************************************************)
EXTENDS Callback

CONSTANTS TimeoutMax,   \* WIRE_TIMEOUT_MAX_MS
          Requests,     \* the timeouts the driver asks for
          Configured    \* the timeout the application has given its Wire

ASSUME WireAssumption ==
  /\ TimeoutMax \in Nat \ {0}
  /\ Requests \subseteq Nat
  /\ Configured \in Nat

VARIABLES
  timeOut,   \* the timeout Wire has now
  request    \* the timeout this callback was given

\* maybeSent: Wire reported neither that nothing went out nor that nobody answered.
vars == <<kind, tx, rx, step, timeOut, request, result, accepted, maybeSent>>

clampWireTimeoutMs(ms) == IF ms = 0 THEN 1 ELSE IF ms > TimeoutMax THEN TimeoutMax ELSE ms

\* Mistakes: a data NACK is taken for proof that nothing was accepted, or an
\* unanswered address for a doubt.
mapWireResultTrusting(code, effect) ==
  CASE code \in 1..3 -> Error("NACK_DATA", "NOT_ATTEMPTED", 0, 0)
    [] OTHER -> Error("IO_ERROR", effect, 0, 0)

mapWireResultDoubting(code, effect) == Error("IO_ERROR", effect, 0, 0)

\* A nonzero endTransmission() code; 1 and 2 prove that nothing was written.
mapWireResult(code, effect) ==
  CASE code = 1 -> Error("IO_ERROR", "NOT_ATTEMPTED", 0, 0)
    [] code = 2 -> Error("NACK_ADDRESS", "NOT_ATTEMPTED", 0, 0)
    [] code = 3 -> Error("NACK_DATA", effect, 0, 0)
    [] code = 4 -> Error("BUS_ERROR", effect, 0, 0)
    [] code = 5 -> Error("TIMEOUT", effect, 0, 0)
    [] OTHER -> Error("IO_ERROR", effect, 0, 0)

\* Mistake: the driver's timeout stays behind.
ReturnKeepingTimeout(answer) ==
  /\ step' = "RETURNED"
  /\ result' = answer
  /\ UNCHANGED <<kind, tx, rx, request, timeOut>>

\* The callback returns, and Wire has its previous timeout again.
Return(answer) ==
  /\ step' = "RETURNED"
  /\ result' = answer
  /\ timeOut' = Configured
  /\ UNCHANGED <<kind, tx, rx, request>>

GoOn(next) ==
  /\ step' = next
  /\ UNCHANGED <<kind, tx, rx, request, timeOut, result>>

-----------------------------------------------------------------------------
(* The answers of the Wire library *)

Codes == 0..6

\* endTransmission() with this code left so many bytes accepted.  Without the
\* STOP it may only have queued them for requestFrom().
SentWith(code, stop, count) ==
  CASE code = 0 -> count = tx \/ (~stop /\ count = 0)
    [] code \in {1, 2} -> count = 0
    [] OTHER -> count \in 0..tx

-----------------------------------------------------------------------------
(* The two callbacks *)

\* A callback begins: without a Wire object it fails at once, else it applies
\* the requested timeout and begins the transmission.
Begin(which, txLen, rxLen, ms) ==
  /\ step = "RETURNED"
  /\ kind' = which /\ tx' = txLen /\ rx' = rxLen
  /\ request' = ms
  /\ accepted' = 0 /\ maybeSent' = FALSE
  /\ \/ /\ step' = "RETURNED"
        /\ result' = Error("IO_ERROR", "NOT_ATTEMPTED", 0, 0)
        /\ UNCHANGED timeOut
     \/ /\ step' = "FILL"
        /\ timeOut' = clampWireTimeoutMs(ms)
        /\ UNCHANGED result

\* write(): the bytes go to Wire's buffer; too few of them end the call.
Fill ==
  /\ step = "FILL"
  /\ \E written \in 0..tx :
       IF written = tx
       THEN GoOn("SEND")
       ELSE Return(Error("IO_ERROR", "NOT_ATTEMPTED", 0, 0))
  /\ UNCHANGED <<accepted, maybeSent>>

\* endTransmission(true): the whole write.
SendWrite ==
  /\ kind = "WRITE" /\ step = "SEND"
  /\ \E code \in Codes, count \in 0..MaxTxBytes :
       /\ SentWith(code, TRUE, count)
       /\ accepted' = count
       /\ maybeSent' = (code \notin {1, 2})
       /\ Return(IF code = 0 THEN Ok(tx, 0) ELSE mapWireResult(code, "MAY_HAVE_COMMITTED"))

\* endTransmission(false): the command phase, or its queueing.
SendCommand ==
  /\ kind = "READ" /\ step = "SEND"
  /\ \E code \in Codes, count \in 0..MaxTxBytes :
       /\ SentWith(code, FALSE, count)
       /\ accepted' = count
       /\ maybeSent' = (code \notin {1, 2})
       /\ IF code = 0 THEN GoOn("RECEIVE")
                      ELSE Return(mapWireResult(code, "MAY_HAVE_COMMITTED"))

\* Mistake: the count of requestFrom() is not looked at.
ReceiveUnchecked ==
  /\ step = "RECEIVE"
  /\ accepted' \in {accepted, tx}
  /\ GoOn("COPY")
  /\ UNCHANGED maybeSent

\* requestFrom(): a received byte proves that the command was accepted, none
\* proves nothing.
Receive ==
  /\ step = "RECEIVE"
  /\ \E read \in 0..rx :
       /\ accepted' \in (IF read > 0 THEN {tx} ELSE {accepted, tx})
       /\ IF read = rx
          THEN GoOn("COPY")
          ELSE Return(IF read > 0 THEN Error("IO_ERROR", "COMMITTED", tx, read)
                                  ELSE Error("IO_ERROR", "MAY_HAVE_COMMITTED", 0, 0))
  /\ UNCHANGED maybeSent

\* available() and read(): the bytes are there, or Wire has fewer than it said.
Copy ==
  /\ step = "COPY"
  /\ \E copied \in 0..rx :
       Return(IF copied = rx THEN Ok(tx, rx) ELSE Error("IO_ERROR", "COMMITTED", tx, copied))
  /\ UNCHANGED <<accepted, maybeSent>>

Init ==
  /\ kind = "WRITE" /\ tx = 1 /\ rx = 0
  /\ step = "RETURNED"
  /\ timeOut = Configured
  /\ request = 0
  /\ result = Error("IO_ERROR", "NOT_ATTEMPTED", 0, 0)
  /\ accepted = 0 /\ maybeSent = FALSE

\* The driver writes one to three bytes, and reads one or two after a command.
wireWrite == \E txLen \in 1..MaxTxBytes, ms \in Requests : Begin("WRITE", txLen, 0, ms)

wireWriteRead == \E rxLen \in 1..MaxRxBytes, ms \in Requests : Begin("READ", 1, rxLen, ms)

Next == wireWrite \/ wireWriteRead \/ Fill \/ SendWrite \/ SendCommand \/ Receive \/ Copy

Spec == Init /\ [][Next]_vars

-----------------------------------------------------------------------------

TypeOK ==
  /\ kind \in {"WRITE", "READ"}
  /\ tx \in 1..MaxTxBytes /\ rx \in 0..MaxRxBytes
  /\ step \in {"RETURNED", "FILL", "SEND", "RECEIVE", "COPY"}
  /\ timeOut \in Nat /\ request \in Nat
  /\ result \in TransportResult
  /\ accepted \in 0..MaxTxBytes /\ maybeSent \in BOOLEAN

\* While a callback may use the bus Wire has the driver's timeout, clamped to
\* what it can hold; after every way out it has the application's again.
TimeoutScoped ==
  timeOut = IF step \in {"FILL", "SEND", "RECEIVE", "COPY"}
            THEN clampWireTimeoutMs(request) ELSE Configured

=============================================================================
