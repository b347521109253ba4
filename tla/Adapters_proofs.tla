-------------------------- MODULE Adapters_proofs --------------------------
(***************************************************************************)
(* The Arduino callbacks keep the contract on which the theorems about the *)
(* driver rest; with what NativeAdapter_proofs shows of the ESP-IDF ones,  *)
(* the callbacks of both programs do.                                      *)
(***************************************************************************)
EXTENDS Adapters, TLAPS

\* What is known between the calls to Wire: nothing is accepted before
\* endTransmission(), and everything once bytes have come back.
BetweenWireCalls ==
  /\ kind = "READ" => tx = 1 /\ rx > 0
  /\ kind = "WRITE" => rx = 0
  /\ step \in {"FILL", "SEND"} => accepted = 0
  /\ step \in {"RECEIVE", "COPY"} => kind = "READ" /\ rx > 0 /\ maybeSent
  /\ step = "RECEIVE" => accepted \in {0, tx}
  /\ step = "COPY" => accepted = tx

Typed ==
  /\ kind \in {"WRITE", "READ"}
  /\ tx \in 1..MaxTxBytes /\ rx \in 0..MaxRxBytes
  /\ step \in {"RETURNED", "FILL", "SEND", "RECEIVE", "COPY"}
  /\ accepted \in 0..MaxTxBytes

IInv == Typed /\ BetweenWireCalls /\ AdapterHonest /\ TimeoutScoped

\* The fields of an error result.
LEMMA ErrorFields ==
  ASSUME NEW code, NEW effect, NEW txBytes, NEW rxBytes
  PROVE  LET answer == Error(code, effect, txBytes, rxBytes) IN
         /\ answer.code = code /\ answer.writeEffect = effect
         /\ answer.completedTxBytes = txBytes /\ answer.completedRxBytes = rxBytes
BY DEF Error

\* The fields of a successful result.
LEMMA OkFields ==
  ASSUME NEW txBytes \in 1..MaxTxBytes, NEW rxBytes
  PROVE  LET answer == Ok(txBytes, rxBytes) IN
         /\ answer.writeEffect = "COMMITTED"
         /\ answer.completedTxBytes = txBytes /\ answer.completedRxBytes = rxBytes
BY DEF Ok, MaxTxBytes

\* A failed endTransmission() reports no bytes, and denies acceptance only when
\* the code proves it.
LEMMA MappedFields ==
  ASSUME NEW code \in Codes \ {0}
  PROVE  LET answer == mapWireResult(code, "MAY_HAVE_COMMITTED") IN
         /\ answer.writeEffect = (IF code \in {1, 2} THEN "NOT_ATTEMPTED" ELSE "MAY_HAVE_COMMITTED")
         /\ answer.completedTxBytes = 0 /\ answer.completedRxBytes = 0
<1>1. CASE code = 1 BY <1>1 DEF mapWireResult, Error
<1>2. CASE code = 2 BY <1>2 DEF mapWireResult, Error
<1>3. CASE code = 3 BY <1>3 DEF mapWireResult, Error
<1>4. CASE code = 4 BY <1>4 DEF mapWireResult, Error
<1>5. CASE code = 5 BY <1>5 DEF mapWireResult, Error
<1>6. CASE code = 6 BY <1>6 DEF mapWireResult, Error
<1> QED BY <1>1, <1>2, <1>3, <1>4, <1>5, <1>6 DEF Codes

\* Nothing sent and nothing claimed is honest.
LEMMA NothingIsHonest ==
  ASSUME NEW txLen \in 1..MaxTxBytes, NEW rxLen \in 0..MaxRxBytes
  PROVE  LET answer == Error("IO_ERROR", "NOT_ATTEMPTED", 0, 0) IN
         HonestWrite(answer, txLen, 0) /\ HonestRead(answer, rxLen, 0)
BY ErrorFields DEF HonestWrite, HonestRead, MaxTxBytes, MaxRxBytes

-----------------------------------------------------------------------------

\* The invariant holds initially.
LEMMA InitEstablishes == Init => IInv
<1> SUFFICES ASSUME Init PROVE IInv
  OBVIOUS
<1>1. HonestWrite(result, tx, accepted)
  BY NothingIsHonest DEF Init, MaxTxBytes, MaxRxBytes
<1> QED BY <1>1 DEF Init, IInv, Typed, BetweenWireCalls, AdapterHonest, TimeoutScoped,
                    MaxTxBytes, MaxRxBytes

\* A callback begins with nothing accepted.
LEMMA BeginPreserves ==
  ASSUME IInv, NEW which, NEW txLen \in 1..MaxTxBytes, NEW rxLen \in 0..MaxRxBytes, NEW ms,
         \/ which = "WRITE" /\ rxLen = 0
         \/ which = "READ" /\ txLen = 1 /\ rxLen > 0,
         Begin(which, txLen, rxLen, ms)
  PROVE  IInv'
<1>1. Typed' BY DEF Begin, Typed, MaxTxBytes
<1>2. BetweenWireCalls' BY DEF Begin, BetweenWireCalls
<1>3. AdapterHonest'
  <2> SUFFICES ASSUME step' = "RETURNED"
               PROVE  HonestWrite(result', tx', accepted') /\ HonestRead(result', rx', accepted')
    BY DEF AdapterHonest
  <2>1. result' = Error("IO_ERROR", "NOT_ATTEMPTED", 0, 0) /\ tx' = txLen /\ rx' = rxLen /\ accepted' = 0
    BY DEF Begin
  <2> QED BY <2>1, NothingIsHonest
<1>4. TimeoutScoped' BY DEF Begin, IInv, TimeoutScoped
<1> QED BY <1>1, <1>2, <1>3, <1>4 DEF IInv

\* Filling the buffer accepts nothing.
LEMMA FillPreserves ==
  ASSUME IInv, Fill
  PROVE  IInv'
<1>1. CASE GoOn("SEND")
  BY <1>1 DEF GoOn, Fill, IInv, Typed, BetweenWireCalls, AdapterHonest, TimeoutScoped
<1>2. CASE Return(Error("IO_ERROR", "NOT_ATTEMPTED", 0, 0))
  <2>1. accepted' = 0 /\ UNCHANGED <<kind, tx, rx>>
    BY <1>2 DEF Return, Fill, IInv, BetweenWireCalls
  <2>2. HonestWrite(result', tx', 0) /\ HonestRead(result', rx', 0)
    BY <1>2, <2>1, NothingIsHonest DEF Return, IInv, Typed
  <2> QED BY <1>2, <2>1, <2>2 DEF Return, Fill, IInv, Typed, BetweenWireCalls, AdapterHonest, TimeoutScoped
<1> QED BY <1>1, <1>2 DEF Fill

\* The result of a write fits what endTransmission() left accepted.
LEMMA SendWritePreserves ==
  ASSUME IInv, SendWrite
  PROVE  IInv'
<1>1. PICK code \in Codes, count \in 0..MaxTxBytes :
        /\ SentWith(code, TRUE, count)
        /\ accepted' = count
        /\ Return(IF code = 0 THEN Ok(tx, 0) ELSE mapWireResult(code, "MAY_HAVE_COMMITTED"))
  BY DEF SendWrite
<1>2. kind' = "WRITE" /\ UNCHANGED <<tx, rx>> BY <1>1 DEF Return, SendWrite
<1>3. HonestWrite(result', tx', accepted')
  <2>1. CASE code = 0
    <3>1. result' = Ok(tx, 0) /\ accepted' = tx BY <1>1, <2>1 DEF Return, SentWith
    <3> QED BY <1>2, <3>1, OkFields DEF HonestWrite, IInv, Typed, MaxTxBytes
  <2>2. CASE code \in {1, 2}
    <3>1. result' = mapWireResult(code, "MAY_HAVE_COMMITTED") /\ accepted' = 0
      BY <1>1, <2>2 DEF Return, SentWith
    <3> QED BY <1>2, <2>2, <3>1, MappedFields DEF HonestWrite, IInv, Typed, MaxTxBytes, Codes
  <2>3. CASE code \in 3..6
    <3>1. result' = mapWireResult(code, "MAY_HAVE_COMMITTED") /\ accepted' \in 0..tx
      BY <1>1, <2>3 DEF Return, SentWith
    <3> QED BY <1>2, <2>3, <3>1, MappedFields DEF HonestWrite, IInv, Typed, MaxTxBytes, Codes
  <2> QED BY <2>1, <2>2, <2>3 DEF Codes
<1> QED BY <1>1, <1>2, <1>3 DEF Return, IInv, Typed, BetweenWireCalls, AdapterHonest, TimeoutScoped

\* The command phase of a read does so too, sent or queued.
LEMMA SendCommandPreserves ==
  ASSUME IInv, SendCommand
  PROVE  IInv'
<1>1. PICK code \in Codes, count \in 0..MaxTxBytes :
        /\ SentWith(code, FALSE, count)
        /\ accepted' = count
        /\ maybeSent' = (code \notin {1, 2})
        /\ IF code = 0 THEN GoOn("RECEIVE")
                       ELSE Return(mapWireResult(code, "MAY_HAVE_COMMITTED"))
  BY DEF SendCommand
<1>2. kind = "READ" /\ kind' = "READ" /\ tx = 1 /\ UNCHANGED <<tx, rx>>
  BY <1>1 DEF Return, GoOn, SendCommand, IInv, BetweenWireCalls
<1>3. CASE code = 0
  <2>1. /\ accepted' \in {0, tx}
        /\ maybeSent'
    <3>1. accepted' \in {0, tx} BY <1>1, <1>3 DEF SentWith
    <3>2. code \notin {1, 2} BY <1>3
    <3>3. maybeSent' BY <1>1, <3>2, Zenon
    <3> QED BY <3>1, <3>3
  <2>2. GoOn("RECEIVE") BY <1>1, <1>3
  <2>3. rx > 0
    BY DEF SendCommand, IInv, BetweenWireCalls
  <2> QED BY <1>1, <1>2, <2>1, <2>2, <2>3
          DEF GoOn, SendCommand, IInv, Typed, BetweenWireCalls, AdapterHonest, TimeoutScoped
<1>4. CASE code # 0
  <2>1. /\ Return(mapWireResult(code, "MAY_HAVE_COMMITTED"))
        /\ accepted' \in 0..1
        /\ code \in {1, 2} => accepted' = 0
    BY <1>1, <1>2, <1>4 DEF SentWith
  <2>2. result' = mapWireResult(code, "MAY_HAVE_COMMITTED") BY <2>1 DEF Return
  <2>3. HonestRead(result', rx', accepted')
    BY <1>2, <1>4, <2>1, <2>2, MappedFields DEF HonestRead, IInv, Typed, MaxRxBytes
  <2> QED BY <1>1, <1>2, <2>1, <2>3
          DEF Return, IInv, Typed, BetweenWireCalls, AdapterHonest, TimeoutScoped
<1> QED BY <1>3, <1>4

\* A short receive reports the command only as far as the bytes prove it.
LEMMA ReceivePreserves ==
  ASSUME IInv, Receive
  PROVE  IInv'
<1>1. PICK read \in 0..rx :
        /\ accepted' \in (IF read > 0 THEN {tx} ELSE {accepted, tx})
        /\ IF read = rx
           THEN GoOn("COPY")
           ELSE Return(IF read > 0 THEN Error("IO_ERROR", "COMMITTED", tx, read)
                                   ELSE Error("IO_ERROR", "MAY_HAVE_COMMITTED", 0, 0))
  BY DEF Receive
<1>2. kind = "READ" /\ tx = 1 /\ rx > 0 /\ rx \in Nat /\ accepted \in {0, 1}
  BY DEF Receive, IInv, BetweenWireCalls, Typed, MaxRxBytes
<1>3. UNCHANGED <<kind, tx, rx>> BY <1>1 DEF Return, GoOn
<1>4. accepted' \in {0, 1} /\ (read > 0 => accepted' = 1) BY <1>1, <1>2
<1>5. CASE read = rx
  BY <1>1, <1>2, <1>3, <1>4, <1>5
     DEF GoOn, Receive, IInv, Typed, BetweenWireCalls, AdapterHonest, TimeoutScoped
<1>6. CASE read # rx
  <2>1. Return(IF read > 0 THEN Error("IO_ERROR", "COMMITTED", tx, read)
                           ELSE Error("IO_ERROR", "MAY_HAVE_COMMITTED", 0, 0))
    BY <1>1, <1>6
  <2>2. HonestRead(result', rx', accepted')
    BY <1>2, <1>3, <1>4, <2>1, ErrorFields DEF Return, HonestRead
  <2> QED BY <1>2, <1>3, <1>4, <2>1, <2>2
          DEF Return, IInv, Typed, BetweenWireCalls, AdapterHonest, TimeoutScoped, MaxTxBytes
<1> QED BY <1>5, <1>6

\* Bytes missing from the buffer do not change what was accepted.
LEMMA CopyPreserves ==
  ASSUME IInv, Copy
  PROVE  IInv'
<1>1. PICK copied \in 0..rx :
        Return(IF copied = rx THEN Ok(tx, rx) ELSE Error("IO_ERROR", "COMMITTED", tx, copied))
  BY DEF Copy
<1>2. kind = "READ" /\ tx = 1 /\ rx \in Nat /\ accepted = 1 /\ accepted' = 1
  BY DEF Copy, IInv, BetweenWireCalls, Typed, MaxRxBytes
<1>3. UNCHANGED <<kind, tx, rx>> BY <1>1 DEF Return
<1>4. HonestRead(result', rx', accepted')
  <2>1. CASE copied = rx
    BY <1>1, <1>2, <1>3, <2>1, OkFields DEF Return, HonestRead, MaxTxBytes
  <2>2. CASE copied # rx
    BY <1>1, <1>2, <1>3, <2>2, ErrorFields DEF Return, HonestRead
  <2> QED BY <2>1, <2>2
<1> QED BY <1>1, <1>2, <1>3, <1>4
        DEF Return, IInv, Typed, BetweenWireCalls, AdapterHonest, TimeoutScoped

\* Every step preserves the invariant.
LEMMA StepPreserves == IInv /\ [Next]_vars => IInv'
<1> SUFFICES ASSUME IInv, [Next]_vars PROVE IInv'
  OBVIOUS
<1>1. CASE wireWrite
  BY <1>1, BeginPreserves DEF wireWrite, MaxRxBytes
<1>2. CASE wireWriteRead
  BY <1>2, BeginPreserves DEF wireWriteRead, MaxRxBytes, MaxTxBytes
<1>3. CASE Fill BY <1>3, FillPreserves
<1>4. CASE SendWrite BY <1>4, SendWritePreserves
<1>5. CASE SendCommand BY <1>5, SendCommandPreserves
<1>6. CASE Receive BY <1>6, ReceivePreserves
<1>7. CASE Copy BY <1>7, CopyPreserves
<1>8. CASE UNCHANGED vars
  BY <1>8 DEF vars, IInv, Typed, BetweenWireCalls, AdapterHonest, TimeoutScoped
<1> QED BY <1>1, <1>2, <1>3, <1>4, <1>5, <1>6, <1>7, <1>8 DEF Next

\* The invariant holds of every behaviour.
THEOREM AdapterInvariant == Spec => []IInv
<1>1. Init => IInv BY InitEstablishes
<1>2. IInv /\ [Next]_vars => IInv' BY StepPreserves
<1> QED BY <1>1, <1>2, PTL DEF Spec

\* wireWrite and wireWriteRead keep the callback contract, whatever Wire answers
\* and whatever the timeouts are: the honest-transport assumption of the driver's
\* theorems is met by the transport the repository ships.
THEOREM AdapterIsHonest == Spec => []AdapterHonest
<1>1. IInv => AdapterHonest BY DEF IInv
<1> QED BY <1>1, AdapterInvariant, PTL

\* The application's Wire timeout survives every way out of both callbacks.
THEOREM TimeoutIsScoped == Spec => []TimeoutScoped
<1>1. IInv => TimeoutScoped BY DEF IInv
<1> QED BY <1>1, AdapterInvariant, PTL

-----------------------------------------------------------------------------
(* What the driver makes of a result *)

\* A result that claims nothing, and one that reports a failure.
ClaimsNothing(answer) ==
  /\ answer.code # "OK" /\ answer.writeEffect = "NOT_ATTEMPTED"
  /\ answer.completedTxBytes = 0 /\ answer.completedRxBytes = 0

\* The driver takes it at its word, and a failure for a failure.
LEMMA DriverBelieves ==
  ASSUME NEW answer, NEW txLen, NEW rxLen, answer.code # "OK"
  PROVE  /\ MappedError(answer, txLen, rxLen) # "OK"
         /\ ClaimsNothing(answer) => /\ RegisterWriteEffect(answer, txLen) = "NOT_ATTEMPTED"
                                   /\ CommandEffect(answer) = "NOT_ATTEMPTED"
<1>1. ~Complete(answer, txLen, rxLen) /\ ~Complete(answer, txLen, 0) BY DEF Complete
<1>2. MappedError(answer, txLen, rxLen) # "OK" BY <1>1 DEF MappedError
<1> QED BY <1>1, <1>2 DEF ClaimsNothing, RegisterWriteEffect, CommandEffect

\* The results the callbacks build are transport results.
LEMMA ResultsTyped ==
  ASSUME NEW txBytes \in 0..MaxTxBytes, NEW rxBytes \in 0..MaxRxBytes, NEW effect \in WriteEffect
  PROVE  /\ Ok(txBytes, rxBytes) \in TransportResult
         /\ \A code \in TransportCode : Error(code, effect, txBytes, rxBytes) \in TransportResult
BY DEF Ok, Error, TransportResult, TransportCode, WriteEffect

\* A nonzero code of Wire is a failure, and claims nothing when it proves that.
LEMMA MappedJudged ==
  ASSUME NEW code \in Codes \ {0}
  PROVE  LET answer == mapWireResult(code, "MAY_HAVE_COMMITTED") IN
         /\ answer \in TransportResult
         /\ answer.code # "OK"
         /\ code \in {1, 2} => ClaimsNothing(answer)
<1> USE DEF mapWireResult, Error, ClaimsNothing, TransportResult, TransportCode, WriteEffect,
            MaxTxBytes, MaxRxBytes
<1>1. CASE code = 1 BY <1>1
<1>2. CASE code = 2 BY <1>2
<1>3. CASE code = 3 BY <1>3
<1>4. CASE code = 4 BY <1>4
<1>5. CASE code = 5 BY <1>5
<1>6. CASE code = 6 BY <1>6
<1> QED BY <1>1, <1>2, <1>3, <1>4, <1>5, <1>6 DEF Codes

Judged == TypeOK /\ DoubtIsReal /\ SuccessIsComplete

\* What a callback may return: nothing claimed; a failure after something may
\* have gone out; or success with every byte accepted.
LEMMA ReturnJudged ==
  ASSUME \/ ClaimsNothing(result')
         \/ result'.code # "OK" /\ maybeSent'
         \/ maybeSent' /\ accepted' = tx'
  PROVE  DoubtIsReal' /\ SuccessIsComplete'
<1>1. CASE ClaimsNothing(result')
  <2>1. result'.code # "OK" BY <1>1 DEF ClaimsNothing
  <2>2. /\ MappedError(result', tx', rx') # "OK"
        /\ RegisterWriteEffect(result', tx') = "NOT_ATTEMPTED"
        /\ CommandEffect(result') = "NOT_ATTEMPTED"
    BY <1>1, <2>1, DriverBelieves
  <2> QED BY <2>2 DEF DoubtIsReal, SuccessIsComplete, Effect
<1>2. CASE result'.code # "OK" /\ maybeSent'
  <2>1. MappedError(result', tx', rx') # "OK" BY <1>2, DriverBelieves
  <2> QED BY <1>2, <2>1 DEF DoubtIsReal, SuccessIsComplete
<1>3. CASE maybeSent' /\ accepted' = tx'
  BY <1>3 DEF DoubtIsReal, SuccessIsComplete
<1> QED BY <1>1, <1>2, <1>3

\* The result of a call that never began.
LEMMA RefusalClaimsNothing ==
  LET answer == Error("IO_ERROR", "NOT_ATTEMPTED", 0, 0) IN
  ClaimsNothing(answer) /\ answer \in TransportResult
BY DEF Error, ClaimsNothing, TransportResult, TransportCode, WriteEffect, MaxTxBytes, MaxRxBytes

\* Initially nothing was returned and nothing is claimed.
LEMMA InitJudged == Init => Judged
<1> SUFFICES ASSUME Init PROVE Judged
  OBVIOUS
<1>1. result = Error("IO_ERROR", "NOT_ATTEMPTED", 0, 0) /\ maybeSent = FALSE BY DEF Init
<1>2. TypeOK
  <2>1. maybeSent \in BOOLEAN BY <1>1
  <2>2. result \in TransportResult BY <1>1, RefusalClaimsNothing
  <2> QED BY <2>1, <2>2, WireAssumption DEF Init, TypeOK, MaxTxBytes, MaxRxBytes
<1>3. result.code # "OK" BY <1>1, RefusalClaimsNothing DEF ClaimsNothing
<1>4. /\ MappedError(result, tx, rx) # "OK"
      /\ RegisterWriteEffect(result, tx) = "NOT_ATTEMPTED"
      /\ CommandEffect(result) = "NOT_ATTEMPTED"
  BY <1>1, <1>3, RefusalClaimsNothing, DriverBelieves
<1> QED BY <1>2, <1>4 DEF Judged, DoubtIsReal, SuccessIsComplete, Effect

\* A step that returns nothing leaves nothing to judge.
LEMMA GoOnJudged ==
  ASSUME NEW next \in {"SEND", "RECEIVE", "COPY"}, GoOn(next)
  PROVE  DoubtIsReal' /\ SuccessIsComplete'
BY DEF GoOn, DoubtIsReal, SuccessIsComplete

\* Either callback begins.
LEMMA BeginJudged ==
  ASSUME Judged, NEW which \in {"WRITE", "READ"}, NEW txLen \in 1..MaxTxBytes,
         NEW rxLen \in 0..MaxRxBytes, NEW ms \in Requests, Begin(which, txLen, rxLen, ms)
  PROVE  Judged'
<1>1. clampWireTimeoutMs(ms) \in Nat BY WireAssumption DEF clampWireTimeoutMs
<1>2. TypeOK'
  <2>1. maybeSent' \in BOOLEAN BY DEF Begin
  <2>2. result' \in TransportResult
    BY RefusalClaimsNothing DEF Begin, Judged, TypeOK
  <2> QED BY <1>1, <2>1, <2>2, WireAssumption DEF Begin, Judged, TypeOK, MaxTxBytes
<1>3. DoubtIsReal' /\ SuccessIsComplete'
  <2>1. CASE step' = "RETURNED" /\ result' = Error("IO_ERROR", "NOT_ATTEMPTED", 0, 0)
    BY <2>1, RefusalClaimsNothing, ReturnJudged
  <2>2. CASE step' = "FILL" BY <2>2 DEF DoubtIsReal, SuccessIsComplete
  <2> QED BY <2>1, <2>2 DEF Begin
<1> QED BY <1>2, <1>3 DEF Judged

\* The calls to Wire, one by one.
LEMMA FillJudged ==
  ASSUME Judged, Fill
  PROVE  Judged'
<1>1. maybeSent' \in BOOLEAN BY DEF Fill, Judged, TypeOK
<1>2. CASE GoOn("SEND")
  BY <1>1, <1>2, GoOnJudged DEF GoOn, Fill, Judged, TypeOK
<1>3. CASE Return(Error("IO_ERROR", "NOT_ATTEMPTED", 0, 0))
  <2>1. DoubtIsReal' /\ SuccessIsComplete'
    BY <1>3, RefusalClaimsNothing, ReturnJudged DEF Return
  <2> QED BY <1>1, <1>3, <2>1, RefusalClaimsNothing, WireAssumption DEF Return, Fill, Judged, TypeOK
<1> QED BY <1>2, <1>3 DEF Fill

\* A write returns success only when all of it was accepted.
LEMMA SendWriteJudged ==
  ASSUME IInv, Judged, SendWrite
  PROVE  Judged'
<1>1. PICK code \in Codes, count \in 0..MaxTxBytes :
        /\ SentWith(code, TRUE, count)
        /\ accepted' = count
        /\ maybeSent' = (code \notin {1, 2})
        /\ Return(IF code = 0 THEN Ok(tx, 0) ELSE mapWireResult(code, "MAY_HAVE_COMMITTED"))
  BY DEF SendWrite
<1>2. maybeSent' \in BOOLEAN BY <1>1
<1>3. tx \in 0..MaxTxBytes /\ 0 \in 0..MaxRxBytes /\ "COMMITTED" \in WriteEffect
  BY DEF Judged, TypeOK, MaxTxBytes, MaxRxBytes, WriteEffect
<1>4. /\ result' \in TransportResult
      /\ DoubtIsReal' /\ SuccessIsComplete'
  <2>1. CASE code = 0
    <3>1. result' = Ok(tx, 0) /\ tx' = tx /\ accepted' = tx
      BY <1>1, <2>1 DEF Return, SentWith
    <3>2. maybeSent'
      <4>1. code \notin {1, 2} BY <2>1
      <4> QED BY <1>1, <4>1, Zenon
    <3>3. result' \in TransportResult BY <1>3, <3>1, ResultsTyped
    <3>4. accepted' = tx' BY <3>1
    <3> QED BY <3>2, <3>3, <3>4, ReturnJudged
  <2>2. CASE code # 0
    <3>1. result' = mapWireResult(code, "MAY_HAVE_COMMITTED") BY <1>1, <2>2 DEF Return
    <3>2. result' \in TransportResult /\ result'.code # "OK"
          /\ (code \in {1, 2} => ClaimsNothing(result'))
      BY <2>2, <3>1, MappedJudged
    <3>3. code \notin {1, 2} => maybeSent' BY <1>1
    <3> QED BY <3>2, <3>3, ReturnJudged
  <2> QED BY <2>1, <2>2
<1>5. TypeOK' BY <1>1, <1>2, <1>4, WireAssumption DEF Return, Judged, TypeOK
<1> QED BY <1>4, <1>5 DEF Judged

\* The command phase of a read never returns success.
LEMMA SendCommandJudged ==
  ASSUME IInv, Judged, SendCommand
  PROVE  Judged'
<1>1. PICK code \in Codes, count \in 0..MaxTxBytes :
        /\ accepted' = count
        /\ maybeSent' = (code \notin {1, 2})
        /\ IF code = 0 THEN GoOn("RECEIVE")
                       ELSE Return(mapWireResult(code, "MAY_HAVE_COMMITTED"))
  BY DEF SendCommand
<1>2. maybeSent' \in BOOLEAN BY <1>1
<1>3. CASE code = 0
  <2>1. GoOn("RECEIVE") BY <1>1, <1>3
  <2> QED BY <1>1, <1>2, <2>1, GoOnJudged DEF GoOn, Judged, TypeOK
<1>4. CASE code # 0
  <2>1. Return(mapWireResult(code, "MAY_HAVE_COMMITTED")) BY <1>1, <1>4
  <2>2. result' \in TransportResult /\ result'.code # "OK"
        /\ (code \in {1, 2} => ClaimsNothing(result'))
    BY <1>4, <2>1, MappedJudged DEF Return
  <2>3. code \notin {1, 2} => maybeSent' BY <1>1
  <2>4. DoubtIsReal' /\ SuccessIsComplete' BY <2>2, <2>3, ReturnJudged
  <2> QED BY <1>1, <1>2, <2>1, <2>2, <2>4, WireAssumption DEF Return, Judged, TypeOK
<1> QED BY <1>3, <1>4

\* What comes back or fails to come back says that the command went out.
LEMMA ReceiveJudged ==
  ASSUME IInv, Judged, Receive
  PROVE  Judged'
<1>1. PICK read \in 0..rx :
        /\ accepted' \in (IF read > 0 THEN {tx} ELSE {accepted, tx})
        /\ IF read = rx
           THEN GoOn("COPY")
           ELSE Return(IF read > 0 THEN Error("IO_ERROR", "COMMITTED", tx, read)
                                   ELSE Error("IO_ERROR", "MAY_HAVE_COMMITTED", 0, 0))
  BY DEF Receive
<1>2. maybeSent /\ maybeSent' /\ maybeSent' \in BOOLEAN
  <2>1. maybeSent BY DEF Receive, IInv, BetweenWireCalls
  <2>2. maybeSent' = maybeSent BY DEF Receive
  <2>3. maybeSent \in BOOLEAN BY DEF Judged, TypeOK
  <2> QED BY <2>1, <2>2, <2>3
<1>3. tx \in 0..MaxTxBytes /\ rx \in 0..MaxRxBytes /\ accepted' \in 0..MaxTxBytes
  BY <1>1 DEF Judged, TypeOK, MaxTxBytes
<1>4. CASE read = rx
  <2>1. GoOn("COPY") BY <1>1, <1>4
  <2> QED BY <1>2, <1>3, <2>1, GoOnJudged DEF GoOn, Judged, TypeOK
<1>5. CASE read # rx
  <2>1. PICK effect \in WriteEffect, txBytes \in 0..MaxTxBytes, rxBytes \in 0..MaxRxBytes :
          Return(Error("IO_ERROR", effect, txBytes, rxBytes))
    <3>1. read \in 0..MaxRxBytes /\ 0 \in 0..MaxRxBytes /\ 0 \in 0..MaxTxBytes
          /\ "COMMITTED" \in WriteEffect /\ "MAY_HAVE_COMMITTED" \in WriteEffect
      BY <1>3 DEF WriteEffect, MaxTxBytes, MaxRxBytes
    <3>2. CASE read > 0
      <4>1. Return(Error("IO_ERROR", "COMMITTED", tx, read)) BY <1>1, <1>5, <3>2
      <4> QED BY <1>3, <3>1, <4>1
    <3>3. CASE ~(read > 0)
      <4>1. Return(Error("IO_ERROR", "MAY_HAVE_COMMITTED", 0, 0)) BY <1>1, <1>5, <3>3
      <4> QED BY <3>1, <4>1
    <3> QED BY <3>2, <3>3
  <2>2. result' = Error("IO_ERROR", effect, txBytes, rxBytes) BY <2>1 DEF Return
  <2>3. result' \in TransportResult BY <2>2, ResultsTyped DEF TransportCode
  <2>4. result'.code # "OK" BY <2>2, ErrorFields
  <2>5. DoubtIsReal' /\ SuccessIsComplete' BY <1>2, <2>4, ReturnJudged
  <2> QED BY <1>2, <1>3, <2>1, <2>3, <2>5, WireAssumption DEF Return, Judged, TypeOK
<1> QED BY <1>4, <1>5

\* By the last step the command was accepted.
LEMMA CopyJudged ==
  ASSUME IInv, Judged, Copy
  PROVE  Judged'
<1>1. PICK copied \in 0..rx :
        Return(IF copied = rx THEN Ok(tx, rx) ELSE Error("IO_ERROR", "COMMITTED", tx, copied))
  BY DEF Copy
<1>2. maybeSent' /\ maybeSent' \in BOOLEAN
  <2>1. maybeSent BY DEF Copy, IInv, BetweenWireCalls
  <2>2. maybeSent' = maybeSent BY DEF Copy
  <2>3. maybeSent \in BOOLEAN BY DEF Judged, TypeOK
  <2> QED BY <2>1, <2>2, <2>3
<1>3. accepted' = tx' /\ tx' = tx
  BY <1>1 DEF Copy, Return, IInv, BetweenWireCalls
<1>4. result' \in TransportResult
  <2>1. tx \in 0..MaxTxBytes /\ rx \in 0..MaxRxBytes /\ copied \in 0..MaxRxBytes
        /\ "COMMITTED" \in WriteEffect
    BY DEF Judged, TypeOK, WriteEffect, MaxRxBytes
  <2> QED BY <1>1, <2>1, ResultsTyped DEF Return, TransportCode
<1>5. DoubtIsReal' /\ SuccessIsComplete' BY <1>2, <1>3, ReturnJudged
<1> QED BY <1>1, <1>2, <1>4, <1>5, WireAssumption DEF Copy, Return, Judged, TypeOK

\* Every step keeps it.
LEMMA StepJudged == IInv /\ Judged /\ [Next]_vars => Judged'
<1> SUFFICES ASSUME IInv, Judged, [Next]_vars PROVE Judged'
  OBVIOUS
<1>1. CASE wireWrite
  BY <1>1, BeginJudged DEF wireWrite, MaxRxBytes
<1>2. CASE wireWriteRead
  BY <1>2, BeginJudged DEF wireWriteRead, MaxRxBytes, MaxTxBytes
<1>3. CASE Fill BY <1>3, FillJudged
<1>4. CASE SendWrite BY <1>4, SendWriteJudged
<1>5. CASE SendCommand BY <1>5, SendCommandJudged
<1>6. CASE Receive BY <1>6, ReceiveJudged
<1>7. CASE Copy BY <1>7, CopyJudged
<1>8. CASE UNCHANGED vars
  BY <1>8 DEF vars, Judged, TypeOK, DoubtIsReal, SuccessIsComplete, Effect
<1> QED BY <1>1, <1>2, <1>3, <1>4, <1>5, <1>6, <1>7, <1>8 DEF Next

\* It holds of every behaviour.
THEOREM ResultsJudged == Spec => []Judged
<1>1. Init => Judged BY InitJudged
<1>2. IInv /\ Judged /\ [Next]_vars => Judged' BY StepJudged
<1> QED BY <1>1, <1>2, AdapterInvariant, PTL DEF Spec

\* The callbacks' state has its types.
THEOREM AdapterTyped == Spec => []TypeOK
<1>1. Judged => TypeOK BY DEF Judged
<1> QED BY <1>1, ResultsJudged, PTL

\* The driver never doubts its shadow after a call of which Wire proved that
\* nothing was written, so no cleanup is started for nothing.
THEOREM DoubtsAreReal == Spec => []DoubtIsReal
<1>1. Judged => DoubtIsReal BY DEF Judged
<1> QED BY <1>1, ResultsJudged, PTL

\* The driver sees success only of complete transfers.
THEOREM SuccessesAreComplete == Spec => []SuccessIsComplete
<1>1. Judged => SuccessIsComplete BY DEF Judged
<1> QED BY <1>1, ResultsJudged, PTL

-----------------------------------------------------------------------------
(* Both programs *)

\* What is proved of the ESP-IDF callbacks, here of the composition's variables.
Proved == INSTANCE NativeAdapter_proofs

\* They are the same callbacks.
LEMMA SameInit == Native!Init => Proved!Init
BY DEF Native!Init, Proved!Init, Native!Error, Proved!Error

\* Their results,
LEMMA SameResults ==
  /\ \A code, effect, t, r : Native!Error(code, effect, t, r) = Proved!Error(code, effect, t, r)
  /\ \A err, t, r, effect : Native!mapI2c(err, t, r, effect) = Proved!mapI2c(err, t, r, effect)
  /\ Native!Failures = Proved!Failures /\ Native!esp_err_t = Proved!esp_err_t
  /\ \A answer : Native!Return(answer) <=> Proved!Return(answer)
<1>1. /\ Native!Failures = Proved!Failures /\ Native!esp_err_t = Proved!esp_err_t
      /\ \A answer : Native!Return(answer) <=> Proved!Return(answer)
  BY DEF Native!Failures, Proved!Failures, Native!esp_err_t, Proved!esp_err_t,
         Native!Return, Proved!Return
<1>2. \A code, effect, t, r : Native!Error(code, effect, t, r) = Proved!Error(code, effect, t, r)
  BY DEF Native!Error, Proved!Error
<1>3. \A err, t, r, effect : Native!mapI2c(err, t, r, effect) = Proved!mapI2c(err, t, r, effect)
  BY DEF Native!mapI2c, Proved!mapI2c, Native!Error, Proved!Error, Native!Ok, Proved!Ok
<1> QED BY <1>1, <1>2, <1>3

\* and their steps.
LEMMA SameNext == Native!Next => Proved!Next
<1> SUFFICES ASSUME Native!Next PROVE Proved!Next
  OBVIOUS
<1> USE DEF Native!bus, Proved!bus
<1>1. ASSUME NEW which, NEW t, NEW r, Native!Begin(which, t, r) PROVE Proved!Begin(which, t, r)
  BY <1>1, SameResults DEF Native!Begin, Proved!Begin
<1>2. CASE Native!initBus BY <1>2 DEF Native!initBus, Proved!initBus, Proved!Next
<1>3. CASE Native!i2cWrite
  BY <1>1, <1>3 DEF Native!i2cWrite, Proved!i2cWrite, Proved!Next, Native!MaxTxBytes,
     Proved!MaxTxBytes
<1>4. CASE Native!i2cWriteRead
  BY <1>1, <1>4 DEF Native!i2cWriteRead, Proved!i2cWriteRead, Proved!Next, Native!MaxRxBytes, Proved!MaxRxBytes
<1>5. CASE Native!ensureDevice
  BY <1>5, SameResults DEF Native!ensureDevice, Proved!ensureDevice, Native!HasDevice,
     Proved!HasDevice, Proved!Next
<1>6. CASE Native!transfer("MAY_HAVE_COMMITTED")
  BY <1>6, SameResults DEF Native!transfer, Proved!transfer, Proved!Next
<1> QED BY <1>2, <1>3, <1>4, <1>5, <1>6 DEF Native!Next

\* The callback contract and the typing are the same statements in both modules.
LEMMA SameContract ==
  /\ Proved!AdapterHonest => AdapterHonest
  /\ Proved!DoubtIsReal => DoubtIsReal
  /\ Proved!SuccessIsComplete => SuccessIsComplete
<1> USE DEF Complete, Proved!Complete
<1>1. Proved!AdapterHonest => AdapterHonest
  BY DEF Proved!AdapterHonest, AdapterHonest, Proved!HonestWrite, HonestWrite, Proved!HonestRead,
         HonestRead
<1>2. /\ RegisterWriteEffect(result, tx) = Proved!RegisterWriteEffect(result, tx)
      /\ CommandEffect(result) = Proved!CommandEffect(result)
      /\ MappedError(result, tx, rx) = Proved!MappedError(result, tx, rx)
  BY DEF RegisterWriteEffect, Proved!RegisterWriteEffect, CommandEffect, Proved!CommandEffect,
         MappedError, Proved!MappedError
<1>3. Effect = Proved!Effect BY <1>2 DEF Effect, Proved!Effect
<1> QED BY <1>1, <1>2, <1>3 DEF Proved!DoubtIsReal, DoubtIsReal, Proved!SuccessIsComplete,
               SuccessIsComplete

LEMMA SameTypes ==
  /\ Proved!TypeOK => Native!TypeOK
  /\ Proved!RightDevice => Native!RightDevice
BY DEF Proved!TypeOK, Native!TypeOK, Proved!RightDevice, Native!RightDevice,
       Native!TransportResult, Proved!TransportResult, Native!TransportCode, Proved!TransportCode,
       Native!WriteEffect, Proved!WriteEffect, Native!MaxTxBytes, Proved!MaxTxBytes,
       Native!MaxRxBytes, Proved!MaxRxBytes

\* Each program keeps its own invariant, and the ESP-IDF program has no Wire whose
\* timeout could change.
BothInv ==
  /\ platform = "Arduino" => IInv /\ Judged
  /\ platform = "native" => Proved!IInv /\ timeOut = Configured
  /\ platform \in {"Arduino", "native"}

LEMMA BothInvariant == BothSpec => []BothInv
<1>1. BothInit => BothInv
  BY InitEstablishes, InitJudged, SameInit, Proved!InitEstablishes DEF BothInit, BothInv, Init
<1>2. ASSUME BothInv, [BothNext]_<<vars, platform, onlyNative>> PROVE BothInv'
  <2>1. platform' = platform /\ platform \in {"Arduino", "native"}
    BY <1>2 DEF BothNext, BothInv
  <2>2. CASE platform = "Arduino"
    <3>1. [Next]_vars BY <1>2, <2>2 DEF BothNext
    <3>2. IInv' /\ Judged' BY <1>2, <2>2, <3>1, StepPreserves, StepJudged DEF BothInv
    <3> QED BY <2>1, <2>2, <3>2 DEF BothInv
  <2>3. CASE platform = "native"
    <3>1. [Proved!Next]_Proved!vars
      <4>1. CASE Native!Next BY <4>1, SameNext
      <4>2. CASE UNCHANGED <<vars, platform, onlyNative>>
        BY <4>2 DEF vars, onlyNative, Proved!vars, Proved!bus
      <4> QED BY <1>2, <2>3, <4>1, <4>2 DEF BothNext
    <3>2. Proved!IInv' BY <1>2, <2>3, <3>1, Proved!StepPreserves DEF BothInv
    <3>3. timeOut' = timeOut BY <1>2, <2>3 DEF BothNext, onlyWire, vars
    <3> QED BY <1>2, <2>1, <2>3, <3>2, <3>3 DEF BothInv
  <2> QED BY <2>1, <2>2, <2>3
<1> QED BY <1>1, <1>2, PTL DEF BothSpec

\* Whichever program runs, its callbacks keep the contract that every theorem about
\* the driver assumes, make the driver doubt nothing of which the I2C library said that
\* it did not happen, report success only of whole transfers, and leave the
\* application's Wire timeout as they found it.
THEOREM CallbacksKeepContract ==
  BothSpec => [](AdapterHonest /\ DoubtIsReal /\ SuccessIsComplete /\ TimeoutScoped)
<1>1. ASSUME BothInv
      PROVE  AdapterHonest /\ DoubtIsReal /\ SuccessIsComplete /\ TimeoutScoped
  <2>1. CASE platform = "Arduino" BY <1>1, <2>1 DEF BothInv, IInv, Judged
  <2>2. CASE platform = "native"
    <3>1. Proved!IInv /\ timeOut = Configured BY <1>1, <2>2 DEF BothInv
    <3>2. AdapterHonest /\ DoubtIsReal /\ SuccessIsComplete
      BY <3>1, SameContract DEF Proved!IInv, Proved!Told
    <3>3. step \in {"RETURNED", "ENSURE", "TRANSFER"} BY <3>1 DEF Proved!IInv, Proved!TypeOK
    <3> QED BY <3>1, <3>2, <3>3 DEF TimeoutScoped
  <2> QED BY <1>1, <2>1, <2>2 DEF BothInv
<1> QED BY <1>1, BothInvariant, PTL

\* In the ESP-IDF program the handle the bus holds is always that of one of its
\* devices or none, and every result is one the driver can read.
THEOREM NativeTyped == BothSpec => []NativeTypeOK
<1>1. BothInv => NativeTypeOK BY SameTypes DEF BothInv, NativeTypeOK, Proved!IInv
<1> QED BY <1>1, BothInvariant, PTL

\* There a transfer reaches the device it is meant for, with any number of devices on
\* the bus, and however adding and removing their handles went before.
THEOREM NativeGoesRight == BothSpec => []NativeRightDevice
<1>1. BothInv => NativeRightDevice BY SameTypes DEF BothInv, NativeRightDevice, Proved!IInv
<1> QED BY <1>1, BothInvariant, PTL

=============================================================================
