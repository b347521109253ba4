------------------------ MODULE NativeAdapter_proofs ------------------------
(***************************************************************************)
(* The callbacks of the ESP-IDF example keep the callback contract and the *)
(* handle of the right device, for any number of devices on the bus.       *)
(***************************************************************************)
EXTENDS NativeAdapter, TLAPS

\* The handle and the address noted for it never part, and a transfer is made
\* only with the handle of the device the callback was given.
HandleIsNoted ==
  /\ device = deviceAddress
  /\ step = "TRANSFER" => device = address

\* What the driver asks for.
Requested ==
  /\ kind = "READ" => tx = 1 /\ rx > 0
  /\ kind = "WRITE" => rx = 0

Told == AdapterHonest /\ DoubtIsReal /\ SuccessIsComplete

\* Until its transfer a callback has used no handle and transferred nothing.
Unsent == step \in {"ENSURE", "TRANSFER"} => sentTo = NoAddress /\ accepted = 0

IInv == TypeOK /\ HandleIsNoted /\ Requested /\ Unsent /\ RightDevice /\ Told

-----------------------------------------------------------------------------
(* Results *)

\* A failure without a byte transferred, which is all a failed callback reports.
Failure(answer, effect) ==
  /\ answer \in TransportResult
  /\ answer.code # "OK" /\ answer.writeEffect = effect
  /\ answer.completedTxBytes = 0 /\ answer.completedRxBytes = 0

\* Whatever the master driver's error, the callback returns such a failure.
LEMMA ErrorsAreFailures ==
  ASSUME NEW effect \in WriteEffect
  PROVE  /\ Failure(Error("IO_ERROR", effect, 0, 0), effect)
         /\ \A err \in Failures : \A t, r : Failure(mapI2c(err, t, r, effect), effect)
<1> USE DEF Failure, Error, TransportResult, TransportCode, MaxTxBytes, MaxRxBytes
<1>1. Failure(Error("IO_ERROR", effect, 0, 0), effect)
  OBVIOUS
<1>2. ASSUME NEW err \in Failures, NEW t, NEW r
      PROVE  Failure(mapI2c(err, t, r, effect), effect)
  <2>1. CASE err = "ESP_ERR_TIMEOUT" BY <2>1 DEF mapI2c
  <2>2. CASE err = "ESP_ERR_INVALID_ARG" BY <2>2 DEF mapI2c
  <2>3. CASE err = "ESP_ERR_INVALID_RESPONSE" BY <2>3 DEF mapI2c
  <2>4. CASE err = "OTHER" BY <2>4 DEF mapI2c
  <2> QED BY <2>1, <2>2, <2>3, <2>4 DEF Failures, esp_err_t
<1> QED BY <1>1, <1>2

\* Success reports the whole transfer.
LEMMA SuccessIsWhole ==
  ASSUME NEW t \in 1..MaxTxBytes, NEW r \in 0..MaxRxBytes, NEW effect
  PROVE  LET answer == mapI2c("ESP_OK", t, r, effect) IN
         /\ answer \in TransportResult
         /\ answer.writeEffect = "COMMITTED"
         /\ answer.completedTxBytes = t /\ answer.completedRxBytes = r
BY DEF mapI2c, Ok, TransportResult, TransportCode, WriteEffect, MaxTxBytes, MaxRxBytes

\* The driver takes a failure for one, and believes what it denies.
LEMMA DriverBelieves ==
  ASSUME NEW answer, NEW effect, Failure(answer, effect), NEW t, NEW r
  PROVE  /\ MappedError(answer, t, r) # "OK"
         /\ effect = "NOT_ATTEMPTED" => /\ RegisterWriteEffect(answer, t) = "NOT_ATTEMPTED"
                                        /\ CommandEffect(answer) = "NOT_ATTEMPTED"
<1>1. ~Complete(answer, t, r) /\ ~Complete(answer, t, 0) BY DEF Complete, Failure
<1>2. MappedError(answer, t, r) # "OK" BY <1>1 DEF MappedError, Failure
<1> QED BY <1>1, <1>2 DEF Failure, RegisterWriteEffect, CommandEffect

\* A callback that returns such a failure, having used the bus or claiming that
\* it did not, has told the truth.
LEMMA FailureTold ==
  ASSUME NEW effect \in {"NOT_ATTEMPTED", "MAY_HAVE_COMMITTED"}, Failure(result', effect),
         kind' \in {"WRITE", "READ"}, tx' \in 1..MaxTxBytes, rx' \in 0..MaxRxBytes,
         kind' = "READ" => tx' = 1, accepted' \in 0..tx',
         effect = "NOT_ATTEMPTED" => accepted' = 0,
         effect = "MAY_HAVE_COMMITTED" => maybeSent'
  PROVE  Told'
<1>1. AdapterHonest'
  BY DEF AdapterHonest, HonestWrite, HonestRead, Failure, MaxTxBytes, MaxRxBytes
<1>2. DoubtIsReal'
  <2>1. CASE effect = "NOT_ATTEMPTED"
    <3>1. RegisterWriteEffect(result', tx') = "NOT_ATTEMPTED" /\ CommandEffect(result') = "NOT_ATTEMPTED"
      BY <2>1, DriverBelieves
    <3> QED BY <3>1 DEF DoubtIsReal, Effect
  <2>2. CASE effect = "MAY_HAVE_COMMITTED" BY <2>2 DEF DoubtIsReal
  <2> QED BY <2>1, <2>2
<1>3. SuccessIsComplete'
  <2>1. MappedError(result', tx', rx') # "OK" BY DriverBelieves
  <2> QED BY <2>1 DEF SuccessIsComplete
<1> QED BY <1>1, <1>2, <1>3 DEF Told

-----------------------------------------------------------------------------
(* The steps *)

\* Without a bus there is no handle, and the result claims nothing.
LEMMA InitEstablishes == Init => IInv
<1> SUFFICES ASSUME Init PROVE IInv
  OBVIOUS
<1>1. Failure(result, "NOT_ATTEMPTED")
  BY ErrorsAreFailures DEF Init, WriteEffect
<1>2. opened \in BOOLEAN /\ maybeSent \in BOOLEAN BY DEF Init
<1>3. TypeOK BY <1>1, <1>2 DEF Init, TypeOK, Failure, MaxTxBytes, MaxRxBytes
<1>4. AdapterHonest BY <1>1 DEF Init, AdapterHonest, HonestWrite, Failure
<1>5. RegisterWriteEffect(result, tx) = "NOT_ATTEMPTED" /\ MappedError(result, tx, rx) # "OK"
  BY <1>1, DriverBelieves
<1>6. DoubtIsReal BY <1>5 DEF Init, DoubtIsReal, Effect
<1>7. SuccessIsComplete BY <1>5 DEF SuccessIsComplete
<1> QED BY <1>3, <1>4, <1>6, <1>7 DEF Init, IInv, HandleIsNoted, Requested, Unsent, RightDevice, Told

\* A callback that has just begun has used no handle.
LEMMA BeginPreserves ==
  ASSUME IInv, NEW which \in {"WRITE", "READ"}, NEW txLen \in 1..MaxTxBytes, NEW rxLen \in 0..MaxRxBytes,
         which = "READ" => txLen = 1 /\ rxLen > 0, which = "WRITE" => rxLen = 0,
         Begin(which, txLen, rxLen)
  PROVE  IInv'
<1>1. /\ kind' = which /\ tx' = txLen /\ rx' = rxLen /\ accepted' = 0 /\ sentTo' = NoAddress
      /\ address' \in Addresses /\ UNCHANGED bus
  BY DEF Begin
<1>2. opened' \in BOOLEAN /\ maybeSent' \in BOOLEAN BY DEF Begin, bus, IInv, TypeOK
<1>3. CASE step' = "ENSURE" /\ UNCHANGED result
  <2>1. TypeOK' BY <1>1, <1>2, <1>3 DEF bus, IInv, TypeOK, MaxTxBytes
  <2>2. Told' BY <1>3 DEF Told, AdapterHonest, DoubtIsReal, SuccessIsComplete
  <2> QED BY <1>1, <1>3, <2>1, <2>2 DEF bus, IInv, HandleIsNoted, Requested, Unsent, RightDevice
<1>4. CASE step' = "RETURNED" /\ result' = Error("IO_ERROR", "NOT_ATTEMPTED", 0, 0)
  <2>1. Failure(result', "NOT_ATTEMPTED") BY <1>4, ErrorsAreFailures DEF WriteEffect
  <2>2. TypeOK' BY <1>1, <1>2, <1>4, <2>1 DEF bus, IInv, TypeOK, Failure, MaxTxBytes
  <2>3. accepted' \in 0..tx' BY <1>1 DEF MaxTxBytes
  <2>4. Told' BY <1>1, <2>1, <2>3, FailureTold
  <2> QED BY <1>1, <1>4, <2>2, <2>4 DEF bus, IInv, HandleIsNoted, Requested, Unsent, RightDevice
<1> QED BY <1>3, <1>4 DEF Begin, Return

\* ensureDevice leaves the handle of this address, or none and a failure.
LEMMA EnsurePreserves ==
  ASSUME IInv, ensureDevice
  PROVE  IInv'
<1>1. UNCHANGED <<address, sentTo, kind, tx, rx, accepted, maybeSent, opened>>
  BY DEF ensureDevice, bus
<1>2. opened' \in BOOLEAN /\ maybeSent' \in BOOLEAN BY <1>1 DEF IInv, TypeOK
<1>3. sentTo = NoAddress /\ accepted = 0
  BY DEF ensureDevice, IInv, Unsent
<1>4. CASE step' = "TRANSFER" /\ UNCHANGED result /\ device' = address /\ deviceAddress' = address
  <2>1. TypeOK' BY <1>1, <1>2, <1>4 DEF IInv, TypeOK
  <2>2. Told' BY <1>4 DEF Told, AdapterHonest, DoubtIsReal, SuccessIsComplete
  <2> QED BY <1>1, <1>3, <1>4, <2>1, <2>2 DEF IInv, HandleIsNoted, Requested, RightDevice, Unsent
<1>5. ASSUME device' = NoAddress, deviceAddress' = NoAddress, NEW err \in Failures,
             Return(mapI2c(err, 0, 0, "NOT_ATTEMPTED"))
      PROVE  IInv'
  <2>1. Failure(result', "NOT_ATTEMPTED") /\ step' = "RETURNED"
    BY <1>5, ErrorsAreFailures DEF Return, WriteEffect
  <2>2. TypeOK' BY <1>1, <1>2, <1>5, <2>1 DEF IInv, TypeOK, Failure
  <2>3. accepted' \in 0..tx' BY <1>1, <1>3 DEF IInv, TypeOK, MaxTxBytes
  <2>4. Told' BY <1>1, <1>3, <2>1, <2>3, FailureTold DEF IInv, TypeOK, Requested
  <2> QED BY <1>1, <1>3, <1>5, <2>1, <2>2, <2>4 DEF IInv, HandleIsNoted, Requested, RightDevice, Unsent
<1>6. CASE HasDevice
  <2>1. step' = "TRANSFER" /\ UNCHANGED <<bus, result>> BY <1>6 DEF ensureDevice
  <2>2. device' = address /\ deviceAddress' = address
    BY <1>6, <2>1 DEF HasDevice, bus, IInv, HandleIsNoted
  <2> QED BY <1>4, <2>1, <2>2
<1> QED BY <1>4, <1>5, <1>6 DEF ensureDevice

\* The transfer uses that handle, and reports success only of all of it.
LEMMA TransferPreserves ==
  ASSUME IInv, transfer("MAY_HAVE_COMMITTED")
  PROVE  IInv'
<1>1. PICK err \in esp_err_t :
        /\ accepted' \in IF err = "ESP_OK" THEN {tx} ELSE 0..tx
        /\ Return(mapI2c(err, tx, rx, "MAY_HAVE_COMMITTED"))
  BY DEF transfer
<1>2. /\ sentTo' = address /\ UNCHANGED <<opened, device, deviceAddress, address, kind, tx, rx>>
      /\ step' = "RETURNED"
  BY <1>1 DEF transfer, Return, bus, IInv, HandleIsNoted
<1>3. maybeSent' = TRUE BY DEF transfer
<1>4. opened' \in BOOLEAN /\ maybeSent' \in BOOLEAN BY <1>2, <1>3 DEF IInv, TypeOK
<1>5. /\ kind \in {"WRITE", "READ"} /\ tx \in 1..MaxTxBytes /\ rx \in 0..MaxRxBytes
      /\ kind = "READ" => tx = 1 /\ rx > 0
      /\ kind = "WRITE" => rx = 0
  BY DEF IInv, TypeOK, Requested
<1>6. result' \in TransportResult /\ accepted' \in 0..tx /\ Told'
  <2>1. CASE err = "ESP_OK"
    <3>1. /\ result' \in TransportResult /\ accepted' = tx
          /\ result'.writeEffect = "COMMITTED"
          /\ result'.completedTxBytes = tx /\ result'.completedRxBytes = rx
      BY <1>1, <1>5, <2>1, SuccessIsWhole DEF Return
    <3>2. AdapterHonest'
      BY <1>2, <1>5, <3>1 DEF AdapterHonest, HonestWrite, HonestRead, MaxTxBytes, MaxRxBytes
    <3>3. DoubtIsReal' BY <1>3 DEF DoubtIsReal
    <3>4. SuccessIsComplete' BY <1>2, <1>3, <3>1 DEF SuccessIsComplete
    <3>5. accepted' \in 0..tx BY <1>5, <3>1 DEF MaxTxBytes
    <3> QED BY <3>1, <3>2, <3>3, <3>4, <3>5 DEF Told
  <2>2. CASE err \in Failures
    <3>1. Failure(result', "MAY_HAVE_COMMITTED")
      BY <1>1, <2>2, ErrorsAreFailures DEF Return, WriteEffect
    <3>2. accepted' \in 0..tx BY <1>1, <2>2 DEF Failures
    <3>3. maybeSent' BY <1>3
    <3>4. Told' BY <1>2, <1>5, <3>1, <3>2, <3>3, FailureTold
    <3> QED BY <3>1, <3>2, <3>4 DEF Failure
  <2> QED BY <2>1, <2>2 DEF Failures
<1>7. accepted' \in 0..MaxTxBytes BY <1>5, <1>6 DEF MaxTxBytes
<1>8. TypeOK' BY <1>2, <1>4, <1>5, <1>6, <1>7 DEF IInv, TypeOK
<1> QED BY <1>2, <1>6, <1>8 DEF IInv, HandleIsNoted, Requested, RightDevice, Unsent

\* Every step preserves the invariant.
LEMMA StepPreserves == IInv /\ [Next]_vars => IInv'
<1> SUFFICES ASSUME IInv, [Next]_vars PROVE IInv'
  OBVIOUS
<1>1. CASE initBus
  <2>1. opened' \in BOOLEAN /\ maybeSent' \in BOOLEAN BY <1>1 DEF initBus, IInv, TypeOK
  <2> QED BY <1>1, <2>1
          DEF initBus, IInv, TypeOK, HandleIsNoted, Requested, RightDevice, Told, Unsent,
              AdapterHonest, DoubtIsReal, SuccessIsComplete, Effect
<1>2. CASE i2cWrite BY <1>2, BeginPreserves DEF i2cWrite, MaxRxBytes
<1>3. CASE i2cWriteRead BY <1>3, BeginPreserves DEF i2cWriteRead, MaxRxBytes, MaxTxBytes
<1>4. CASE ensureDevice BY <1>4, EnsurePreserves
<1>5. CASE transfer("MAY_HAVE_COMMITTED") BY <1>5, TransferPreserves
<1>6. CASE UNCHANGED vars
  BY <1>6 DEF vars, bus, IInv, TypeOK, HandleIsNoted, Requested, RightDevice, Told, Unsent,
              AdapterHonest, DoubtIsReal, SuccessIsComplete, Effect
<1> QED BY <1>1, <1>2, <1>3, <1>4, <1>5, <1>6 DEF Next

\* The invariant holds of every behaviour.
THEOREM NativeInvariant == Spec => []IInv
<1>1. Init => IInv BY InitEstablishes
<1>2. IInv /\ [Next]_vars => IInv' BY StepPreserves
<1> QED BY <1>1, <1>2, PTL DEF Spec

\* i2cWrite and i2cWriteRead keep the callback contract, whatever the I2C master
\* driver answers: the theorems about the driver hold in the ESP-IDF program too.
THEOREM NativeIsHonest == Spec => [](AdapterHonest /\ DoubtIsReal /\ SuccessIsComplete)
<1>1. IInv => AdapterHonest /\ DoubtIsReal /\ SuccessIsComplete BY DEF IInv, Told
<1> QED BY <1>1, NativeInvariant, PTL

\* However handles were added, removed and lost before, a transfer goes through
\* the handle of the device it was meant for, with any number of devices.
THEOREM TransfersGoRight == Spec => []RightDevice
<1>1. IInv => RightDevice BY DEF IInv
<1> QED BY <1>1, NativeInvariant, PTL

=============================================================================
