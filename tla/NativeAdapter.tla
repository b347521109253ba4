--------------------------- MODULE NativeAdapter ---------------------------
(***************************************************************************)
(* The transport callbacks of the ESP-IDF example, i2cWrite and            *)
(* i2cWriteRead.  Each first sees to it that the bus has a device handle   *)
(* for the address it is given, and then makes one transfer through that   *)
(* handle.  A handle is the address the I2C master driver created it for;  *)
(* what the master driver answers is the environment's choice.             *)
(***************************************************************************)
EXTENDS Callback

CONSTANTS Addresses,  \* the addresses a callback may be given; the program binds one
          NoAddress   \* no handle, and a deviceAddress of zero

VARIABLES
  opened,    \* the bus was created: gBus.bus is not null
  device, deviceAddress,  \* the handle the bus holds, and the address it has noted for it
  address,   \* the address the callback was given
  sentTo     \* history: the handle its transfer went through

\* maybeSent: the transfer was made.

bus == <<opened, device, deviceAddress>>
vars == <<bus, address, sentTo, kind, tx, rx, step, result, accepted, maybeSent>>

\* Results of the master driver; OTHER stands for all the rest.
esp_err_t == {"ESP_OK", "ESP_ERR_TIMEOUT", "ESP_ERR_INVALID_ARG", "ESP_ERR_INVALID_RESPONSE",
              "OTHER"}

Failures == esp_err_t \ {"ESP_OK"}

mapI2c(err, txBytes, rxBytes, effect) ==
  CASE err = "ESP_OK" -> Ok(txBytes, rxBytes)
    [] err = "ESP_ERR_TIMEOUT" -> Error("TIMEOUT", effect, 0, 0)
    [] err \in {"ESP_ERR_INVALID_ARG", "ESP_ERR_INVALID_RESPONSE"} -> Error("IO_ERROR", effect, 0, 0)
    [] OTHER -> Error("BUS_ERROR", effect, 0, 0)

Return(answer) == step' = "RETURNED" /\ result' = answer

-----------------------------------------------------------------------------

initBus ==
  /\ ~opened
  /\ step = "RETURNED"
  /\ opened' = TRUE
  /\ UNCHANGED <<device, deviceAddress, address, sentTo, kind, tx, rx, step, result, accepted,
                 maybeSent>>

\* A callback begins; without a bus it fails at once.
Begin(which, txLen, rxLen) ==
  /\ step = "RETURNED"
  /\ kind' = which /\ tx' = txLen /\ rx' = rxLen
  /\ address' \in Addresses
  /\ sentTo' = NoAddress /\ accepted' = 0 /\ maybeSent' = FALSE
  /\ IF opened THEN step' = "ENSURE" /\ UNCHANGED result
               ELSE Return(Error("IO_ERROR", "NOT_ATTEMPTED", 0, 0))
  /\ UNCHANGED bus

\* Mistake: any handle will do.
HasDeviceOfAny == device # NoAddress

HasDevice == device # NoAddress /\ deviceAddress = address

\* ensureDevice: the handle is there, or the old one is given up, whether the
\* master driver can remove it or not, and one for this address is added.
ensureDevice ==
  /\ step = "ENSURE"
  /\ IF HasDevice
     THEN step' = "TRANSFER" /\ UNCHANGED <<bus, result>>
     ELSE /\ \/ /\ device' = address /\ deviceAddress' = address
                /\ step' = "TRANSFER"
                /\ UNCHANGED result
             \/ /\ device' = NoAddress /\ deviceAddress' = NoAddress
                /\ \E err \in Failures : Return(mapI2c(err, 0, 0, "NOT_ATTEMPTED"))
          /\ UNCHANGED opened
  /\ UNCHANGED <<address, sentTo, kind, tx, rx, accepted, maybeSent>>

\* The one transfer; only a successful one tells what the device accepted.
transfer(effect) ==
  /\ step = "TRANSFER"
  /\ sentTo' = device /\ maybeSent' = TRUE
  /\ \E err \in esp_err_t :
       /\ accepted' \in IF err = "ESP_OK" THEN {tx} ELSE 0..tx
       /\ Return(mapI2c(err, tx, rx, effect))
  /\ UNCHANGED <<bus, address, kind, tx, rx>>

-----------------------------------------------------------------------------

Init ==
  /\ opened = FALSE
  /\ device = NoAddress /\ deviceAddress = NoAddress
  /\ address \in Addresses /\ sentTo = NoAddress
  /\ kind = "WRITE" /\ tx = 1 /\ rx = 0
  /\ step = "RETURNED"
  /\ result = Error("IO_ERROR", "NOT_ATTEMPTED", 0, 0)
  /\ accepted = 0 /\ maybeSent = FALSE

i2cWrite == \E txLen \in 1..MaxTxBytes : Begin("WRITE", txLen, 0)

i2cWriteRead == \E rxLen \in 1..MaxRxBytes : Begin("READ", 1, rxLen)

Next == initBus \/ i2cWrite \/ i2cWriteRead \/ ensureDevice \/ transfer("MAY_HAVE_COMMITTED")

Spec == Init /\ [][Next]_vars

-----------------------------------------------------------------------------

TypeOK ==
  /\ opened \in BOOLEAN
  /\ {device, deviceAddress, sentTo} \subseteq Addresses \cup {NoAddress}
  /\ address \in Addresses
  /\ kind \in {"WRITE", "READ"}
  /\ tx \in 1..MaxTxBytes /\ rx \in 0..MaxRxBytes
  /\ step \in {"RETURNED", "ENSURE", "TRANSFER"}
  /\ result \in TransportResult
  /\ accepted \in 0..MaxTxBytes /\ maybeSent \in BOOLEAN

\* A transfer goes to the device the caller addressed, whichever devices the bus
\* was used for before and however adding and removing them went.
RightDevice == step = "RETURNED" => sentTo \in {address, NoAddress}

=============================================================================
