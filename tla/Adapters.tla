----------------------------- MODULE Adapters ------------------------------
(***************************************************************************)
(* The transport callbacks of both example programs, one program in each   *)
(* behaviour: the Arduino program on Wire, or the ESP-IDF callbacks, which *)
(* are given any of several addresses, though the program binds one.       *)
(***************************************************************************)
EXTENDS WireAdapter

CONSTANTS Addresses, NoAddress

VARIABLES platform, opened, device, deviceAddress, address, sentTo

Native == INSTANCE NativeAdapter

onlyWire == <<timeOut, request>>
onlyNative == <<opened, device, deviceAddress, address, sentTo>>

BothInit ==
  /\ platform \in {"Arduino", "native"}
  /\ Init /\ Native!Init

BothNext ==
  /\ UNCHANGED platform
  /\ \/ platform = "Arduino" /\ Next /\ UNCHANGED onlyNative
     \/ platform = "native" /\ Native!Next /\ UNCHANGED onlyWire

BothSpec == BothInit /\ [][BothNext]_<<vars, platform, onlyNative>>

-----------------------------------------------------------------------------

\* The state of the ESP-IDF callbacks has its types: handle and address are those of a
\* device, and a result reports no more bytes than a transfer has.
NativeTypeOK == platform = "native" => Native!TypeOK

\* A transfer goes through the handle of the device it is meant for.
NativeRightDevice == platform = "native" => Native!RightDevice

=============================================================================
