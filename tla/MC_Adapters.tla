---------------------------- MODULE MC_Adapters -----------------------------
(***************************************************************************)
(* Both programs' transport callbacks, with timeouts below, at and above   *)
(* what Wire can hold, and two addresses for the ESP-IDF callbacks.        *)
(***************************************************************************)
EXTENDS Adapters

SomeRequests == {0, 1, 5, 6}

=============================================================================
