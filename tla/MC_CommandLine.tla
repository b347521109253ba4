--------------------------- MODULE MC_CommandLine ---------------------------
(***************************************************************************)
(* Both programs, and every line their help lists.                         *)
(***************************************************************************)
EXTENDS CommandLine

BothPrograms == {"Arduino", "native"}

=============================================================================
