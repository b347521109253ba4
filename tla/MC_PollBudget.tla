--------------------------- MODULE MC_PollBudget ---------------------------
(***************************************************************************)
(* A clock of sixteen values, so that it wraps within every operation.     *)
(***************************************************************************)
EXTENDS PollBudget

SomeBudgets == {0, 1, 2, 5, 255}
=============================================================================
