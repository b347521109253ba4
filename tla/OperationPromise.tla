-------------------------- MODULE OperationPromise --------------------------
(***************************************************************************)
(* What the driver promises the owner of a cooperative operation, without  *)
(* its phases, its transfers or the chip.  An admitted operation holds the *)
(* slot until its one result is taken.  It may come to owe a park of the   *)
(* command pointer; then it ends only with the one attempt at the park,    *)
(* and with the first terminal cause there was, if there was one.          *)
(***************************************************************************)

CONSTANT Outcomes  \* the terminal outcomes of an operation

VARIABLES
  state,  \* "FREE", "WORKING", "PARKING" or "FINISHED"
  cause,  \* the outcome that is decided, or "NONE"
  tried   \* the park was attempted

vars == <<state, cause, tried>>

Init == state = "FREE" /\ cause = "NONE" /\ tried = FALSE

Admit == /\ state = "FREE"
         /\ state' = "WORKING"
         /\ UNCHANGED <<cause, tried>>

\* Work that owes no park ends with any outcome.
EndAtOnce == /\ state = "WORKING"
             /\ state' = "FINISHED"
             /\ cause' \in Outcomes
             /\ UNCHANGED tried

\* The operation comes to owe a park, through a read that worked or that failed.
OwePark == /\ state = "WORKING"
           /\ state' = "PARKING"
           /\ cause' \in {"NONE", "FAILED"}
           /\ UNCHANGED tried

\* The first terminal cause while the park is owed: the owner's, or the deadline.
Request == /\ state = "PARKING" /\ cause = "NONE"
           /\ cause' \in Outcomes
           /\ UNCHANGED <<state, tried>>

\* The park, which decides the outcome if nothing did before.
EndWithPark == /\ state = "PARKING"
               /\ state' = "FINISHED"
               /\ tried' = TRUE
               /\ IF cause = "NONE" THEN cause' \in {"SUCCEEDED", "FAILED"} ELSE UNCHANGED cause

Take == /\ state = "FINISHED"
        /\ state' = "FREE" /\ cause' = "NONE" /\ tried' = FALSE

Next == Admit \/ EndAtOnce \/ OwePark \/ Request \/ EndWithPark \/ Take

Spec == Init /\ [][Next]_vars

=============================================================================
