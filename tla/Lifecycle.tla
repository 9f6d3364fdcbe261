------------------------------ MODULE Lifecycle ------------------------------
(***************************************************************************)
(* What the experiment lifecycle promises to a client that only watches    *)
(* the status column: the documented state machine, one legal transition   *)
(* at a time, plus the worker's safety net, which may mark any active run  *)
(* FAILED, and the deletion of the row.  ExperimentRun is shown to         *)
(* implement it when the executions of a run do not overlap.               *)
(***************************************************************************)
EXTENDS LifecycleTable

VARIABLES exists, status

lvars == <<exists, status>>

LInit == exists = TRUE /\ status = "CREATED"

LTransition ==
  /\ exists
  /\ status' \in Transitions[status]
  /\ UNCHANGED exists

(* The failure handler of a task writes FAILED without the table.          *)
LSafetyNet ==
  /\ exists
  /\ status \in Active
  /\ status' = "FAILED"
  /\ UNCHANGED exists

LDelete ==
  /\ exists
  /\ exists' = FALSE
  /\ UNCHANGED status

LNext == LTransition \/ LSafetyNet \/ LDelete

LSpec == LInit /\ [][LNext]_lvars

=============================================================================
