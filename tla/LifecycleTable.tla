--------------------------- MODULE LifecycleTable ---------------------------
(***************************************************************************)
(* The statuses of an experiment and the table of the transitions the      *)
(* service layer allows, shared by the abstract Lifecycle specification    *)
(* and the detailed ExperimentRun.                                         *)
(***************************************************************************)

Statuses == {"CREATED", "QUEUED", "RUNNING", "COMPLETED", "FAILED",
             "RETRYING", "CANCELLED"}

Terminal == {"COMPLETED", "CANCELLED"}

(* The statuses in which a client waits for the run to move on.            *)
Active == {"QUEUED", "RUNNING", "RETRYING"}

Transitions ==
  [CREATED   |-> {"QUEUED", "CANCELLED"},
   QUEUED    |-> {"RUNNING", "CANCELLED"},
   RUNNING   |-> {"COMPLETED", "FAILED", "CANCELLED"},
   FAILED    |-> {"RETRYING", "CANCELLED", "QUEUED"},
   RETRYING  |-> {"RUNNING", "CANCELLED"},
   COMPLETED |-> {},
   CANCELLED |-> {}]

(* validate_transition: anything else raises ConflictError.                *)
Legal(from, to) == to \in Transitions[from]

=============================================================================
