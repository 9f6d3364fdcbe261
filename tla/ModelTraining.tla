--------------------------- MODULE ModelTraining ---------------------------
(***************************************************************************)
(* Which families a run trains and what the trainer reports of them: the   *)
(* selection stage (agents/model_selector.py), the training tool           *)
(* (engine/tools/ml.py) and the script that trains, in the sandbox or in   *)
(* this process (engine/sandbox/train_script.py).                          *)
(***************************************************************************)
EXTENDS Metrics, Preprocessing, TargetResolution, SequencesExt

(* The shortlist of a task and a metric, the most promising family first.  *)
Shortlist(task, metric) ==
  CASE task = "regression" -> <<"gradient_boosting", "random_forest", "ridge">>
    [] task # "regression" /\ metric = "recall" ->
         <<"random_forest", "gradient_boosting", "logistic_regression">>
    [] task # "regression" /\ metric \in {"precision", "log_loss"} ->
         <<"logistic_regression", "gradient_boosting", "random_forest">>
    [] OTHER -> <<"gradient_boosting", "random_forest", "logistic_regression">>

(* What the selection stage publishes: the chosen family is among the      *)
(* candidates of a comparison.                                             *)
ModelSpec(family, candidates, compare) ==
  [family |-> family,
   candidates |-> IF compare /\ ~Contains(candidates, family)
                  THEN <<family>> \o candidates ELSE candidates]

HeuristicSpec(task, metric, compare) ==
  LET shortlist == Shortlist(task, metric)
  IN ModelSpec(Head(shortlist), shortlist, compare)

(* A sequence where only the first of several equals stays, in its place.  *)
NoDuplicates(s) ==
  LET first == {i \in DOMAIN s : \A j \in 1 .. i - 1 : s[j] # s[i]}
  IN [i \in first |-> s[i]]

(* The families a job trains, by their place in the order: the             *)
(* comparison's, or the chosen one alone.                                  *)
Families(spec, compare) ==
  IF compare THEN NoDuplicates(Append(spec.candidates, spec.family))
  ELSE <<spec.family>>

(* The families get_model builds for a task.                               *)
Buildable(family, task) ==
  \/ family \in {"random_forest", "gradient_boosting", "hist_gradient_boosting", "svm"}
  \/ family = "logistic_regression" /\ task = "classification"
  \/ family \in {"ridge", "linear_regression"} /\ task = "regression"

(* The metrics the trainer computes: the probabilities of a binary model   *)
(* reach compute_metrics as one column, and the ROC AUC it would report    *)
(* raises and is left out; nothing computes log_loss.                      *)
Computed(task, classes) ==
  IF task = "regression" THEN RegressionMetrics
  ELSE {"accuracy", "f1", "precision", "recall"}
         \cup (IF classes = "several" THEN {"roc_auc"} ELSE {})

(* The baseline predicts one class and has no probabilities.               *)
BaselineComputed(task) == Computed(task, "two")

(* The index of the target in the file; a name that is in no column        *)
(* raises.                                                                 *)
Found(schema, target) == target \in DOMAIN schema

(* One fitted family: its metrics, or the exception, which ends only this  *)
(* family.  outcome is a score, or "raises".                               *)
Entry(family, outcome, metric, task, classes) ==
  [model |-> family,
   score |-> ScoreFrom([m \in Computed(task, classes) |-> outcome], metric)]

NotMeasured ==
  [selected |-> {}, score |-> {}, comparison |-> <<>>, baseline |-> {}, evaluated |-> 0]

(* run_model_comparison: every family is fitted, one that raises is left   *)
(* out, and the best on the requested metric is selected.  outcomes maps   *)
(* each family to its score or to {}.                                      *)
Compared(families, outcomes, baseline, metric, task, classes) ==
  LET fitted == {i \in DOMAIN families :
                   Buildable(families[i], task) /\ outcomes[families[i]] # {}}
      entries == [i \in fitted |->
                    Entry(families[i], CHOOSE s \in outcomes[families[i]] : TRUE,
                          metric, task, classes)]
      best == SelectBest(entries, metric)
  IN [selected |-> {entries[i].model : i \in best},
      score |-> UNION {entries[i].score : i \in best},
      comparison |-> entries,
      baseline |-> IF metric \in BaselineComputed(task) THEN {baseline} ELSE {},
      evaluated |-> Cardinality(fitted)]

(* main, the script in the container.  A comparison writes its payload     *)
(* even when nothing could be fitted; a single model writes a flat         *)
(* dictionary of metrics, which names neither a selected model nor a       *)
(* score, and an exception ends the script.                                *)
ScriptEnds(compare, payload) ==
  [exit |-> IF compare \/ payload.evaluated > 0 THEN "zero" ELSE "error",
   written |-> IF compare THEN payload ELSE NotMeasured]

(* _run_in_sandbox: what the tool makes of a finished container.           *)
FromSandbox(exit, written) ==
  [success |-> exit = "zero",
   data |-> IF exit = "zero" THEN written ELSE NotMeasured]

(* _run_in_process: the same comparison without the preprocessing plan;    *)
(* the job succeeds when it selected a model.  An exception fails the job. *)
InProcess(payload, raises) ==
  [success |-> ~raises,
   data |-> IF raises THEN NotMeasured ELSE payload]

(* The plan each backend prepares the data with.                           *)
PlanUsed(backend, plan) == IF backend = "docker_sandbox" THEN plan ELSE NoPlan

=============================================================================
