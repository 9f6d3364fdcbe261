------------------------ MODULE MCExperimentWorkflow ------------------------
(***************************************************************************)
(* TLC instances of ExperimentWorkflow.                                    *)
(***************************************************************************)
EXTENDS ExperimentWorkflow, TLC

C(dtype, unique, named) ==
  [kind |-> Classify(dtype, dtype = "object" /\ unique = "most", 0),
   unique |-> unique, named |-> named, sparse |-> FALSE]

Sample(metric, compare, task, hint, schema) ==
  [objective |-> metric, intent |-> compare, task |-> task, hint |-> hint,
   named |-> TRUE, schema |-> schema, rows |-> "many", baseline |-> 1,
   classes |-> "two"]

(* A table with an obvious target.                                         *)
Plain == <<C("numeric", "half", "no"), C("object", "two", "exactly")>>

(* The shapes that make target resolution hard: a tie, an identifier that  *)
(* the objective names, prose, a constant, a continuous outcome.           *)
Tie == <<C("object", "two", "partly"), C("object", "two", "partly")>>
Ids == <<C("object", "all", "exactly"), C("object", "ten", "no"), C("object", "most", "no")>>
Flat == <<C("object", "one", "partly"), C("numeric", "most", "no")>>

Objectives ==
  {Sample(<<"accuracy">>, <<"yes">>, "classification", {}, Plain)}
  \cup {[Sample(<<"auc">>, <<>>, "classification", {}, Plain) EXCEPT !.classes = k] :
          k \in {"two", "several"}}
  \cup {Sample(<<"rmse">>, <<>>, "regression", {1}, Plain)}
  \cup {[Sample(<<>>, <<"no">>, "classification", {}, Plain) EXCEPT !.named = FALSE]}

Targets ==
  {Sample(<<"recall">>, <<>>, "classification", h, Tie) : h \in {{}, {2}}}
  \cup {Sample(<<"recall">>, <<>>, "classification", h, Ids) : h \in {{}, {0}, {1}, {3}}}
  \cup {Sample(<<>>, <<>>, "regression", {}, Flat)}

MCRequests == Objectives \cup Targets

MCAnswers ==
  {[family |-> "gradient_boosting", candidates |-> <<>>],
   [family |-> "xgboost", candidates |-> <<"random_forest">>]}

=============================================================================
