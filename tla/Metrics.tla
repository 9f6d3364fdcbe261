------------------------------ MODULE Metrics ------------------------------
(***************************************************************************)
(* The objective of a run and how scores on it compare (engine/metrics.py  *)
(* and the sanity check of engine/verification).  A score is an integer, a *)
(* half of one: One stands for 1.0.  A value that may be missing is a set  *)
(* of at most one element.                                                 *)
(***************************************************************************)
EXTENDS Integers, Sequences, FiniteSetsExt

One == 2

ClassificationMetrics ==
  {"accuracy", "precision", "recall", "f1", "roc_auc", "log_loss"}
RegressionMetrics == {"mse", "mae", "rmse", "r2"}
LowerIsBetter == {"mse", "mae", "rmse", "log_loss"}

(* Spellings of a requested metric and the name each one stands for.       *)
Canonical(name) ==
  CASE name \in {"f1_macro", "f1_weighted"} -> "f1"
    [] name \in {"auc", "auc_roc"} -> "roc_auc"
    [] name = "logloss" -> "log_loss"
    [] OTHER -> name

(* The first of the three config keys that names a metric; by task when    *)
(* none does.                                                              *)
PrimaryMetric(named, task) ==
  IF named # <<>> THEN Canonical(Head(named))
  ELSE IF task = "regression" THEN "r2" ELSE "accuracy"

(* The intent to compare, from the first key that is set.                  *)
CompareModels(set) == set # <<>> /\ Head(set) \in {"1", "true", "yes", "on", "y"}

HigherIsBetter(metric) == Canonical(metric) \notin LowerIsBetter

(* Whether score a is strictly better than score b.                        *)
Better(metric, a, b) == IF HigherIsBetter(metric) THEN a > b ELSE a < b

(* The scores a metric can take.                                           *)
ScoresOf(metric) ==
  CASE metric = "r2" -> -1 .. One
    [] metric \in LowerIsBetter -> 0 .. One + 1
    [] OTHER -> 0 .. One

(* The first name a metric goes by among those measured.  measured is a    *)
(* function from names to scores.                                          *)
Aliases(metric) ==
  IF metric = "f1" THEN <<"f1", "f1_macro", "f1_weighted">> ELSE <<metric>>

ScoreFrom(measured, metric) ==
  LET names == Aliases(Canonical(metric))
      known == {k \in DOMAIN names : names[k] \in DOMAIN measured}
  IN {measured[names[k]] : k \in {k \in known : \A j \in known : k <= j}}

(* The index of the best scored entry, the first one on a tie; empty when  *)
(* nothing is scored.  Each entry has a model and a score.                 *)
SelectBest(entries, metric) ==
  LET scored == {i \in DOMAIN entries : entries[i].score # {}}
      Score(i) == CHOOSE s \in entries[i].score : TRUE
  IN {i \in scored : \A j \in scored :
        /\ ~Better(metric, Score(j), Score(i))
        /\ Score(j) = Score(i) => i <= j}

(* What the sanity check objects to: a share outside its range, and one    *)
(* that is perfect.                                                        *)
Insane(metric, score) ==
  metric \in {"accuracy", "f1", "roc_auc"} /\ (score < 0 \/ score >= One)

(* A mutant of Dominates: a tie with the baseline is enough.               *)
DominatesOrTies(metric, score, baseline) == ~Better(metric, baseline, score)

(* The strict comparison with the majority-class baseline.                 *)
Dominates(metric, score, baseline) == Better(metric, score, baseline)

=============================================================================
