--------------------------- MODULE Preprocessing ---------------------------
(***************************************************************************)
(* What happens to the columns of a dataset between the profiler and the   *)
(* estimators: the plan of agents/preprocessor.py and the transformers     *)
(* that engine/sandbox/train_script.py builds from it.  Columns are those  *)
(* of TargetResolution.                                                    *)
(***************************************************************************)
EXTENDS Naturals, Sequences, FiniteSets

(* The group a column is planned in; prose and identifiers are in none.    *)
Group(c) ==
  CASE c.sparse -> "dropped"
    [] ~c.sparse /\ c.kind = "numeric" -> "numeric"
    [] ~c.sparse /\ c.kind = "labels" ->
         IF c.unique \in {"one", "two"} THEN "binary" ELSE "categorical"
    [] ~c.sparse /\ c.kind = "datetime" -> "datetime"
    [] OTHER -> "none"

Features(schema, target) == DOMAIN schema \ target

(* The rules per column, and the columns to drop: the target, and what is  *)
(* mostly missing.                                                         *)
Plan(schema, target) ==
  LET In(group) == {i \in Features(schema, target) : Group(schema[i]) = group}
      Planned == Features(schema, target) \ (In("dropped") \cup In("none"))
  IN [drop |-> In("dropped") \cup (target \cap DOMAIN schema),
      groups |-> [g \in {"numeric", "categorical", "binary", "datetime"} |-> In(g)],
      imputation |-> [i \in Planned |->
                        IF i \in In("numeric") THEN "median" ELSE "most_frequent"],
      encoding |-> [i \in Planned \ In("numeric") |->
                      CASE i \in In("binary") -> "binary"
                        [] i \in In("datetime") -> "datetime_parts"
                        [] schema[i].unique = "ten" -> "one-hot"
                        [] OTHER -> "ordinal"]]

NoPlan == [drop |-> {}, groups |-> <<>>]

(* The trainer goes by what it reads in the file: everything that is no    *)
(* number is categorical, prose and dates included.                        *)
ReadAs(c) ==
  CASE c.kind = "numeric" -> "numeric"
    [] c.kind # "numeric" /\ c.unique \in {"one", "two"} -> "binary"
    [] OTHER -> "categorical"

(* The steps of a group's pipeline.  The rules per column are not looked   *)
(* up: the builder is asked about groups alone.                            *)
Transformer(group) ==
  CASE group = "numeric" -> <<"median", "standard">>
    [] group = "categorical" -> <<"most_frequent", "one-hot">>
    [] OTHER -> <<"most_frequent", "ordinal">>

(* The matrix the estimators see: a column of the file, the transformer it *)
(* goes through; without a plan, binary columns are encoded as labels.     *)
Prepared(schema, target, plan) ==
  LET dropped == plan.drop \cup target
      kept == DOMAIN schema \ dropped
  IN [i \in kept |->
        IF plan = NoPlan /\ ReadAs(schema[i]) = "binary"
        THEN Transformer("categorical") ELSE Transformer(ReadAs(schema[i]))]

=============================================================================
