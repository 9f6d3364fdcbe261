------------------------- MODULE TargetResolution -------------------------
(***************************************************************************)
(* Which column of a dataset a run predicts (engine/targeting.py).  A      *)
(* schema is a sequence of columns in the order of their names; of a       *)
(* column it keeps its kind, how many distinct values it has among the     *)
(* rows read, and how much of its name the user's objective spells out.    *)
(* Scores are thousandths.  A hint (the column the user named) and a       *)
(* proposal (the column a model named) are sets of at most one index; a    *)
(* name that is in no column is index 0.                                   *)
(***************************************************************************)
EXTENDS Integers, Sequences, FiniteSetsExt

Tasks == {"classification", "regression"}

(* Distinct values tell an identifier only among fifty rows or more.       *)
RowCounts == {"none", "few", "many"}

(* A column as the resolver sees it: "one" distinct value at most, "two",  *)
(* at most "ten", at most "half" as many as rows, more than that for       *)
(* "most", 95% or more for "all"; sparse when more than half is missing.   *)
Column ==
  [kind  : {"numeric", "labels", "text", "datetime"},
   unique: {"one", "two", "ten", "half", "most", "all"},
   named : {"no", "partly", "exactly"},
   sparse: BOOLEAN]

(* The kind of a column's values: prose is what is long, or has more than  *)
(* fifty distinct values.                                                  *)
Classify(dtype, long, distinct) ==
  CASE dtype \in {"numeric", "datetime"} -> dtype
    [] dtype = "object" /\ (long \/ distinct > 50) -> "text"
    [] OTHER -> "labels"

Constant(c, rows) == rows # "none" /\ c.unique = "one"

IdentifierLike(c, rows, task) ==
  task # "regression" /\ rows = "many" /\ c.unique = "all"

(* The score of a column's shape alone.                                    *)
Structural(c, rows, task) ==
  CASE Constant(c, rows) \/ IdentifierLike(c, rows, task) -> 0
    [] task = "regression" ->
         IF c.kind # "numeric" THEN 0
         ELSE IF c.unique \in {"most", "all"} /\ rows = "many" THEN 270 ELSE 450
    [] c.kind \in {"text", "datetime"} \/ c.unique = "one" -> 0
    [] OTHER ->
         LET class == IF c.kind = "labels" THEN 450 ELSE 270
         IN IF c.unique \in {"most", "all"} THEN (class * 4) \div 10 ELSE class

(* The score of the user's words: how many of the column's significant     *)
(* tokens they match, all of them or half.                                 *)
Words(c) ==
  CASE c.named = "exactly" -> 900
    [] c.named = "partly" -> 800
    [] OTHER -> 0

Explicit == 1000
Proposed == 850

(* The candidates for column i.  A matching hint leaves every other        *)
(* evidence unread, and so does the shape of an identifier.  A proposal    *)
(* lifts the score but not the evidence.                                   *)
Candidates(schema, rows, task, hint, proposal, i) ==
  LET shape == Structural(schema[i], rows, task)
      words == Words(schema[i])
      both == Max({shape, words})
      Candidate(score, by, tiebreak, evidence) ==
        [column |-> i, score |-> score, by |-> by,
         tiebreak |-> tiebreak, evidence |-> evidence]
      If(b, S) == IF b THEN S ELSE {}
  IN CASE i \in hint -> {Candidate(Explicit, "explicit_hint", 1000, Explicit)}
       [] i \notin hint /\ IdentifierLike(schema[i], rows, task) ->
            If(both > 0, {Candidate(0, "disqualified", 0, 0)})
       [] OTHER ->
            If(both > 0,
               {Candidate(both, IF words >= shape THEN "objective" ELSE "structure",
                          shape, both)})
            \cup
            If(i \in proposal,
               {Candidate(Max({both, Proposed}), "model_proposal", shape, both)})

(* The order of the ranking: score, then tiebreak, then name.              *)
Precedes(a, b) ==
  \/ a.score > b.score
  \/ a.score = b.score /\ a.tiebreak > b.tiebreak
  \/ a.score = b.score /\ a.tiebreak = b.tiebreak /\ a.column < b.column

(* The strongest candidate of a set; the first one considered stays when   *)
(* the proposal adds nothing to it.                                        *)
Strongest(S) ==
  CHOOSE a \in S : \A b \in S \ {a} :
    Precedes(a, b) \/ (~Precedes(b, a) /\ b.by = "model_proposal")

(* One candidate per column.                                               *)
Ranked(schema, rows, task, hint, proposal) ==
  LET Of(i) == Candidates(schema, rows, task, hint, proposal, i)
  IN {Strongest(Of(i)) : i \in {j \in DOMAIN schema : Of(j) # {}}}

Unresolved == [status |-> "unresolved", column |-> 0, by |-> ""]
Ambiguous == [status |-> "ambiguous", column |-> 0, by |-> ""]
Resolved(c) == [status |-> "resolved", column |-> c.column, by |-> c.by]

(* resolve_target: the strongest column, unless the evidence for the next  *)
(* one and its shape are the same; a hint that names no column is an       *)
(* error.                                                                  *)
ResolveTarget(schema, rows, task, hint, proposal) ==
  LET ranked == Ranked(schema, rows, task, hint, proposal)
      top == Strongest(ranked)
      next == Strongest(ranked \ {top})
      Tied ==
        /\ ranked # {top}
        /\ top.evidence = next.evidence
        /\ top.tiebreak = next.tiebreak
        /\ top.by # "explicit_hint"
  IN CASE ~(hint \subseteq DOMAIN schema) -> Unresolved
       [] hint \subseteq DOMAIN schema /\ ranked = {} -> Unresolved
       [] OTHER ->
            IF top.score = 0 THEN Unresolved
            ELSE IF Tied THEN Ambiguous ELSE Resolved(top)

(* validate_target: what a chosen column must not be.                      *)
Usable(c, rows, task) ==
  /\ ~Constant(c, rows)
  /\ task = "regression" => c.kind = "numeric"
  /\ task # "regression" => c.kind # "text"

(* A mutant of ResolveAndValidate: what was resolved is not validated.     *)
ResolveUnvalidated(schema, rows, task, hint, proposal) ==
  ResolveTarget(schema, rows, task, hint, proposal)

(* resolve_and_validate: with a hint and without, what is resolved is      *)
(* validated, and a column that fails is not replaced by the next one.     *)
ResolveAndValidate(schema, rows, task, hint, proposal) ==
  LET r == ResolveTarget(schema, rows, task, hint, proposal)
  IN IF r.status = "resolved" /\ ~Usable(schema[r.column], rows, task)
     THEN Unresolved ELSE r

=============================================================================
