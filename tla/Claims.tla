-------------------------------- MODULE Claims --------------------------------
(***************************************************************************)
(* What a recorded decision claims and how a claim is judged by evidence:  *)
(* services/evidence_persist.py, engine/verification/extractors.py and     *)
(* engine.py, engine/evidence.  A text is the set of the phrases it holds, *)
(* so that a search for a phrase, and a match of one, is membership.       *)
(***************************************************************************)
EXTENDS Metrics, SequencesExt

CONSTANT PageSize  \* how many of the newest nodes a search returns

(* One draft for each stage with a result, in this order.                  *)
DraftTypes == <<"data_discovery", "data_profiling", "preprocessing",
                "model_selection", "training_complete", "verification_gate">>

StaticChecks == {"ast_security", "data_leakage", "metric_sanity", "baseline_dominance"}

(* The words of a draft's rationale that some extractor looks for.         *)
WordsOf(type, passed) ==
  CASE type = "preprocessing" -> {"one-hot", "pipeline"}
    [] type = "model_selection" -> {"pipeline", "stratified"}
    [] type = "verification_gate" /\ passed -> {"beats_baseline"}
    [] OTHER -> {}

(* _build_decisions.  A run that has come this far has drafts for the      *)
(* stages up to there.  The gate's draft lists every static check as       *)
(* passed, whatever the gate has found.                                    *)
BuildDecisions(final) ==
  LET Draft(type) ==
        [type |-> type, words |-> WordsOf(type, final.passed),
         metrics |-> IF type = "training_complete" THEN final.metrics ELSE {},
         checks |-> IF type = "verification_gate" THEN StaticChecks ELSE {},
         status |-> IF type = "verification_gate" /\ ~final.passed
                    THEN "FAILED" ELSE "COMPLETED"]
  IN [i \in 1 .. final.stages |-> Draft(DraftTypes[i])]

---------------------------------------------------------------------------
(* The claims of a decision                                                *)

Claim(kind, about, value) == [kind |-> kind, about |-> about, value |-> value]

MetricClaims(d) ==
  IF d.type \in {"model_selection", "training_complete", "hyperparameter_tuning"}
  THEN {Claim("metric", m.name, {m.value}) : m \in d.metrics} ELSE {}

DataQualityClaims(d) ==
  IF d.type \in {"data_discovery", "data_profiling", "data_validation"}
  THEN {Claim("quality", w, {}) :
          w \in d.words \cap {"missing", "imbalance", "cardinality", "missing_rate"}}
  ELSE {}

MethodClaims(d) ==
  IF d.type \in {"preprocessing", "feature_engineering", "model_selection", "encoding"}
  THEN {Claim("method", w, {}) :
          w \in d.words \cap {"target encoding", "one-hot", "label encoding", "imputer",
                              "scaler", "stratified", "cross-validation", "pipeline"}}
  ELSE {}

BaselineClaims(d) ==
  IF d.type \in {"baseline_comparison", "model_evaluation", "verification_gate"}
  THEN {Claim("baseline", w, {}) :
          w \in d.words \cap {"beats_baseline", "outperforms_baseline", "above_baseline"}}
  ELSE {}

SafetyClaims(d) ==
  IF d.type \in {"ast_security", "leakage_check", "privacy_check", "verification_gate"}
  THEN {Claim("safety", c, {}) : c \in d.checks} ELSE {}

(* extract_all_claims, extractor after extractor.                          *)
AllClaims(d) ==
  SetToSeq(MetricClaims(d)) \o SetToSeq(DataQualityClaims(d))
    \o SetToSeq(MethodClaims(d)) \o SetToSeq(BaselineClaims(d))
    \o SetToSeq(SafetyClaims(d))

---------------------------------------------------------------------------
(* Evidence                                                                *)

Phrase(form, c) == [form |-> form, about |-> c.about, value |-> c.value]

(* A mutant of EvidenceRationale: the metric's phrase is left out.         *)
EvidenceRationaleBare(c) ==
  {Phrase("text", c), Phrase("passed", Claim("any", "any", {}))}
    \cup {Phrase("check", c) : k \in {c.kind} \cap {"quality", "safety"}}
    \cup {Phrase("method", c) : k \in {c.kind} \cap {"method"}}
    \cup {Phrase("comparison", c) : k \in {c.kind} \cap {"baseline"}}

(* _evidence_rationale: the node written for a claim holds its text, what  *)
(* the matcher looks for in a claim of its kind, and "passed".             *)
EvidenceRationale(c) ==
  {Phrase("text", c), Phrase("passed", Claim("any", "any", {}))}
    \cup {Phrase("pair", c) : k \in {c.kind} \cap {"metric"}}
    \cup {Phrase("check", c) : k \in {c.kind} \cap {"quality", "safety"}}
    \cup {Phrase("method", c) : k \in {c.kind} \cap {"method"}}
    \cup {Phrase("comparison", c) : k \in {c.kind} \cap {"baseline"}}

(* The nodes of a decision: one for each claim, or one that says nothing   *)
(* to anybody.                                                             *)
EvidenceNodes(d) ==
  LET claims == AllClaims(d)
  IN IF claims = <<>> THEN <<{}>>
     ELSE [i \in DOMAIN claims |-> EvidenceRationale(claims[i])]

(* The phrase a claim is searched by.                                      *)
Query(c) ==
  CASE c.kind = "metric" -> Phrase("pair", c)
    [] c.kind = "method" -> Phrase("method", c)
    [] OTHER -> Phrase("text", c)

(* InternalEvidenceSource.search: the newest nodes, of whatever experiment,*)
(* that hold the phrase; a later position is a newer node.                 *)
SearchTrail(phrase, nodes) ==
  LET found == {i \in DOMAIN nodes : phrase \in nodes[i]}
      page == {i \in found : Cardinality({j \in found : j > i}) < PageSize}
  IN {nodes[i] : i \in page}

(* The guidelines of the external source contradict a perfect accuracy and *)
(* one outside of 0..1, and support nothing.                               *)
RuledOut(c) ==
  /\ c.kind = "metric" /\ c.about = "accuracy"
  /\ \E v \in c.value : v >= One \/ v < 0

(* _match_claim_to_evidence: whether a piece of the trail supports c.      *)
Supports(c, piece) ==
  CASE c.kind = "metric" -> Phrase("pair", c) \in piece
    [] c.kind = "quality" -> Phrase("check", c) \in piece
    [] c.kind = "method" -> Phrase("method", c) \in piece
    [] c.kind = "safety" -> /\ Phrase("check", c) \in piece
                            /\ Phrase("passed", Claim("any", "any", {})) \in piece
    [] c.kind = "baseline" -> Phrase("comparison", c) \in piece

(* _determine_status.  No piece of low credibility gets this far, so       *)
(* nothing is ever abstained from or rejected.                             *)
ClaimStatus(c, nodes) ==
  IF RuledOut(c) THEN "CONFLICT"
  ELSE IF \E piece \in SearchTrail(Query(c), nodes) : Supports(c, piece)
       THEN "VERIFIED" ELSE "UNVERIFIED"

---------------------------------------------------------------------------
(* Verdicts                                                                *)

(* verify_claims, over the statuses of all claims.                         *)
Overall(statuses) ==
  LET seen == ToSet(statuses)
  IN CASE "CONFLICT" \in seen -> "CONFLICT"
       [] seen = {"VERIFIED"} -> "VERIFIED"
       [] OTHER -> "UNVERIFIED"

(* The verdict on one decision: the most frequent status, the first one    *)
(* met on a tie; a conflict counts when nothing is verified.               *)
DecisionVerdict(statuses) ==
  LET seen == ToSet(statuses)
      Times(s) == Cardinality({i \in DOMAIN statuses : statuses[i] = s})
      First(s) == CHOOSE i \in DOMAIN statuses :
                    statuses[i] = s /\ \A j \in 1 .. i - 1 : statuses[j] # s
  IN IF "VERIFIED" \in seen
     THEN CHOOSE s \in seen : \A t \in seen \ {s} :
            Times(s) > Times(t) \/ (Times(s) = Times(t) /\ First(s) < First(t))
     ELSE IF "CONFLICT" \in seen THEN "CONFLICT" ELSE "UNVERIFIED"

(* A mutant of GateOutcome: verified evidence outweighs the static gate.   *)
GateOutcomeByEvidence(failures, verdicts) ==
  IF "VERIFIED" \in verdicts /\ "CONFLICT" \notin verdicts
  THEN [status |-> "COMPLETED", overall |-> "VERIFIED"]
  ELSE [status |-> "FAILED",
        overall |-> IF failures # {} THEN "REJECTED" ELSE "UNVERIFIED"]

(* What the gate makes of a run: the static gate is authoritative.         *)
GateOutcome(failures, verdicts) ==
  IF failures # {} THEN [status |-> "FAILED", overall |-> "REJECTED"]
  ELSE IF "VERIFIED" \in verdicts /\ "CONFLICT" \notin verdicts
       THEN [status |-> "COMPLETED", overall |-> "VERIFIED"]
       ELSE [status |-> "FAILED",
             overall |-> IF "CONFLICT" \in verdicts THEN "CONFLICT" ELSE "UNVERIFIED"]

=============================================================================
