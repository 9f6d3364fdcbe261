--------------------------- MODULE ObjectiveChecks ---------------------------
(***************************************************************************)
(* The checks behind the four objectives                                   *)
(* (engine/objective_verification/checks.py, definitions.py), as functions *)
(* of the facts read from the database and of what the repository's files  *)
(* declare.  A check that has nothing to look at is NOT_VERIFIED.          *)
(***************************************************************************)
EXTENDS Naturals, FiniteSets

StageChain == {"orchestrator", "discovery", "profiler", "preprocessor",
               "model_selector", "ml_experiment", "verification"}

Specialists == {"discovery", "profiler", "preprocessor", "model_selector"}

DatasetTools == {"search", "download", "validate"}

Isolation == {"network_mode", "read_only", "cpu_count", "mem_limit"}

(* _CHECK_LEVEL: the checks that need records of something that ran.       *)
RuntimeChecks ==
  {"o2_specialist_executions", "o3_metric_sanity", "o3_baseline_dominance",
   "o3_independent_agreement", "o4_decision_rationale", "o4_decision_confidence",
   "o4_evidence_nodes", "o4_experience_memory", "o4_audit_chain"}

PassIf(b) == IF b THEN "PASS" ELSE "FAIL"

(* A fact that is absent is not verified; one that is there is judged.     *)
Judged(present, holds) == IF present THEN PassIf(holds) ELSE "NOT_VERIFIED"

---------------------------------------------------------------------------
(* Checks of the sources.  A file has a state and what it declares.        *)

CheckSource(file, required) ==
  Judged(file.state # "absent", file.state = "parses" /\ required \subseteq file.declares)

CheckPipelineGraph(graph) == CheckSource(graph, StageChain)

CheckDatasetTools(builtins) == CheckSource(builtins, DatasetTools)

CheckToolRegistry(builtins) ==
  Judged(builtins.state # "absent", builtins.state = "parses" /\ builtins.declares # {})

CheckSandboxIsolation(manager) == CheckSource(manager, Isolation)

(* A missing module of a specialist is a failure.                          *)
CheckSpecialistAgents(modules) == PassIf(Specialists \subseteq modules)

(* The probe: a hint in another case is found, an invented one is refused. *)
CheckDatasetDrivenTarget(importable, found, refused) == Judged(importable, found /\ refused)

(* Sources of another process, an import and a mock count as none.         *)
CheckEvidenceSources(types) ==
  IF types \cap {"paper", "web", "literature", "external"} # {}
  THEN "PASS" ELSE "NOT_VERIFIED"

---------------------------------------------------------------------------
(* Checks of the session's facts                                           *)

CheckInputCaptured(f) == IF f.problem THEN "PASS" ELSE "NOT_VERIFIED"

CheckSpecialistExecutions(f) ==
  Judged(f.executions > 0, Specialists \subseteq f.agents)

(* The gates of the generated script, or of the runner when there is none; *)
(* failures are those of the static checks that ran.                       *)
GateCheck(name, f) == PassIf(name \notin f.failures)

CheckMetricSanity(f) == Judged(f.metrics, "metric_sanity" \notin f.failures)

CheckBaselineDominance(f) ==
  Judged(f.metrics /\ f.score # {} /\ f.baseline # {},
         "baseline_dominance" \notin f.failures)

CheckIndependentAgreement(f) ==
  CASE f.verification = {"VERIFIED"} -> "PASS"
    [] f.verification \in {{"REJECTED"}, {"CONFLICT"}} -> "FAIL"
    [] OTHER -> "NOT_VERIFIED"

CheckDecisionRationale(f) == Judged(f.decisions > 0, f.withRationale >= f.decisions)

CheckDecisionConfidence(f) == Judged(f.decisions > 0, f.withConfidence >= f.decisions)

CheckEvidenceNodes(f) == Judged(f.nodes > 0, f.nodes >= f.decisions)

CheckExperienceMemory(f) == Judged(f.memory > 0, f.memoryTypes > 0)

(* A chain that was never begun is not a broken one.                       *)
CheckAuditChain(f) ==
  LET links == {f.executions > 0, f.decisions > 0, f.nodes > 0,
                f.hasResult \/ f.verification # {}}
      ranAtAll == TRUE \in links
  IN Judged(ranAtAll, FALSE \notin links)

---------------------------------------------------------------------------
(* The objectives, check by check                                          *)

Objective1(f, repo) ==
  [o1_pipeline_graph |-> CheckPipelineGraph(repo.graph),
   o1_dataset_tools |-> CheckDatasetTools(repo.builtins),
   o1_dataset_driven_target |-> CheckDatasetDrivenTarget(TRUE, repo.found, repo.refused),
   o1_input_captured |-> CheckInputCaptured(f)]

Objective2(f, repo) ==
  [o2_specialist_agents |-> CheckSpecialistAgents(repo.modules),
   o2_tool_registry |-> CheckToolRegistry(repo.builtins),
   o2_sandbox_isolation |-> CheckSandboxIsolation(repo.manager),
   o2_specialist_executions |-> CheckSpecialistExecutions(f)]

Objective3(f, repo) ==
  [o3_ast_security |-> GateCheck("ast_security", f),
   o3_data_leakage |-> GateCheck("data_leakage", f),
   o3_metric_sanity |-> CheckMetricSanity(f),
   o3_baseline_dominance |-> CheckBaselineDominance(f),
   o3_evidence_sources |-> CheckEvidenceSources(repo.sources),
   o3_independent_agreement |-> CheckIndependentAgreement(f)]

Objective4(f) ==
  [o4_decision_rationale |-> CheckDecisionRationale(f),
   o4_decision_confidence |-> CheckDecisionConfidence(f),
   o4_evidence_nodes |-> CheckEvidenceNodes(f),
   o4_experience_memory |-> CheckExperienceMemory(f),
   o4_audit_chain |-> CheckAuditChain(f)]

(* The repository as it is: what its own files declare.                    *)
Repository ==
  [graph |-> [state |-> "parses", declares |-> StageChain],
   builtins |-> [state |-> "parses", declares |-> DatasetTools \cup {"memory", "code"}],
   manager |-> [state |-> "parses", declares |-> Isolation \cup {"cap_drop", "user"}],
   modules |-> Specialists, found |-> TRUE, refused |-> TRUE,
   sources |-> {"internal", "web", "memory"}]

=============================================================================
