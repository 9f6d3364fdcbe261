------------------------- MODULE ExperimentWorkflow -------------------------
(***************************************************************************)
(* One execution of the agent workflow (backend/app/agents): the graph and *)
(* its routes, what each stage publishes into the shared state, the        *)
(* training job with its Docker sandbox and its in-process fallback, and   *)
(* the gate.  ExperimentRun takes the outcome of this as a choice.  The    *)
(* dataset file may come and go while the run works, a model may answer or *)
(* not, Docker may fail at any step.                                       *)
(***************************************************************************)
EXTENDS ModelTraining, VerificationGate

CONSTANTS
  Requests,     \* what the run was asked: see Request
  Answers,      \* the model specifications a language model may answer
  Fittable,     \* bound: the families that may be fitted, the others raise
  MaxAttempts,  \* WORKFLOW_MAX_ATTEMPTS
  MaxChanges    \* bound: how often the dataset file comes or goes


VARIABLES
  request,   \* the configuration of the experiment and the file it is about
  node,      \* the node of the graph that runs next
  state,     \* ExperimentWorkflowState
  disk,      \* the dataset file as a reader finds it
  changes,   \* how often it came or went
  job,       \* the training job of the current attempt
  trainings  \* how many jobs were started

vars == <<request, node, state, disk, changes, job, trainings>>

(* objective and intent are what the configuration says of the metric and  *)
(* of comparing; hint is a column the user named, {0} a name that is in no *)
(* column; classes is how many classes the target has, baseline what       *)
(* always the most frequent one scores: facts of the file, whose split is  *)
(* seeded.                                                                 *)
Request ==
  [objective : Seq(STRING),
   intent  : Seq(STRING),
   task    : Tasks,
   hint    : SUBSET Nat,
   named   : BOOLEAN,
   schema  : Seq(Column),
   rows    : RowCounts,
   baseline: Int,
   classes : {"two", "several"}]

ASSUME WorkflowAssumption ==
  /\ MaxAttempts \in Nat \ {0}
  /\ Requests \subseteq Request
  /\ \A a \in Answers : a.family \in STRING /\ a.candidates \in Seq(STRING)

Metric == PrimaryMetric(request.objective, request.task)
Compare == CompareModels(request.intent)

Parked == {"AWAITING_DATASET", "AWAITING_TARGET"}
Over == {"END", "raised"}

NoJob ==
  [phase |-> "idle", target |-> 0, workspace |-> "none", container |-> "none",
   exit |-> "none", written |-> NotMeasured, features |-> {}, fitted |-> FALSE]

(* initial_workflow_state.                                                 *)
Init ==
  /\ request \in Requests
  /\ node = "orchestrator"
  /\ state = [attempt |-> 0, status |-> "RUNNING", schemaKnown |-> FALSE,
              hint |-> request.hint, target |-> {}, guess |-> {},
              plan |-> NoPlan, spec |-> <<>>, result |-> NotMeasured, passed |-> FALSE]
  /\ disk \in {"present", "absent", "garbled"}
  /\ changes = 0
  /\ job = NoJob
  /\ trainings = 0

Goto(next) == node' = next

(* A node that raises ends the run: the exception is published and goes on *)
(* to the worker.                                                          *)
Raise == Goto("raised") /\ UNCHANGED <<request, state, disk, changes, job, trainings>>

(* How BaseAgent.run ends: with the model's answer, with the heuristic     *)
(* when no provider answers, or with an exception that is no LLMError.     *)
RunEnds == {"llm", "heuristic", "raises"}

Agents == {"profiler", "preprocessor", "model_selector"}

AgentRaises == node \in Agents \cup {"orchestrator"} /\ Raise

Orchestrate ==
  /\ node = "orchestrator"
  /\ state' = [state EXCEPT !.attempt = 0]
  /\ Goto("discovery")
  /\ UNCHANGED <<request, disk, changes, job, trainings>>

---------------------------------------------------------------------------
(* Discovery                                                               *)

(* The gate: a run that names no dataset, or names one that cannot be      *)
(* opened, parks.                                                          *)
DiscoveryGate ==
  /\ node = "discovery"
  /\ Goto(IF request.named /\ disk # "absent" THEN "describe" ELSE "awaiting_dataset")
  /\ UNCHANGED <<request, state, disk, changes, job, trainings>>

(* The file is opened a second time to read its columns.  One that cannot  *)
(* be parsed raises; one that went away in between is described by a model *)
(* or by the catalog, without a schema.                                    *)
Describe ==
  /\ node = "describe"
  /\ \/ /\ disk = "present"
        /\ state' = [state EXCEPT !.schemaKnown = TRUE, !.guess = state.hint]
        /\ Goto("profiler")
     \/ /\ disk = "absent"
        /\ \E guess \in {{}, {0}, {1}} : state' = [state EXCEPT !.guess = guess]
        /\ Goto("profiler")
     \/ disk = "garbled" /\ Goto("raised") /\ UNCHANGED state
  /\ UNCHANGED <<request, disk, changes, job, trainings>>

MarkAwaitingDataset ==
  /\ node = "awaiting_dataset"
  /\ state' = [state EXCEPT !.status = "AWAITING_DATASET"]
  /\ Goto("END")
  /\ UNCHANGED <<request, disk, changes, job, trainings>>

---------------------------------------------------------------------------
(* Profiling                                                               *)

(* A hint that is in no column is removed from the configuration when it   *)
(* is first looked at, but this look still uses it.                        *)
KnownHint(hint) == hint \cap DOMAIN request.schema

Resolution(hint, proposal) ==
  ResolveAndValidate(request.schema, request.rows, request.task, hint, proposal)

(* The heuristic resolves the target once before the stage publishes what  *)
(* it resolves then; a model's answer is published on the first look.      *)
(* Without a schema nothing is resolved and the guess stays.               *)
Profile ==
  /\ node = "profiler"
  /\ \E end \in RunEnds \ {"raises"} :
       \/ /\ ~state.schemaKnown
          /\ \E guess \in {{}, {0}, {1}} :
               state' = [state EXCEPT !.guess = IF end = "llm" THEN guess ELSE @]
          /\ Goto("preprocessor")
       \/ /\ state.schemaKnown
          /\ \E proposal \in {{}} \cup {{i} : i \in 0 .. Len(request.schema)} :
               LET hint == IF end = "heuristic" THEN KnownHint(state.hint) ELSE state.hint
                   r == Resolution(hint, proposal)
                   column == IF r.status = "resolved" THEN {r.column} ELSE {}
               IN /\ state' = [state EXCEPT !.hint = KnownHint(@),
                                            !.target = column, !.guess = column]
                  /\ Goto(IF column = {} THEN "awaiting_target" ELSE "preprocessor")
  /\ UNCHANGED <<request, disk, changes, job, trainings>>

MarkAwaitingTarget ==
  /\ node = "awaiting_target"
  /\ state' = [state EXCEPT !.status = "AWAITING_TARGET"]
  /\ Goto("END")
  /\ UNCHANGED <<request, disk, changes, job, trainings>>

---------------------------------------------------------------------------
(* Planning: the preprocessing plan is computed from the schema and the    *)
(* target whatever the model answers, the model specification is not.      *)

Target == IF state.target # {} THEN state.target ELSE state.guess

PlanData ==
  /\ node = "preprocessor"
  /\ LET schema == IF state.schemaKnown THEN request.schema ELSE <<>>
     IN state' = [state EXCEPT !.plan = Plan(schema, Target)]
  /\ Goto("model_selector")
  /\ UNCHANGED <<request, disk, changes, job, trainings>>

SelectModel ==
  /\ node = "model_selector"
  /\ \E spec \in {HeuristicSpec(request.task, Metric, Compare)}
                   \cup {ModelSpec(a.family, a.candidates, Compare) : a \in Answers} :
       state' = [state EXCEPT !.spec = spec]
  /\ Goto("ml_experiment")
  /\ UNCHANGED <<request, disk, changes, job, trainings>>

---------------------------------------------------------------------------
(* The training job                                                        *)

(* What each family may score on this file; {} when it raises.             *)
Outcomes ==
  LET families == ToSet(Families(state.spec, Compare))
      Some == [families \cap Fittable -> {{}} \cup {{s} : s \in ScoresOf(Metric)}]
  IN {[f \in families |-> IF f \in Fittable THEN some[f] ELSE {}] : some \in Some}

Payload(outcomes) ==
  Compared(Families(state.spec, Compare), outcomes, request.baseline,
           Metric, request.task, request.classes)

(* The training as a whole raises when the target is in no column, when    *)
(* the file cannot be read, and maybe when the data cannot be prepared.    *)
MayRaise(readable) ==
  IF readable /\ Found(request.schema, job.target) THEN BOOLEAN ELSE {TRUE}

(* The columns the estimators of a backend are fitted on.                  *)
FittedOn(backend) ==
  DOMAIN Prepared(request.schema, {job.target}, PlanUsed(backend, state.plan))

Job(phase) == job' = [job EXCEPT !.phase = phase]

JobStep == node = "ml_experiment"

Unmoved == UNCHANGED <<request, node, state, disk, changes, trainings>>

(* _measure: without a target nothing is trained.                          *)
StartJob ==
  /\ JobStep /\ job.phase = "idle"
  /\ IF Target = {}
     THEN /\ job' = [NoJob EXCEPT !.phase = "returned"]
          /\ UNCHANGED trainings
     ELSE /\ \E t \in Target : job' = [NoJob EXCEPT !.phase = "resolve", !.target = t]
          /\ trainings' = trainings + 1
  /\ UNCHANGED <<request, node, state, disk, changes>>

(* The dataset is looked for again, and Docker is asked for the first      *)
(* time.                                                                   *)
ResolveDataset ==
  /\ JobStep /\ job.phase = "resolve"
  /\ Job(IF disk = "absent" THEN "returned" ELSE "probe")
  /\ Unmoved

(* A mutant of Probe: Docker is waited for.                                *)
ProbeWaits ==
  /\ JobStep /\ job.phase = "probe"
  /\ \E up \in BOOLEAN : Job(IF up THEN "prepare" ELSE "resolve")
  /\ Unmoved

(* is_available.                                                           *)
Probe ==
  /\ JobStep /\ job.phase = "probe"
  /\ \E up \in BOOLEAN : Job(IF up THEN "prepare" ELSE "in_process")
  /\ Unmoved

(* execute_job up to the container: the daemon is asked again and the      *)
(* image is built if it is missing; any failure falls back.                *)
PrepareSandbox ==
  /\ JobStep /\ job.phase = "prepare"
  /\ \E ok \in BOOLEAN : Job(IF ok THEN "workspace" ELSE "in_process")
  /\ Unmoved

(* The directory is made before the files are copied into it; when copying *)
(* fails, the caller does not know the directory and it is lost.  A        *)
(* dataset that went away is not copied.                                   *)
CreateWorkspace ==
  /\ JobStep /\ job.phase = "workspace"
  /\ \/ job' = [job EXCEPT !.phase = "start",
                           !.workspace = IF disk = "absent" THEN "empty" ELSE "filled"]
     \/ job' = [job EXCEPT !.phase = "in_process", !.workspace = "lost"]
  /\ Unmoved

(* A container that was created and did not start is unknown to the caller *)
(* and lost.                                                               *)
StartContainer ==
  /\ JobStep /\ job.phase = "start"
  /\ \/ job' = [job EXCEPT !.phase = "poll", !.container = "running"]
     \/ \E created \in BOOLEAN :
          job' = [job EXCEPT !.phase = "cleanup",
                             !.container = IF created THEN "lost" ELSE @]
  /\ Unmoved

(* The script ends by itself, or with an error: its own, or the limits of  *)
(* the container.                                                          *)
ContainerExits ==
  /\ JobStep /\ job.phase = "poll"
  /\ \/ /\ FALSE \in MayRaise(job.workspace = "filled" /\ disk # "garbled")
        /\ \E outcomes \in Outcomes :
             LET end == ScriptEnds(Compare, Payload(outcomes))
             IN job' = [job EXCEPT !.phase = "remove", !.container = "exited",
                          !.exit = end.exit, !.written = end.written,
                          !.features = FittedOn("docker_sandbox"),
                          !.fitted = Payload(outcomes).evaluated > 0]
     \/ job' = [job EXCEPT !.phase = "remove", !.container = "exited", !.exit = "error"]
  /\ Unmoved

(* The wait ends without the script: at the time limit the container is    *)
(* killed, and either way it is to be removed.                             *)
PollFails ==
  /\ JobStep /\ job.phase = "poll"
  /\ \E dead \in BOOLEAN :
       job' = [job EXCEPT !.phase = "remove",
                          !.container = IF dead THEN "exited" ELSE @]
  /\ Unmoved

(* The finally of _run_container; what Docker refuses is ignored.          *)
RemoveContainer ==
  /\ JobStep /\ job.phase = "remove"
  /\ \E gone \in BOOLEAN :
       job' = [job EXCEPT !.phase = "cleanup",
                          !.container = IF gone THEN "none" ELSE "lost"]
  /\ Unmoved

(* A mutant of CleanupWorkspace: the finally is an else.                   *)
CleanupOnSuccess ==
  /\ JobStep /\ job.phase = "cleanup"
  /\ LET r == FromSandbox(job.exit, job.written)
     IN job' = [job EXCEPT !.workspace = IF r.success THEN "none" ELSE @,
                           !.written = r.data,
                           !.phase = IF r.success THEN "returned" ELSE "in_process"]
  /\ Unmoved

(* The finally of execute_job, after metrics.json was read: rmtree ignores *)
(* what it cannot remove.  A sandbox that did not succeed falls back.      *)
CleanupWorkspace ==
  /\ JobStep /\ job.phase = "cleanup"
  /\ \E removed \in BOOLEAN :
       LET r == FromSandbox(job.exit, job.written)
       IN job' = [job EXCEPT !.workspace = IF removed THEN "none" ELSE "lost",
                             !.written = r.data,
                             !.phase = IF r.success THEN "returned" ELSE "in_process"]
  /\ Unmoved

TrainInProcess ==
  /\ JobStep /\ job.phase = "in_process"
  /\ \E raises \in MayRaise(disk = "present"), outcomes \in Outcomes :
       job' = [job EXCEPT !.phase = "returned",
                 !.written = InProcess(Payload(outcomes), raises).data,
                 !.features = FittedOn("in_process"),
                 !.fitted = ~raises /\ Payload(outcomes).evaluated > 0]
  /\ Unmoved

(* A mutant of PublishResult: an attempt that measured nothing is free.    *)
PublishFree ==
  /\ JobStep /\ job.phase = "returned"
  /\ LET result == IF job.written.selected = {} THEN NotMeasured ELSE job.written
     IN state' = [state EXCEPT !.result = result,
                    !.attempt = IF result = NotMeasured THEN @ ELSE @ + 1]
  /\ Goto("verification")
  /\ Job("idle")
  /\ UNCHANGED <<request, disk, changes, trainings>>

(* The stage publishes what was measured.  The score passes through a      *)
(* field that admits 0 to 1 only: any other raises.                        *)
PublishResult ==
  /\ JobStep /\ job.phase = "returned"
  /\ LET result == IF job.written.selected = {} THEN NotMeasured ELSE job.written
         admitted == \A s \in result.score : 0 <= s /\ s <= One
     IN IF admitted
        THEN /\ state' = [state EXCEPT !.attempt = @ + 1, !.result = result]
             /\ Goto("verification")
        ELSE Goto("raised") /\ UNCHANGED state
  /\ Job("idle")
  /\ UNCHANGED <<request, disk, changes, trainings>>

---------------------------------------------------------------------------
(* The gate                                                                *)

(* A mutant of Route: one attempt too many.                                *)
RouteOffByOne(passed, abstained, attempt) ==
  CASE passed /\ ~abstained -> "END"
    [] ~(passed /\ ~abstained) /\ attempt <= MaxAttempts -> "ml_experiment"
    [] OTHER -> "failed"

(* route_after_verification.                                               *)
Route(passed, abstained, attempt) ==
  CASE passed /\ ~abstained -> "END"
    [] ~(passed /\ ~abstained) /\ attempt < MaxAttempts -> "ml_experiment"
    [] OTHER -> "failed"

(* verification_abstained is in no channel of the state: what the stage    *)
(* writes there is dropped, and the route reads that nothing abstained.    *)
Verify ==
  /\ node = "verification"
  /\ LET v == Verdict(state.result, Metric, Compare, Runner)
     IN /\ state' = [state EXCEPT !.passed = v.passed,
                       !.status = IF v.passed THEN "COMPLETED" ELSE @]
        /\ Goto(Route(v.passed, FALSE, state.attempt))
  /\ UNCHANGED <<request, disk, changes, job, trainings>>

MarkFailed ==
  /\ node = "failed"
  /\ state' = [state EXCEPT !.status = "FAILED"]
  /\ Goto("END")
  /\ UNCHANGED <<request, disk, changes, job, trainings>>

---------------------------------------------------------------------------

(* A user uploads or removes the file; bounded.                            *)
FileChanges ==
  /\ node \notin Over
  /\ changes < MaxChanges
  /\ changes' = changes + 1
  /\ disk' = IF disk = "absent" THEN "present" ELSE "absent"
  /\ UNCHANGED <<request, node, state, job, trainings>>

Discover == DiscoveryGate \/ Describe \/ MarkAwaitingDataset

Train ==
  \/ StartJob \/ ResolveDataset \/ Probe \/ PrepareSandbox \/ CreateWorkspace
  \/ StartContainer \/ ContainerExits \/ PollFails \/ RemoveContainer
  \/ CleanupWorkspace \/ TrainInProcess \/ PublishResult

Work ==
  \/ AgentRaises \/ Orchestrate \/ Discover
  \/ Profile \/ MarkAwaitingTarget \/ PlanData \/ SelectModel
  \/ Train \/ Verify \/ MarkFailed

Finished == node \in Over /\ UNCHANGED vars

Next == Work \/ FileChanges \/ Finished

(* The graph is run by one thread that does nothing else, and every wait   *)
(* in it has a time limit.                                                 *)
Spec == Init /\ [][Next]_vars /\ WF_vars(Work)

---------------------------------------------------------------------------

(* Every variable has its type.                                            *)
TypeOK ==
  /\ request \in Requests
  /\ node \in {"orchestrator", "discovery", "describe", "profiler", "preprocessor",
              "model_selector", "ml_experiment", "verification", "failed",
              "awaiting_dataset", "awaiting_target", "END", "raised"}
  /\ state.attempt \in 0 .. MaxAttempts
  /\ state.status \in {"RUNNING", "COMPLETED", "FAILED"} \cup Parked
  /\ state.target \subseteq DOMAIN request.schema
  /\ disk \in {"present", "absent", "garbled"}
  /\ job.phase \in {"idle", "resolve", "probe", "prepare", "workspace", "start", "poll",
                   "remove", "cleanup", "in_process", "returned"}
  /\ trainings \in 0 .. MaxAttempts

(* A run is COMPLETED only on the strength of its last training: a model   *)
(* was selected, its score on the requested metric beats the baseline when *)
(* the metric has one, no family of the comparison scored better, a        *)
(* comparison compared, and a perfect share is not believed (verifier.py   *)
(* with train_script.py and metrics.py).                                   *)
CompletedIsEarned ==
  state.status = "COMPLETED" =>
    LET r == state.result
    IN /\ r.selected # {} /\ r.selected \subseteq job.written.selected
       /\ \E s \in r.score :
            /\ 0 <= s /\ s <= One
            /\ Metric \in {"accuracy", "f1", "roc_auc"} => s < One
            /\ \A b \in r.baseline : Better(Metric, s, b)
            /\ \A i \in DOMAIN r.comparison : \A other \in r.comparison[i].score :
                 ~Better(Metric, other, s)
       /\ Compare => Cardinality({r.comparison[i].model :
                                            i \in DOMAIN r.comparison}) >= 2

(* No run trains more often than it may attempt, a run that waits for its  *)
(* dataset or its target has trained nothing, and attempts are counted     *)
(* when they end, so that none is free (graph.py, experimenter.py).        *)
TrainingIsBounded ==
  /\ trainings <= MaxAttempts
  /\ state.status \in Parked => trainings = 0
  /\ trainings <= state.attempt + (IF job.phase = "idle" THEN 0 ELSE 1)
       \/ node = "raised"

(* A run that read its dataset trains on the column it resolved: one of    *)
(* the file, fit for the task, no identifier unless the user asked for it, *)
(* the user's column when there is such a column, else the one column      *)
(* whose name the objective spells out, whatever a model proposes; and no  *)
(* estimator is given that column as a feature (targeting.py, profiler.py, *)
(* experimenter.py, train_script.py).                                      *)
TrainsOnResolvedTarget ==
  trainings > 0 /\ state.schemaKnown =>
    \E i \in state.target :
      /\ job.target = i /\ i \notin job.features
      /\ Usable(request.schema[i], request.rows, request.task)
      /\ IdentifierLike(request.schema[i], request.rows, request.task) => i \in request.hint
      /\ KnownHint(request.hint) # {} => i \in request.hint
      /\ LET Spelled == {j \in DOMAIN request.schema :
                           /\ request.schema[j].named = "exactly"
                           /\ ~IdentifierLike(request.schema[j], request.rows, request.task)}
         IN KnownHint(request.hint) = {} /\ Cardinality(Spelled) = 1 => i \in Spelled

(* Once the sandbox is done with, by whatever error, there is no workspace *)
(* and no container, running or not, except what a failed copy or start    *)
(* made and what Docker or the file system refused to remove; and no       *)
(* container outlives the workspace it has mounted (sandbox/manager.py).   *)
NothingLeftBehind ==
  /\ job.phase \in {"in_process", "returned", "idle"} =>
       job.workspace \in {"none", "lost"} /\ job.container \in {"none", "lost"}
  /\ job.container \in {"running", "exited"} => job.workspace \in {"empty", "filled"}

(* Every run ends, whatever Docker, the models and the file do (graph.py). *)
WorkflowEnds == <>(node \in Over)

(* What ml.py:240 says of the fallback, "so the run still measures", and   *)
(* compute_metrics (train_script.py:509) of its report, that any requested *)
(* objective can be read off it: when a family was fitted, the run has a   *)
(* score to verify.                                                        *)
FittedIsMeasured ==
  node = "verification" /\ job.fitted => state.result.score # {}

=============================================================================
