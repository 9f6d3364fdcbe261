# AutoSage in TLA+

AutoSage turns a request in natural language into a verified machine-learning
experiment. A FastAPI backend (`src/backend/app`) keeps experiments in
PostgreSQL, a Celery worker runs each of them through a LangGraph pipeline of
agents, and a React front end (`src/frontend/src`) follows the run by polling
and by WebSocket events. This directory holds the TLA+ specifications of its
core and of the parts around it, the TLC runs that check them and the TLAPS
proofs.

* [1. The system](#1-the-system)
* [2. Plan](#2-plan)
* [3. What is modelled: ExperimentRun](#3-what-is-modelled-experimentrun)
* [3b. What is modelled: VerificationSession](#3b-what-is-modelled-verificationsession)
* [3c. What is modelled: ExperimentWorkflow](#3c-what-is-modelled-experimentworkflow)
* [3d. What is modelled: the platform around a run](#3d-what-is-modelled-the-platform-around-a-run)
* [4. Runs](#4-runs)
* [5. Proofs](#5-proofs)
* [6. Where the code and its documents disagree](#6-where-the-code-and-its-documents-disagree)
* [7. What is not modelled](#7-what-is-not-modelled)
* [8. Running the checks](#8-running-the-checks)

## 1. The system

Paths are relative to `src/backend/app` unless they start with `frontend`.

| Component | State | Operations | What makes it correct |
|---|---|---|---|
| Experiment lifecycle: `services/experiment_service.py`, `api/v1/endpoints/experiments.py`, `models/experiment.py` | the `experiments` row: status, retry_count, max_retries, celery_task_id, result_summary | create, start, cancel, PATCH, delete, `transition_experiment` | the status follows `TRANSITIONS`; finished runs stay finished; the status agrees with the result |
| Dispatch: `services/execution_service.py`, `workers/celery_app.py` | the broker's queue, unacknowledged messages, revoked ids | publish, attach the task id, revoke, deliver, acknowledge, redeliver | an active run always has somebody who will move it on |
| Worker task: `workers/tasks.py` | the worker's own copy of the row | load, skip, transitions, workflow, failure handling, retry, safety net | it may be delivered twice, crash anywhere, or meet a cancelled, restarted or deleted row |
| Workflow graph: `agents/graph.py`, `agents/state.py`, `agents/runner.py` | the graph's state: attempt, verification verdict, parked flags | seven agents, three terminal nodes, two parking branches and a retry edge | it terminates; at most `max_attempts` trainings; a parked run trains nothing |
| Verification sessions: `services/objective_verification_service.py`, `api/v1/endpoints/objective_verification.py`, `engine/objective_verification/runner.py` | the session row: status, frames, report, linked experiment | create, link, background execution, SSE readers | a reader sees every frame once and in order, then the report or the error; a session does not stay RUNNING |
| WebSocket channels and bridge: `services/websocket_manager.py`, `services/event_publisher.py`, `api/v1/endpoints/websocket.py` | connection -> experiment, experiment -> connections, Redis pub/sub | connect, switch, disconnect, broadcast, publish, forward | the two maps agree; an event reaches every live subscriber, preferably once |
| Engine registry: `db/session.py` | one global engine, its session factory and the id of its event loop | init, dispose, `get_db`, `task_session` | nobody uses an engine of another or a closed loop |
| Rate limiter: `core/ratelimit.py` | two fixed windows for each client key, of a minute and of an hour | check a request | bounded grants; Retry-After is long enough |
| LLM client: `engine/llm/client.py`, `engine/llm/_openai_compat.py` | one HTTP client for each provider, with the loop it was made on | complete, with fallback and one retry | the heuristic answers only after every provider failed; a client is not used closed or on a foreign loop |
| Records: `services/evidence_persist.py`, `services/verification_service.py`, `engine/verification/` | decisions, evidence nodes, memories, verification rows | persist a run, verify its claims, write the outcome | one lineage per experiment; a claim finds the evidence written for it; a rejected result is never COMPLETED |
| Target and metrics: `engine/targeting.py`, `engine/metrics.py` | none | resolve and validate a target, name, compare and select scores | the column trained on is the one the user asked for, and fit for the task |
| Sandbox: `engine/sandbox/manager.py`, `engine/tools/ml.py`, `engine/sandbox/train_script.py` | containers and work directories | run a job, time out, clean up, fall back on training in process | every job is cleaned up; every run measures |
| Checks: `engine/objective_verification/checks.py` | the facts of a session | judge four objectives | nothing is judged that was not recorded |
| Front-end store: `frontend/src/store/store.tsx` | active run, poll timer, socket generation, seen events | run, stop, poll, reconnect | what is shown belongs to the active run |

How they interact. A *start* request commits `QUEUED`, publishes
`run_experiment` and commits the task's id. The worker loads the row in a
session of its own and writes every status change back through
`transition_experiment`. *Cancel* revokes the task and commits `CANCELLED`. The
graph's nodes and the worker publish events to WebSocket clients, directly when
the worker lives in the API process and through Redis otherwise. The front end
polls `GET /experiments/{id}` as a fallback.

What is hard. Nothing locks the row and it has no version column: every
actor validates a transition against *its own copy* and writes only the columns
it changed (`expire_on_commit=False`, a refresh after each commit). Messages are
delivered at least once. A worker can die between any two commits. Celery has a
retry bound of its own beside the experiment's. Sessions, sockets and the engine
are used from several event loops. `PROJECT.json` lists these hazards line by
line; the properties below are aimed at them.

## 2. Plan

| Step | Module | Contents | Abstract specification | Properties and theorems |
|---|---|---|---|---|
| 1 (done) | `LifecycleTable`, `Lifecycle`, `ExperimentRun`, `MCExperimentRun`, `ExperimentRunProofs` | row, requests, queue, workers | `Lifecycle` | section 4 and 5 |
| 2 (done) | `TargetResolution`, `Metrics`, `Preprocessing`, `ModelTraining`, `VerificationGate`, `ExperimentWorkflow`, `MCExperimentWorkflow`, `ExperimentWorkflowProofs` | target, objective, plan, training, gate; the graph with its routes, attempts, parking, node exceptions and the sandbox job | the outcome choice of `ExperimentRun` | sections 4 and 5 |
| 3 (done) | `SessionLog`, `VerificationSession`, `VerificationSessionProofs` | session row, background run, SSE readers, linking, process death | `SessionLog`, an append-only log that ends once | sections 4 and 5 |
| 3b | `ObjectivesPage` | the page that follows a session: stream, reconnect timer, fallback read, New, a second submission | a `SessionLog` per session | a busy page is answered; what it shows belongs to the session it shows |
| 4 (done) | `EventDelivery`, `EventDeliveryProofs`, `RunStore`, `RunStoreProofs` | channels, switching, broadcast snapshot, bridge, publisher's second attempt; the browser's store | a set of subscribers per experiment | sections 4 and 5 |
| 5 (done) | `EngineRegistry`, `LLMClient`, `ProcessProofs` | the global engine and the shared HTTP clients, used from several event loops | one engine, one client per loop | sections 4 and 5 |
| 6 (done) | `Claims`, `ObjectiveChecks`, `RunRecords`, `RunRecordsProofs`, `RateLimiter`, `MCPlatform`, `PlatformProofs` | records of a run and those who judge by them; the limiter; the parts together | one lineage; a counter per window | sections 4 and 5 |
| 7 | refinement | the outcomes of `ExperimentWorkflow` are those `WorkflowReturns` and `WorkflowRaises` of `ExperimentRun` choose from | `ExperimentRun` | every outcome is one of these |
| 8 (done) | proofs | every invariant and action property, for every size; non-overlapping executions implement `Lifecycle` | `Lifecycle` | section 5 |

Left besides steps 3b and 7: two executions that persist their lineage at
the same time, and `createAndRun` of the store.

Bounds are two actors of each kind, one or two faults of each kind, and
constants small enough for a run to end within minutes. The
modules are written for proofs from the start: no RECURSIVE operators,
parameters are CONSTANTS with named assumptions, one action per operation.

## 3. What is modelled: ExperimentRun

`ExperimentRun.tla` composes the three parts of the core: the row with the
requests that act on it, the Celery queue, and the workers.

| In the model | In the code |
|---|---|
| `row`, `exists` | the committed row in PostgreSQL, and whether it has been deleted |
| `copy[a]` | the ORM object in the session of actor *a*: what decisions are taken on |
| `pc[a]` | where actor *a* is between two commits or reads |
| `queue` | messages ready for delivery, with their number: Celery's are delivered at least once and in any order |
| `msg[w]` | the message worker *w* has not acknowledged (`task_acks_late`) |
| `revoked` | the task ids that `control.revoke` has announced |
| `redelivered`, `losses` | counters that bound the faults |

A commit writes the columns that SQLAlchemy's UPDATE would carry: the ones the
actor assigned a different value to. `Transitioned` is `transition_experiment`
up to its commit; the refresh is the next step of the same actor, and whatever
happened to the row in between is what it reads. `Goto`, `Read` keep or replace
the copy; the model forgets copies nobody will use again. `result_summary`
is abstracted to what decisions and properties tell apart: `"empty"`,
`"history"` (the archived attempts that a restart keeps), `"ok"`, `"failed"`,
`"parked"` and `"awaiting"` (parked, with the flags that say why).

| Actions | Code |
|---|---|
| `StartLoad`, `StartCommit`, `Enqueue`, `EnqueueFails`, `AttachTaskId` | `start_for_user`, `enqueue_experiment`, `attach_task_id` |
| `CancelLoad`, `Revoke`, `CancelCommit` | `cancel_experiment`, `revoke_experiment_task`, `cancel_for_user` (its second SELECT returns the copy the session already has) |
| `Patch`, `Delete` | `update_for_user` with `max_retries`, `delete_for_user` |
| `Receive`, `TaskAttachId`, `TaskTransition`, `TaskRefresh` | `_execute_async` up to the workflow: skips, `FAILED -> RETRYING` resumption, normalisation to `RUNNING` |
| `WorkflowReturns`, `MarkAwaiting` | result and status of the workflow, one commit; the flags set after it |
| `WorkflowRaises`, `DecideRetry`, `CommitRetry`, `Republish` | `_handle_workflow_error` and `task.retry` |
| `SyncLoad`, `SyncCommit` | `on_failure` and `_sync_failure_best_effort`, the safety net, which does not use the table |
| `SoftTimeLimit`, `HardTimeLimit`, `RepublishFails` | the two time limits; a broker that cannot take the retry |
| `Ack`, `Crash`, `VisibilityTimeout`, `Terminate`, `Discard` | Celery: late acknowledgement, redelivery, revocation |
| `RequestDies` | an API process or a client that goes away between two commits |

Celery's and Redis' own behaviour is external code, modelled from how
`celery_app.py` configures it: late acknowledgement, reject on worker loss,
one message per worker, `task.retry` publishing the same id with one more retry.
The default embedded worker uses the solo pool, which enforces no time limit and
terminates nothing on revocation; the model allows both, as a standalone worker
does, and requires neither.

`Lifecycle.tla` is the abstract specification: the status column alone, moved
by `TRANSITIONS`, by the safety net, or removed with its row.
`LifecycleTable.tla` holds the statuses and the table both share.

## 3b. What is modelled: VerificationSession

A verification session is one row of `verification_sessions`. The request that
creates it commits the row, links the newest completed experiment in a second
commit and schedules `_dispatch` as a background task. The task loads the row
with a session of its own, runs the fixed flow of
`engine/objective_verification/runner.py` and commits the frame history after
every step, then the report. SSE readers poll the row.

| In the model | In the code |
|---|---|
| `session` | the committed row: `exists`, `status`, `events` (`log`), `report` (a set of at most one) |
| `linked` | `linked_experiment_id`; `Own` when there is none |
| `at` | where the creating request, then the background task is |
| `copy` | the task's ORM object: its events, the experiment it read as linked, and whether a failed commit has expired it (`lost`) |
| `trail` | the frames that `run_verification` has emitted, persisted or not; its control depends on nothing else |
| `conn[r]` | one SSE connection: the snapshot of its current tick, `sent`, and the frames its client `got` |
| `dbErrors` | bounds the failures of the database |

| Actions | Code |
|---|---|
| `AutoLink`, `AutoLinkFails` | second half of `create_session`; when its commit fails, the endpoint fails at `row.id` and schedules nothing |
| `Dispatch`, `Begin`, `GivesUp` | `_dispatch`, the first commit of `execute_session`, and the exceptions only logged |
| `LoadFacts`, `Raises`, `Fail`, `FailFails` | `load_facts`, the try block and its handler |
| `Emit(frame)` with `frame \in NextFrames(trail)` | one step of the flow: `_emit` and `_persist`, committed, failed and swallowed, or skipped by a lost copy |
| `Complete`, `CompleteFails` | the rest of `execute_session`, outside its try block |
| `Link`, `Delete`, `Crash` | `link_experiment`, ON DELETE CASCADE, the death of the process |
| `Open`, `Poll`, `Send`, `EndTick`, `Close` | `stream_session` and `event_source`; the client that leaves and comes back |

`NextFrames` is the schedule of the flow: intake gate, code generation, the
objectives in order with one frame per check, the report; after a refusal every
objective and the report BLOCKED. The verdicts of the checks and the outcome of
code generation are choices, `RollUp` and the report are computed as in the
code. `SessionLog.tla` is the abstract specification: an append-only log, one
verdict at its end, nothing after it.

A failed commit of SQLAlchemy's asynchronous session rolls back and expires
every object of the session; an access to an expired attribute outside an
awaited load raises. That is external behaviour, modelled by `lost`.

## 3c. What is modelled: ExperimentWorkflow

One execution of the graph, which `ExperimentRun` takes as a choice of outcome.
`ExperimentWorkflow.tla` has the control; what a stage computes is in modules of
operators without variables.

| Module | Code | Operators |
|---|---|---|
| `TargetResolution` | `engine/targeting.py` | candidates with their scores and evidence, the ranking, ties, `ResolveAndValidate` |
| `Metrics` | `engine/metrics.py`, the sanity and baseline checks | names and aliases of metrics, direction, `SelectBest`, `Dominates`, `Insane` |
| `Preprocessing` | `agents/preprocessor.py`, the transformers of the training script | `Plan`, and `Prepared`: what each column goes through |
| `ModelTraining` | `agents/model_selector.py`, `engine/tools/ml.py`, `engine/sandbox/train_script.py` | the shortlists, the families of a job, what a comparison measures and what either backend reports of it |
| `VerificationGate` | `agents/verifier.py`, `engine/verification/` | the static checks, as facts of a syntax tree, `Failures` and `Verdict` |

| In the model | In the code |
|---|---|
| `request` | the experiment's configuration, and the facts of its file: kinds of columns, the number of distinct values, what of a name the objective spells out |
| `node` | the graph's next node; `describe` is the second half of discovery, `raised` the exception that goes on to the worker |
| `state` | `ExperimentWorkflowState`, as far as a later stage reads it. A key that is not declared is dropped: `verification_abstained` never reaches the route |
| `disk` | the dataset file as each stage finds it when it opens it |
| `job` | the training job of the attempt: workspace, container, exit code, what was written |
| `trainings` | history: jobs started |

| Actions | Code |
|---|---|
| `Orchestrate`, `DiscoveryGate`, `Describe`, `Profile`, `PlanData`, `SelectModel` | the agents' nodes; a language model answers, no provider does and the heuristic runs, or the node raises (`AgentRaises`) |
| `MarkAwaitingDataset`, `MarkAwaitingTarget`, `MarkFailed` | the three terminal nodes |
| `StartJob`, `ResolveDataset`, `Probe`, `PrepareSandbox`, `CreateWorkspace`, `StartContainer`, `ContainerExits`, `PollFails`, `RemoveContainer`, `CleanupWorkspace` | the ML tool and `SandboxManager.execute_job`, each step of which may fail |
| `TrainInProcess`, `PublishResult` | the fallback, and the experimenter's update of the state, which counts the attempt |
| `Verify` with `Route` | the verifier and `route_after_verification` |
| `FileChanges` | a user who uploads or removes the file meanwhile |

Scores are integers in halves of one, so that the boundaries 0 and 1, a tie
with the baseline and values outside the range exist. Which family raises and
which score a family gets is a choice; selection, aliases, what is reported
under which name, and the verdict are computed as in the code. Fitting,
embeddings, prompts and wording are left out.

## 3d. What is modelled: the platform around a run

Six parts that share no state with one another. `MCPlatform` checks them
together as their sum: the variable `focus` names the one part that moves in a
behaviour, the others stay in one of their initial states. Nothing is
lost by it, as no property relates two parts, and each part is checked in full.

**`EventDelivery`**: `services/websocket_manager.py`,
`services/event_publisher.py` and the WebSocket endpoints. `channels` and `owner`
are the manager's two tables, `sockets` the sockets with their state between the
client's leaving and the endpoint's noticing, `tasks` the broadcasts under way, each
with its snapshot, `publisher` the thread that waits for one, `bridge` the
subscriber of Redis. A broadcast is `Snapshot`, one `Send` for each connection,
`Cleanup` and, when nobody here received it, `Forward`; anything may happen
between two of them. `GiveUp` is the ten seconds after which `publish_sync`
publishes again while the first attempt goes on. An entry of a channel says
whether the code stored a socket there or, after a switch, `None`.

**`RunStore`**: `frontend/src/store/store.tsx`. `ui` is what the store holds: the
statuses shown, the active run, the poller, the socket being opened and the open
one, retries under way. `Effect` is the React effect on the active run and its
status, which runs with the step that changed them. Requests are answered with the row as
it is at that time, and answers arrive in any order; `cutOff` records that an
answer about another run stopped the poller, or that the list failed.

**`RunRecords`** with `Claims` and `ObjectiveChecks`: what is recorded of a run
and who judges by it. The worker commits lineage, memory and row one after the
other (`PersistEvidence`, `StoreMemory`, `CommitRow`), and may die or lose a
commit anywhere; `Restart` is a new start of a failed run. The gate of the API
verifies the claims of the decisions (`GateVerify`), pairs the results with a
second query by position (`GatePair`), and writes an outcome to a row it loaded before
(`GateLoad`, `GateCommit`). A session reads its facts query by query
(`ReadFacts`) and judges them by the checks. A text is the set of phrases in it
that some extractor, search or match looks for. `torn` marks a row whose status
and result come from different writes.

**`RateLimiter`**: `core/ratelimit.py`, the in-memory limiter, which is the one
the application builds, for one key. The clock ticks in half seconds, because the code
truncates `Retry-After` to whole ones; it may jump any distance between two requests.

**`EngineRegistry`**: `db/session.py`. Which loop the one registered engine was
made on, the requests of the API's loop, the task of the embedded worker on a
loop and thread of its own, and the loops that tools of a task start. `raced`
holds the threads between check and session when another one wrote the registry.

**`LLMClient`**: the chain of `engine/llm/client.py`, the HTTP client that each
provider keeps and `_get_client` replaces with an await in the middle, and what
`agents/base.py` makes of the outcome. Every call of an agent has a loop of its
own, whose id may be that of one that ended.

## 4. Runs

The `run_*` runs use `MCExperimentRun`, the `session_*` runs
`VerificationSession`, the `workflow_*` runs `MCExperimentWorkflow` and
`platform_run` `MCPlatform`. Deadlock is not an error in the runs whose system may
rest: when all requests are answered and all messages consumed. The `workflow_*` runs
check it: a workflow that is over is a state of its own, every other one must
be able to go on.

| Run | Specification and bounds | Checks | Result |
|---|---|---|---|
| `run_overlap` | 2 starts, 2 workers, max_retries 1, Celery's bound 1, 1 redelivery | `TypeOK`, `ActiveHasCarrier`, `RetryWithinLimit`, `CompletedHasItsResult`, `FinishedIsFinalOnceSeen` | hold, 381 000 states |
| `run_faults` | 1 start, 1 cancel, 1 PATCH between 0 and 2, 2 workers, 1 redelivery, 1 loss | `ActiveHasCarrier`, `RetryWithinLimit`, `FinishedIsFinalOnceSeen` | hold, 951 000 states |
| `run_serial` | executions that do not overlap; 2 starts, cancel, PATCH, delete, 2 workers, 1 redelivery, 1 loss | `FollowsLifecycle` (refinement), `FinishedIsFinal`, `RetriesAreCounted` | hold, 122 000 states |
| `run_live` | fairness; 2 starts, delete, 1 worker, 1 redelivery, no loss | `EventuallyAtRest` | holds, 61 000 states |
| `run_cancel` | 1 start, 1 cancel, 1 worker | `CancelledIsNotRun` | violated (section 6) |
| `run_parked` | 1 start, 1 worker | `ParkedSaysWhy` | violated (section 6) |
| `run_stranded` | 2 starts, 1 loss | `StrandedCanRestart` | violated (section 6) |
| `session_run` | fairness; 1 reader, 1 pipeline experiment, 2 objectives of 1 check with 2 outcomes, 1 database error, a crash, a deletion | `TypeOK`, `ReportMatchesLog`, `StreamIsFaithful`, `FollowsSessionLog` (refinement), `StreamsEnd` | hold, 152 000 states |
| `session_failure` | 1 objective, 1 database error, no reader | `BrokenSinkFailsNoRun` | violated (section 6) |
| `workflow_run` | fairness; 10 requests that differ in metric, comparison, task, hint and shape of the file, 2 attempts, 1 change of the file, 2 families that can be fitted | `TypeOK`, `CompletedIsEarned`, `TrainingIsBounded`, `TrainsOnResolvedTarget`, `NothingLeftBehind`, `WorkflowEnds` | hold, 50 000 states |
| `workflow_unmeasured` | the same | `FittedIsMeasured` | violated (section 6) |
| `platform_run` | fairness of the store; the bounds of each part are below | `TypeOK`, `ChannelsMatchOwners`, `DeliveredOnceToAll`, `OneRunIsFollowed`, `NeverStuckRunning`, `LineageIsOnce`, `ClaimsFindEvidence`, `NeverVerifiedWorse`, `JudgedAsRecorded`, `RetryAfterIsEnough`, `GrantsAreBounded`, `SessionsOnOwnLoop`, `NoEngineOfDeadLoop`, `HeuristicIsLast`, `AloneNeverFails` | hold, 442 000 states |

What the properties say:

* `ActiveHasCarrier`: a run that a client sees as QUEUED, RUNNING or RETRYING is
  never orphaned. Some message is queued, or some worker will execute it, fail
  it or publish it again, or the start request is about to publish. `Carries`
  counts only positions from which the code does take it on: a worker that has
  committed RUNNING counts only while it will find RUNNING at its refresh, one
  that has committed an outcome does not count. It holds through any crash,
  redelivery and overlap, and is conditional on no loss and no revocation:
  after those the code does orphan runs (`run_stranded`).
* `RetryWithinLimit`: the budget is checked on one copy and charged from another,
  and PATCH moves the limit; the counter still never exceeds the largest limit.
* `CompletedHasItsResult`: status and result of two overlapping executions, of a
  restart and of the safety net never mix into a COMPLETED row without a
  successful result.
* `FinishedIsFinalOnceSeen`: with overlap, a finished run does *not* stay finished in
  general, because an actor with an older copy may overwrite it (`run_cancel`).
  Once no such actor is left it does, whatever is still delivered: every
  place that reads the row again respects what it finds.
* `FollowsLifecycle`, `FinishedIsFinal`, `RetriesAreCounted`: the documented state
  machine, the finality of COMPLETED and CANCELLED and the accounting of retries
  hold when executions do not overlap (`SerialNext`: an actor begins only when the
  others are between two operations). This is the exact sense in which the
  lifecycle in `experiment_service.py` is enforced; they are false with overlap.
* `EventuallyAtRest`: the row leaves the active statuses, and the messages and
  workers come to rest, for good.

* `ReportMatchesLog`: a run completes only with its whole flow in the log, and the
  report says what the frames said, although `_emit` goes on after a frame that
  could not be committed. What saves it is that the code reads its own copy
  before it completes (`CopyReadable`), which a lost copy refuses.
* `StreamIsFaithful`: a connection has always received a prefix of the log, and
  with the report all of it, at whatever moment it connected and however slowly
  it reads: frames and verdict come from one read of the row.
* `FollowsSessionLog`: the row implements `SessionLog`.
* `StreamsEnd`: unless the database failed or the process died, a reader that
  tails is answered, or its connection breaks because the row is gone.


* `CompletedIsEarned`: whatever a model proposes, Docker does and the fallback
  reports, COMPLETED comes from the last training, with a score that beats the
  baseline and every other family of the comparison.
* `TrainingIsBounded`: attempts are counted in another node than the one that
  routes; no attempt is free, none too many, and a parked run trained nothing.
* `TrainsOnResolvedTarget`: hint, proposal, objective and shape of the columns
  go through five stages; the column trained on is the user's, or the one the
  objective spells out, is usable for the task, and is no feature of either backend.
* `NothingLeftBehind`: workspace and container after every partial failure of a
  job, except what the code itself cannot know of or was refused.
* `WorkflowEnds`: no failure, retry or change of the file keeps the graph going.
* `ChannelsMatchOwners`: joins, switches, departures and the cleanup of a
  broadcast that took its snapshot earlier leave the two tables inverse.
* `DeliveredOnceToAll`: an event reaches each connection once, or twice when the publisher
  gave up; who was there all the time gets it although others failed.
* `OneRunIsFollowed`: late tokens, timers and answers never leave the poller or the
  socket at another run than the one shown.
* `NeverStuckRunning`: whatever events are lost, a run that is over is at last
  shown so. It is conditional on `cutOff` (section 6).
* `LineageIsOnce`: crash, redelivery and restart between the commit of the
  lineage and that of the row duplicate neither lineage nor memory.
* `ClaimsFindEvidence`: extractor, rationale, query and matcher, four places that
  know the same phrases, agree, even when the page is full of others' newer nodes.
* `NeverVerifiedWorse`: the evidence a failed run wrote for itself does not make
  it COMPLETED against the static checks.
* `JudgedAsRecorded`: facts read query by query while others write them are the
  whole of a completed run; a session without a run is judged on none.
* `RetryAfterIsEnough`, `GrantsAreBounded`: two windows of different length, the
  truncation to seconds and the restart of one while the other refuses.
* `SessionsOnOwnLoop`, `NoEngineOfDeadLoop`: one global registry, several threads
  and loops; a session is on its own loop's engine unless another thread wrote
  the registry within the check (section 6), and a loop that ended leaves no engine.
* `HeuristicIsLast`, `AloneNeverFails`: the fallback and the one more try skip
  no provider, and a call that nobody overlaps never meets a closed or a foreign client.

The bounds. Readers do not interact, so one is enough; it may connect any number
of times. Two objectives show the step from one to the next and the last; the
four of the code add length only. In `ExperimentRun`, two of each actor is the least at which copies go stale in each other's
back, and every hazard of the list that is about it involves two actors. One automatic retry in
`run_overlap` and up to two in `run_faults` reach the three cases (budget left,
budget exhausted, Celery's bound first). One redelivery and one loss may strike
at every step. The proofs of section 5 cover every size.

In `workflow_run`, a second attempt is the least that comes back through the retry
edge, and the third would repeat it. The ten requests hold one of each shape that
makes a target hard: a tie, an identifier that the objective names, prose, a
constant, a continuous outcome, a hint that is in no column; and one of each
kind of metric. Two families that can be fitted and others that cannot let a
comparison select, tie, leave one out or compare too few.

In `platform_run`: 2 connections, 2 experiments, 1 event, 2 moves of clients and
1 fault (a broadcast and its second attempt need no more; events do not interact
but by the order of the publisher); 2 runs, 1 request besides the polls, 1 act
of the user and 1 failure; 2 executions, 1 loss, a page of 1 node, the
nodes of one other experiment, newer or older than those of the run, and 4 final
states (better, worse, perfect and not believed, parked without a metric);
a minute of 2 ticks, an hour of 8 and limits of 2 and 3, so that neither
window hides the other; 2 requests and 6 tasks, tools or sessions; 2 callers, 2
ids of loops, a chain of 2 providers and 2 calls.

Fairness, in `run_live` only. `WF(TaskStep(w))`: a worker process that is up
goes on; each of its awaits ends (the database answers, the workflow returns,
raises or meets the time limit). `WF(StartStep(s))` once the request was made:
the coroutine of an accepted request is scheduled. `WF(Receive)`: a free worker
is given a waiting message, which is what Celery's consumer loop does. Nothing is
assumed of faults, of deletions or of further requests. Cancels and losses are
absent from this run on purpose: after a lost publication or when the
worker that overwrote CANCELLED is then terminated, the row stays QUEUED or
RUNNING for ever.

In `session_run`: `WF` of the task's steps and faults together (the event loop runs
the background task while the process lives; its awaits end, by failing if need
be) and `WF(ReaderStep(r))` (the server keeps ticking a stream; a client that
stops reading is `Close`). A crash needs no fairness: it disables the task.

In `workflow_run`: `WF(Work)`. One thread runs the graph and does nothing else, and
every wait has an end: a provider's timeout, the sandbox's time limit. Nothing is
assumed of the file.

In `platform_run`: `StoreFairness` is `WF` of the interval (`PollTick`) and of the
polls of each run and the lists, which the server answers and the store handles. Nothing is assumed of the socket, of tokens, of retries or of the user.

Each property has a mutant in `PROJECT.json`: one of the faulty variants
defined beside the original (an early acknowledgement, an off-by-one in the
retry decision, a missing check) put in place of the original makes TLC find the
property violated.

## 5. Proofs

`ExperimentRunProofs.tla` proves, for any sets of requests and workers, any
retry limits and any number of redeliveries and losses:

| Theorem | Statement |
|---|---|
| `TypeCorrect` | `Spec => []TypeOK` |
| `InductiveInvariant` | `Spec => []IInv` |
| `RetriesBounded` | `Spec => []RetryWithinLimit` |
| `ResultMatches` | `Spec => []CompletedHasItsResult` |
| `FinishedStays` | `Spec => FinishedIsFinalOnceSeen` |
| `ActiveCarried` | `Spec => []ActiveHasCarrier` |

Assumptions: `ActorsAssumption` (requests of different kinds and workers are
different things, no start request is the null task id) and `BoundsAssumption`
(the limits are natural numbers). TLC evaluates both in every run.

The argument. What is written comes from a copy, so an invariant of the row is
inductive only together with the same knowledge of every copy that is still
going to be used. `IInv` is the conjunction of

* `TypeOK`;
* `CopiesFit`: at the labels where an actor's next step uses its copy, the copy's
  retry count and limit are within what the row may have, and what the guard
  that led there established is still true *of the copy*: at `retry` the count
  is below the limit, at `commit` a start's copy may become QUEUED, at `workflow`
  it is RUNNING, at `syncCommit` it is not finished;
* `RowFits`: the same bounds for the row, no `"awaiting"` result, and
  `CompletedHasItsResult`;
* `HoldsMessage`: a busy worker holds a message, so a crash has something to
  redeliver.

`RetryWithinLimit` is not inductive alone: `CommitRetry` writes the copy's count
plus one, which is bounded because the copy's count was below the copy's limit.
`FinishedStays` needs that a write by an actor without a stale copy is a write
from a finished copy, which the table refuses. `ActiveCarried` shows that every
step that takes the last carrier away leaves the run inactive, loses something
or publishes; its lemmas `OthersCarry` and `PublishedCarries` say that the steps
of one actor do not disturb the others' duty, and `RequestMonotone`,
`WorkerMonotone` that losses and revocations are never taken back. Each proof
about `Next` has a lemma for the requests, for the task's own steps and for
delivery and faults, with one step per action.

Executions that do not overlap (`SerialSpec`) have three theorems of their own in
the same module:

| Theorem | Statement |
|---|---|
| `ImplementsLifecycle` | `SerialSpec => FollowsLifecycle` |
| `SerialFinishes` | `SerialSpec => FinishedIsFinal` |
| `SerialCounts` | `SerialSpec => RetriesAreCounted` |

`SerialInv` adds to `IInv` what overlap breaks: `Alone`, that one actor at most is
between two of its steps; `Synced`, that a copy about to be used has the status and
the retries of the row (not its limit: PATCH is one step and may come between); and
`Unstarted`, that a CREATED row has neither message nor task, without which the
safety net could take CREATED to FAILED, which the table does not know. `NextSerial`
shows for every action that the row takes a `LifecycleStep`, from which all
three follow, and that the actor `Moves` as `Synced` needs.

`VerificationSessionProofs.tla` proves, for any number of readers, pipeline
experiments, objectives, checks, outcomes and database errors:

| Theorem | Statement |
|---|---|
| `SessionInvariant` | `Spec => []IInv` |
| `SessionTypeCorrect` | `Spec => []TypeOK` |
| `ReportMatches` | `Spec => []ReportMatchesLog` |
| `StreamFaithful` | `Spec => []StreamIsFaithful` |
| `ImplementsSessionLog` | `Spec => FollowsSessionLog` |

from `SessionAssumption` (the constants are natural numbers, at least one
objective and one check, the outcomes are statuses of checks). The argument has
three layers.

* The flow, about `trail` alone. `FlowFits` says that stages only go forward,
  that every objective reached has a last frame, and that the verdict of each
  closed objective is BLOCKED after a refusal and otherwise the roll-up of its
  own outcomes, of which there is at least one. `FlowStep` shows that every
  frame of `NextFrames` preserves it; `ReportFits` that a finished flow that
  fits gives a report that passes only if every objective does. The report
  rolls up the checks of *all* objectives at once, the frames roll them up one
  by one: `OutcomesOfAll` and `RollUpPassed` join the two.
* The task and its row. `TaskFits` says that while the copy is not lost, the
  row's log, the copy's log and `trail` are equal. So `Complete`, which needs a
  copy that can be read, stores a report of exactly the log that the row has.
* The connections. `ConnectionFits` says that what was received is the beginning
  of the log, that what is being sent is too, and that a verdict that was read
  is the row's last one. It needs only `LogGrows`: what any move of
  `SessionLog` does to a row. `RowMoves` is that every step is such a move or
  none, which is the refinement as well.

`ProcessProofs.tla` proves what the parts that live in one process promise:

| Theorem | Statement |
|---|---|
| `RateTypes` | `RateSpec => []RateTypeOK` |
| `RetryAfterHolds` | `RateSpec => []RetryAfterIsEnough` |
| `GrantsBounded` | `RateSpec => []GrantsAreBounded` |
| `EngineTypes` | `EngineSpec => []EngineTypeOK` |
| `SessionsStayHome` | `EngineSpec => []SessionsOnOwnLoop` |
| `RegistryOutlivesNoLoop` | `EngineSpec => []NoEngineOfDeadLoop` |
| `LLMTypes` | `LLMSpec => []LLMTypeOK` |
| `HeuristicLast` | `LLMSpec => []HeuristicIsLast` |
| `AloneIsSafe` | `LLMSpec => []AloneNeverFails` |

* The limiter, for every length of the two windows and every limit, from
  `RateAssumption` (they are positive). What a refusal was told says nothing of the
  window as it is later; `Covered` is what is inductive: the window has been
  restarted since, or it was not over then and the time told reaches to its end.
  `RefusalIsToldEnough` shows that half of the ticks left, rounded down, and one
  second more cover them. `GrantInv` counts the grants: those since the window's
  start are at most its counter, those before it that may still matter at most one
  limit, and none lies beyond the end of the window that counted it. A stretch of
  the window's length meets only these two sets.
* The engine registry, for any number of requests, without assumptions. A session
  is opened some steps after the registry was looked at, so the invariant says of
  the threads in between what they found: `Bound`, that a thread which nobody raced
  has its own loop's engine before it; `Closing`, that only the task and its tools
  close a loop, which the API's outlives; `Disposing`, that only requests dispose
  first.
* The LLM client, for a chain of any length, any callers, ids of loops and calls, from
  `ChainAssumption` (the chain is a sequence). `AloneFits` says what a call that
  nobody overlaps finds at each await: no other call runs, the shared client of its
  own loop's id is not closed, and the one it holds is its own. It has to speak of
  all providers, as the ids of loops that ended are used again. `PassedOverFailed`
  is that all providers before the one being asked have failed for this call.

`EventDeliveryProofs.tla` proves, for any connections, experiments, events, moves of
clients and faults, from `EventAssumption` (the published experiment is one, `Nowhere`
is none, the bounds are natural numbers):

| Theorem | Statement |
|---|---|
| `EventTypes` | `EventSpec => []EventTypeOK` |
| `TablesAgree` | `EventSpec => []ChannelsMatchOwners` |
| `DeliveredOnce` | `EventSpec => []DeliveredOnceToAll` |

Neither half of `DeliveredOnceToAll` is inductive. That nobody gets an event too often
needs a budget: `MayReceive(n, c)` adds to what *c* received the broadcasts that may
still bring it, itself or by way of Redis, and its places in the bridge's queue, and
stays at one, or two once the publisher gave up. That everybody who stays gets it needs
`Awaits`: who has not received it yet is in the channel, open, and in the list of
the one broadcast that is under way. Both rest on which broadcast belongs to
which attempt of the publisher (`WaitFits`) and on `Cold`: what a broadcast found
dead stays dead, so its cleanup takes nobody out who came meanwhile (`TargetsFit`).

`RunStoreProofs.tla` proves, for any runs, requests under way, acts of the user and
failures, from `RunsAssumption` (there is a run, `NoRun` is none):

| Theorem | Statement |
|---|---|
| `StoreTypes` | `StoreSpec => []StoreTypeOK` |
| `OneRunFollowed` | `StoreSpec => []OneRunIsFollowed` |

`StoreInv` adds to the property what each kind of request may be answered with and
that only a run that is shown is active. A handler is a chain of the store's helpers,
so each helper has a lemma that says what it keeps, and `EffectFits` that the React
effect keeps `Follows`, and brings it about whenever the active run changed.

`ExperimentWorkflowProofs.tla` proves, for any requests, answers of models, columns,
families, scores and number of attempts, from `WorkflowAssumption` (at least one
attempt; requests and answers have their types):

| Theorem | Statement |
|---|---|
| `WorkflowTypes` | `Spec => []TypeOK` |
| `CompletionIsEarned` | `Spec => []CompletedIsEarned` |
| `TrainingEnds` | `Spec => []TrainingIsBounded` |
| `TargetIsResolved` | `Spec => []TrainsOnResolvedTarget` |
| `SandboxIsCleared` | `Spec => []NothingLeftBehind` |

The lemmas about the operators come first. `ResolutionFits` is about
`ResolveAndValidate`: the score of a column whose name is spelled out exceeds what
words, shape and proposal can add up to (`CandidatesAreWeighed`, `SpelledIsStrong`),
so the strongest candidate is it (`StrongestOfAll`), for any number of columns.
`ComparedFits` is about a comparison: the selected score is beaten by none of the
entries, and two different families were compared when a comparison was asked for and
not refused. `PassingResult` reads the conditions of `CompletedIsEarned` off a gate
without failures. `WorkflowInv` then carries these facts through the nodes:
`CountFits` (attempts and trainings), `StatusFits`, `TargetFits` (the user's hint is
untouched until the profiler used it, the target is a chosen one afterwards),
`SandboxFits` (what there is of workspace and container in each phase of the job) and
`WrittenFits` (the result the gate looks at is what the last job wrote or none).

`RunRecordsProofs.tla` proves, for any final states of runs, number of executions
and losses, page size and nodes of other experiments, from `RecordAssumption` (a final
state has no more stages than there are drafts, finitely many metrics, and one that
is COMPLETED has a stage and passes the static checks, which is what the workflow's
gate lets through; a page has a node):

| Theorem | Statement |
|---|---|
| `RecordTypes` | `RecordSpec => []RecordTypeOK` |
| `LineageOnce` | `RecordSpec => []LineageIsOnce` |
| `EvidenceIsFound` | `RecordSpec => []ClaimsFindEvidence` |
| `StaticGateRules` | `RecordSpec => []NeverVerifiedWorse` |
| `WholeRunIsJudged` | `RecordSpec => []JudgedAsRecorded` |

* Claims and evidence. `PieceSupports` shows that no two kinds of claims speak of the same
  thing, so that a piece of evidence which mentions a claim's words was written for that kind
  of claim and supports it; `RationaleHoldsQuery` that the piece written for a claim has the
  phrase its query looks for; `SearchFinds` that the search keeps it, whatever
  newer nodes there are. So no claim of a decision stays unverified (`RecordedFits`,
  `ResultsFit`).
* Records. `CompletionFits` says that who completes the row has seen the lineage of
  a run stored, unless that was lost; `LineageFits` that there is one lineage and
  the execution that stored it stores the memory. So the facts a linked session
  has read so far are final (`SessionFits`), though it reads them in
  several queries while worker, gate and restarts write.
* `FlattenSeq` and the extractors' sequences are defined by recursion over sequences.
  What is needed of them is proved by well-founded induction on the naturals with sets
  instead of predicates (`Induction`, from the library's `WFMin`), and `FlattenFits`
  from that.

`PlatformProofs.tla` puts the parts together: `PlatformParts`, that a behaviour of
the platform is a behaviour of each part (initial states are initial states, a step is a
step of one part and leaves the others alone), `PlatformTypes`, `Spec => []TypeOK`, and
`PlatformIsSafe`, that its thirteen invariants hold together.

Every assumption is evaluated by TLC in the runs. The inductive invariants
were checked by TLC as invariants of the same instances before they were proved,
with two conjuncts TLC cannot evaluate as written replaced by what they say of the
states reached (`Listed`, which quantifies over every set, and the type of a run
store's answers, which mixes functions and strings).

Only model-checked: the liveness properties `EventuallyAtRest`, `StreamsEnd`,
`WorkflowEnds` and `NeverStuckRunning`, which are out of the prover's reach, and
the five violations of section 6, which are counterexamples. Every invariant, action
property and refinement of a passing run is proved. Of
recursive definitions only what the proofs need is proved, not what they
compute: `SetToSeq`, for one, is some sequence with each element once. What
`ChecksDone` counts is not needed beyond "some or none". No module that is proved
about has a recursive operator.

## 6. Where the code and its documents disagree

* **A cancelled run can be executed** (`run_cancel`). `tasks.py:8` and `flow.md:312`
  say that a task whose experiment was cancelled is a no-op. The task looks for
  CANCELLED once, on the copy it loads first; a cancel that commits before the
  task's commit of RUNNING is overwritten.
* **A parked run does not say why** (`run_parked`). `flow.md:318` says that
  `awaiting_dataset` is persisted; the flag is set after the last commit of the
  session.
* **A stranded run cannot be started again** (`run_stranded`). The comment in
  `enqueue_experiment` and the 503 of `start_experiment` say to start again;
  QUEUED to QUEUED is not in the table, so that start answers 409.

* **A frame that cannot be stored strands the session** (`session_failure`).
  `_emit` says that a broken progress sink must never fail a run, `_dispatch` that
  failures are recorded on the row. After a failed commit of a frame the run
  goes on with an expired row object and raises outside the try block when it
  is done: the row stays RUNNING, without a report and without an error.
* **A model that was fitted is not measured** (`workflow_unmeasured`). `ml.py:240`
  says that the tool falls back "so the run still measures". A single model's script
  in the container writes a flat dictionary of metrics, `_run_in_sandbox` looks for
  `selected_model` and `primary_score` in it, and its success is no reason to fall
  back: the verifier fails a run that was fitted and scored.

Met while modelling, and part of the models, without a run of their own:

* `_switch_channel` (`websocket_manager.py:197`) looks the socket up after it was
  taken out of the old channel and stores `None` in the new one: a connection that
  switches hears nothing from then on and is dropped at the next broadcast.
  `present` counts only entries with a socket.
* The pollers of `store.tsx` are stopped by any answer about a run that is over, of
  whichever run: after a late answer the active run is not polled and, when its
  event is lost, shown as running. This is what `cutOff` excludes.
* `init_engine` replaces another loop's engine without disposing of it
  (`session.py`), and the check of the registry and the use of the session
  factory are not one step: `SessionsOnOwnLoop` excludes `raced`.
* The shared HTTP client of a provider is closed by the next call on another loop,
  even under a thread that posts with it; the error is no `LLMError`, so it fails
  the stage instead of the provider. `AloneNeverFails` excludes overlap.
* `ratelimit.py` speaks of a token bucket and of a sliding window; the limiter
  that is built has fixed windows, so that two windows' worth may pass at a boundary.
  `GrantsAreBounded` states what does hold.
* The draft of the verification gate lists every static check as passed, also for
  a run that failed them (`evidence_persist.py`), so these claims support
  themselves; what keeps the run FAILED is the static gate alone.
* `verify_experiment` writes the row's status outside of the lifecycle's table and
  makes a FAILED run without a metric COMPLETED when a claim is supported. Its copy
  of the row may be old: the status of one write and the result of another are `torn`.
* It pairs the results of claims with decisions by position, over two queries
  without a common order.
* The lineage of a first execution is kept when a failed run is started again; the
  second execution records nothing.
* A workspace whose files could not be copied, and a container that was created
  and did not start, are unknown to the code that would remove them (`"lost"`).
* In-process training does not use the preprocessing plan. No target reaches the features
  for all that, because both backends take it out again.

## 7. What is not modelled

`PROJECT.json` lists every component with its status. Beyond the plan of
section 2, the following stay out: the numerical work of the agents, metrics,
embeddings and training script (functions of real data); prompts and the texts
of a model's answers; file, object storage and MLflow I/O; authentication and ownership (the models assume the
owner; a foreign id answers like a missing row); rendering in the front end.
Within `ExperimentRun`, left out are: Celery's eager mode, in which a start
request runs the task inline; retry countdowns and all other durations (any
delay is possible); database errors other than a missing row; events, logs and
timestamps; PATCH of fields that no decision reads. Each request happens at
most once, and a client's repeated request is another element of the set.

Within `VerificationSession`, left out are: the texts and payloads of frames, the
generated files and the report's details; the reads that change nothing; the
owner check, which fails like a missing row; keep-alive comments.

Within `ExperimentWorkflow`: the checkpointer, as every run starts on a fresh
state; `agents/pipeline_planner.py` and `prep.py`, which the graph does not call;
download of a dataset by name, which is the presence of its file.

Within the platform: the Redis branch of the limiter, which nothing constructs;
`close_engine` at shutdown, and the three assignments of `init_engine` seen
half done by another thread; the web and memory sources of evidence, which a
check of claims does not register; two executions of one run that persist their
lineage at the same time; types and payloads of events; `createAndRun`, toasts,
logs and the pages of the front end, `ObjectivesPage` among them, whose
reconnect timer nobody cancels.

## 8. Running the checks

    tlc -workers 2 -config run_overlap.cfg MCExperimentRun
    tlc -workers 2 -config session_run.cfg VerificationSession
    tlc -workers 2 -config workflow_run.cfg MCExperimentWorkflow
    tlc -workers 2 -config platform_run.cfg MCPlatform
    tlapm ExperimentRunProofs.tla
    tlapm VerificationSessionProofs.tla
    tlapm ProcessProofs.tla
    tlapm EventDeliveryProofs.tla
    tlapm RunStoreProofs.tla
    tlapm ExperimentWorkflowProofs.tla
    tlapm RunRecordsProofs.tla
    tlapm PlatformProofs.tla
