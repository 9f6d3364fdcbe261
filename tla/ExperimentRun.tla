---------------------------- MODULE ExperimentRun ----------------------------
(***************************************************************************)
(* One experiment row, the API requests that act on it, the Celery queue   *)
(* and the workers that execute the run task.                              *)
(*                                                                         *)
(* Every actor (a request or a worker) works on its own SQLAlchemy copy of *)
(* the row: a transition is validated against that copy, an UPDATE writes  *)
(* only the attributes the actor changed, and the copy is re-read only by  *)
(* the refresh that follows a commit.  Nothing locks the row.  So a commit *)
(* and the refresh after it are separate steps here, and the steps of the  *)
(* actors interleave in every order.                                       *)
(*                                                                         *)
(* Each request is made at most once; the id of the Celery task that a     *)
(* start request publishes is that request itself.                         *)
(***************************************************************************)
EXTENDS Naturals, LifecycleTable

CONSTANTS
  Starts,         \* POST /experiments/{id}/start requests
  Cancels,        \* POST /experiments/{id}/cancel requests
  Patches,        \* PATCH requests that set max_retries
  Deletes,        \* DELETE requests
  Workers,        \* worker slots that execute run_experiment
  RetryLimits,    \* the values max_retries may take
  TaskMaxRetries, \* Celery's own bound on the retries of one task
  MaxRedeliveries, \* bound: crashes and timeouts that redeliver a message
  MaxLosses,      \* bound: lost messages, dead requests and hard kills
  NoTask          \* celery_task_id of a row that has none

Requests == Starts \cup Cancels \cup Patches \cup Deletes
Actors == Requests \cup Workers
Tasks == Starts \cup {NoTask}

ASSUME ActorsAssumption ==
  /\ Workers \cap Requests = {}
  /\ Starts \cap (Cancels \cup Patches \cup Deletes) = {}
  /\ Cancels \cap (Patches \cup Deletes) = {}
  /\ Patches \cap Deletes = {}
  /\ NoTask \notin Starts

ASSUME BoundsAssumption ==
  /\ RetryLimits \subseteq Nat
  /\ TaskMaxRetries \in Nat
  /\ MaxRedeliveries \in Nat
  /\ MaxLosses \in Nat

(* What result_summary holds: nothing, the archived history only, or the   *)
(* outcome of a workflow.  "awaiting" is a parked outcome together with    *)
(* the flags that say what the run is waiting for.                         *)
Results == {"empty", "history", "ok", "failed", "parked", "awaiting"}

Row == [status: Statuses, retry: Nat, max: Nat, task: Tasks,
        result: Results]

Message == [task: Starts, retries: 0 .. TaskMaxRetries]

VARIABLES
  exists,   \* the row has not been deleted
  row,      \* the experiment row as the database has it
  queue,    \* number of copies of each message ready for delivery
  revoked,  \* task ids the workers have been told to revoke
  pc,       \* where each actor is
  copy,     \* each actor's own copy of the row
  msg,      \* the unacknowledged message each worker holds
  redelivered, \* redeliveries so far
  losses    \* losses so far

vars == <<exists, row, queue, revoked, pc, copy, msg, redelivered, losses>>
database == <<exists, row>>
broker == <<queue, revoked, msg>>
faults == <<redelivered, losses>>

NoMessage == [task |-> NoTask, retries |-> 0]
NoCopy == [status |-> "CREATED", retry |-> 0, max |-> 0, task |-> NoTask,
           result |-> "empty"]

Init ==
  /\ exists = TRUE
  /\ row \in [status: {"CREATED"}, retry: {0}, max: RetryLimits,
              task: {NoTask}, result: {"empty"}]
  /\ queue = [m \in Message |-> 0]
  /\ revoked = {}
  /\ pc = [a \in Actors |-> IF a \in Workers THEN "idle" ELSE "new"]
  /\ copy = [a \in Actors |-> NoCopy]
  /\ msg = [w \in Workers |-> NoMessage]
  /\ redelivered = 0
  /\ losses = 0

-----------------------------------------------------------------------------
(* Steps shared by the actors.                                             *)

(* The labels at which an actor's next step uses its copy.  Elsewhere the  *)
(* copy is about to be refreshed, or its session is closed, and the model  *)
(* keeps nothing.                                                          *)
UsesCopy == {"commit", "revoke", "attachTask", "toRetrying", "toQueued",
             "toRunning", "workflow", "retry", "syncCommit"}

GoWith(a, label, c) ==
  /\ pc' = [pc EXCEPT ![a] = label]
  /\ copy' = [copy EXCEPT ![a] = IF label \in UsesCopy THEN c ELSE NoCopy]

(* Actor a goes on at label with the copy it has ...                       *)
Goto(a, label) == GoWith(a, label, copy[a])

(* ... or after a SELECT or a refresh.                                     *)
Read(a, label) == GoWith(a, label, row)

(* Faulty variant of the next: a transition to RETRYING does not count.    *)
TransitionedUncounted(c, to) == [row EXCEPT !.status = to]

(* transition_experiment, up to the commit: the row gets the attributes    *)
(* that the transition sets from the actor's copy c, and keeps the others. *)
Transitioned(c, to) ==
  [row EXCEPT !.status = to,
              !.retry = IF to = "RETRYING" THEN c.retry + 1 ELSE @]

Publish(m) == queue' = [queue EXCEPT ![m] = @ + 1]

(* The worker gives its message back to the broker for good.               *)
Settle(w) ==
  /\ Goto(w, "idle")
  /\ msg' = [msg EXCEPT ![w] = NoMessage]

Lose == losses < MaxLosses /\ losses' = losses + 1 /\ UNCHANGED redelivered

-----------------------------------------------------------------------------
(* Faulty variants of definitions below.  No specification uses them: each *)
(* stands in for the original to show that a property notices the mistake. *)

(* Any run that is not active may be started, finished ones included.      *)
StartLoadUnlessActive(s) ==
  /\ pc[s] = "new"
  /\ Read(s, IF exists /\ row.status \notin Active THEN "commit" ELSE "done")
  /\ UNCHANGED <<database, broker, faults>>

(* cancel_for_user without validate_transition.                            *)
CancelCommitUnchecked(c) ==
  /\ pc[c] = "commit"
  /\ row' = IF exists THEN Transitioned(copy[c], "CANCELLED") ELSE row
  /\ Goto(c, "done")
  /\ UNCHANGED <<exists, broker, faults>>

(* The workflow's own AWAITING status goes to the status column ...        *)
OutcomeStoresAwaiting ==
  [COMPLETED |-> [status |-> "COMPLETED", result |-> "ok"],
   FAILED    |-> [status |-> "FAILED", result |-> "failed"],
   AWAITING  |-> [status |-> "AWAITING", result |-> "parked"]]

(* ... or whatever is not FAILED counts as COMPLETED.                      *)
OutcomeCompletesParked ==
  [OutcomeStoresAwaiting EXCEPT !.AWAITING.status = "COMPLETED"]

(* One retry too many.                                                     *)
DecideRetryOffByOne(w) ==
  /\ pc[w] = "failed"
  /\ IF exists
     THEN Read(w, IF row.retry <= row.max THEN "retry" ELSE "ack")
     ELSE Goto(w, "sync")
  /\ UNCHANGED <<database, broker, faults>>

(* The step to RETRYING bypasses the table.                                *)
CommitRetryUnchecked(w) ==
  /\ pc[w] = "retry"
  /\ IF exists
     THEN row' = Transitioned(copy[w], "RETRYING") /\ Goto(w, "retrying")
     ELSE UNCHANGED row /\ Goto(w, "sync")
  /\ UNCHANGED <<exists, broker, faults>>

(* Celery's refusal to retry is not reported to the failure handler.       *)
RepublishSilently(w) ==
  /\ pc[w] = "retrying"
  /\ IF exists /\ msg[w].retries < TaskMaxRetries
     THEN Publish([msg[w] EXCEPT !.retries = @ + 1]) ELSE UNCHANGED queue
  /\ Goto(w, "ack")
  /\ UNCHANGED <<database, revoked, msg, faults>>

(* The safety net does not look at the status it overwrites.               *)
SyncLoadUnchecked(w) ==
  /\ pc[w] = "sync"
  /\ Read(w, IF exists THEN "syncCommit" ELSE "ack")
  /\ UNCHANGED <<database, broker, faults>>

(* Messages are acknowledged when they are received.                       *)
CrashAfterEarlyAck(w) ==
  /\ pc[w] # "idle"
  /\ redelivered < MaxRedeliveries
  /\ redelivered' = redelivered + 1
  /\ Settle(w)
  /\ UNCHANGED <<database, queue, revoked, losses>>

(* No failure handler runs after the soft time limit.                      *)
SoftTimeLimitIgnored(w) ==
  /\ pc[w] = "workflow"
  /\ Goto(w, "ack")
  /\ UNCHANGED <<database, broker, faults>>

-----------------------------------------------------------------------------
(* The start request.                                                      *)

(* start_for_user, the read and the check: 404 without a row, 409 unless   *)
(* the copy may move to QUEUED.                                            *)
StartLoad(s) ==
  /\ pc[s] = "new"
  /\ Read(s, IF exists /\ Legal(row.status, "QUEUED") THEN "commit" ELSE "done")
  /\ UNCHANGED <<database, broker, faults>>

(* start_for_user, the commit.  A FAILED copy is archived and reset first; *)
(* the UPDATE carries retry_count only if the copy's was not already 0.    *)
StartCommit(s) ==
  /\ pc[s] = "commit"
  /\ IF exists
     THEN /\ row' = IF copy[s].status = "FAILED"
                    THEN [row EXCEPT !.status = "QUEUED",
                                     !.retry = IF copy[s].retry = 0 THEN @ ELSE 0,
                                     !.result = "history"]
                    ELSE Transitioned(copy[s], "QUEUED")
          /\ Goto(s, "enqueue")
     ELSE UNCHANGED row /\ Goto(s, "done")
  /\ UNCHANGED <<exists, broker, faults>>

(* The refresh after the commit, which needs the row, then apply_async.    *)
Enqueue(s) ==
  /\ pc[s] = "enqueue"
  /\ IF exists
     THEN Publish([task |-> s, retries |-> 0]) /\ Goto(s, "attach")
     ELSE UNCHANGED queue /\ Goto(s, "done")
  /\ UNCHANGED <<database, revoked, msg, faults>>

(* The broker is unreachable: 503, and the row stays QUEUED.               *)
EnqueueFails(s) ==
  /\ pc[s] = "enqueue"
  /\ Lose
  /\ Goto(s, "done")
  /\ UNCHANGED <<database, broker>>

(* attach_task_id, a commit of its own that writes celery_task_id only.    *)
AttachTaskId(s) ==
  /\ pc[s] = "attach"
  /\ row' = IF exists THEN [row EXCEPT !.task = s] ELSE row
  /\ Goto(s, "done")
  /\ UNCHANGED <<exists, broker, faults>>

-----------------------------------------------------------------------------
(* The cancel, patch and delete requests, and a request that dies.         *)

CancelLoad(c) ==
  /\ pc[c] = "new"
  /\ Read(c, IF exists THEN "revoke" ELSE "done")
  /\ UNCHANGED <<database, broker, faults>>

(* revoke_experiment_task with the id in the copy; nothing without an id.  *)
(* It comes before the transition is validated.                            *)
Revoke(c) ==
  /\ pc[c] = "revoke"
  /\ revoked' = revoked \cup ({copy[c].task} \ {NoTask})
  /\ Goto(c, "commit")
  /\ UNCHANGED <<database, queue, msg, faults>>

(* cancel_for_user reads the row again, but the session hands back the     *)
(* copy it already has: only the row's existence is new.  409 or commit.   *)
CancelCommit(c) ==
  /\ pc[c] = "commit"
  /\ row' = IF exists /\ Legal(copy[c].status, "CANCELLED")
            THEN Transitioned(copy[c], "CANCELLED") ELSE row
  /\ Goto(c, "done")
  /\ UNCHANGED <<exists, broker, faults>>

(* update_for_user with a new max_retries; status is not patchable.        *)
Patch(p) ==
  /\ pc[p] = "new"
  /\ \E limit \in RetryLimits :
       row' = IF exists THEN [row EXCEPT !.max = limit] ELSE row
  /\ Goto(p, "done")
  /\ UNCHANGED <<exists, broker, faults>>

(* delete_for_user, allowed in every status.                               *)
Delete(d) ==
  /\ pc[d] = "new"
  /\ exists' = FALSE
  /\ Goto(d, "done")
  /\ UNCHANGED <<row, broker, faults>>

(* The API process dies, or the client disconnects, between two steps.     *)
RequestDies(r) ==
  /\ pc[r] \notin {"new", "done"}
  /\ Lose
  /\ Goto(r, "done")
  /\ UNCHANGED <<database, broker>>

-----------------------------------------------------------------------------
(* The worker: _execute_async.                                             *)

(* The label of the transition the task makes next from a non-terminal     *)
(* status, of the workflow, or of the return without a run.                *)
Normalise(status) ==
  CASE status = "CREATED" -> "toQueued"
    [] status \in {"QUEUED", "RETRYING"} -> "toRunning"
    [] status = "RUNNING" -> "workflow"
    [] OTHER -> "ack"

(* A FAILED row with retries left is resumed; else FAILED is terminal.     *)
Entry(c) ==
  IF c.status = "FAILED"
  THEN IF c.retry >= c.max THEN "ack" ELSE "toRetrying"
  ELSE Normalise(c.status)

Target == [toRetrying |-> "RETRYING", toQueued |-> "QUEUED",
           toRunning |-> "RUNNING"]

(* Delivery of a message, and the load of the row.  A missing row ends it. *)
Receive(w, m) ==
  /\ pc[w] = "idle"
  /\ queue[m] > 0
  /\ queue' = [queue EXCEPT ![m] = @ - 1]
  /\ msg' = [msg EXCEPT ![w] = m]
  /\ Read(w, IF ~exists THEN "ack"
             ELSE IF row.task # m.task THEN "attachTask" ELSE Entry(row))
  /\ UNCHANGED <<database, revoked, faults>>

(* The task writes its own id on the row.  The copy is not refreshed.      *)
TaskAttachId(w) ==
  /\ pc[w] = "attachTask"
  /\ row' = IF exists THEN [row EXCEPT !.task = msg[w].task] ELSE row
  /\ Goto(w, IF exists THEN Entry(copy[w]) ELSE "sync")
  /\ UNCHANGED <<exists, broker, faults>>

(* FAILED -> RETRYING, CREATED -> QUEUED or QUEUED/RETRYING -> RUNNING, up *)
(* to the commit.  An UPDATE of a deleted row raises.                      *)
TaskTransition(w) ==
  /\ pc[w] \in DOMAIN Target
  /\ IF exists /\ Legal(copy[w].status, Target[pc[w]])
     THEN /\ row' = Transitioned(copy[w], Target[pc[w]])
          /\ Goto(w, IF pc[w] = "toRunning" THEN "started" ELSE "advanced")
     ELSE UNCHANGED row /\ Goto(w, "sync")
  /\ UNCHANGED <<exists, broker, faults>>

(* The refresh after that commit decides how the task goes on: after the   *)
(* step to RUNNING, only a row that is still RUNNING is executed.          *)
TaskRefresh(w) ==
  /\ pc[w] \in {"advanced", "started"}
  /\ IF exists
     THEN Read(w, IF pc[w] = "advanced" THEN Normalise(row.status)
                  ELSE IF row.status = "RUNNING" THEN "workflow" ELSE "ack")
     ELSE Goto(w, "sync")
  /\ UNCHANGED <<database, broker, faults>>

(* The workflow returns: the result and the status are one commit.         *)
Outcome ==
  [COMPLETED |-> [status |-> "COMPLETED", result |-> "ok"],
   FAILED    |-> [status |-> "FAILED", result |-> "failed"],
   AWAITING  |-> [status |-> "FAILED", result |-> "parked"]]

WorkflowReturns(w) ==
  /\ pc[w] = "workflow"
  /\ \E final \in DOMAIN Outcome :
       LET o == Outcome[final] IN
       IF exists
       THEN /\ row' = [Transitioned(copy[w], o.status) EXCEPT !.result = o.result]
            /\ Goto(w, IF final = "AWAITING" THEN "parked" ELSE "ack")
       ELSE UNCHANGED row /\ Goto(w, "sync")
  /\ UNCHANGED <<exists, broker, faults>>

(* After the commit of a parked run the task sets awaiting_dataset or      *)
(* awaiting_target on its copy.  No commit follows, so the session closes  *)
(* and nothing of it reaches the row.                                      *)
MarkAwaiting(w) ==
  /\ pc[w] = "parked"
  /\ Goto(w, IF exists THEN "ack" ELSE "sync")
  /\ UNCHANGED <<database, broker, faults>>

(* The workflow raises: _handle_workflow_error returns at once for a run   *)
(* that is known to wait for its target, and commits FAILED otherwise.     *)
WorkflowRaises(w) ==
  /\ pc[w] = "workflow"
  /\ IF copy[w].result = "awaiting"
     THEN UNCHANGED row /\ Goto(w, "ack")
     ELSE IF exists
     THEN row' = Transitioned(copy[w], "FAILED") /\ Goto(w, "failed")
     ELSE UNCHANGED row /\ Goto(w, "sync")
  /\ UNCHANGED <<exists, broker, faults>>

(* The refresh, and the choice to retry or to leave the run FAILED.        *)
DecideRetry(w) ==
  /\ pc[w] = "failed"
  /\ IF exists
     THEN Read(w, IF row.retry < row.max THEN "retry" ELSE "ack")
     ELSE Goto(w, "sync")
  /\ UNCHANGED <<database, broker, faults>>

(* FAILED -> RETRYING.  The refreshed copy may no longer be FAILED: 409.   *)
CommitRetry(w) ==
  /\ pc[w] = "retry"
  /\ IF exists /\ Legal(copy[w].status, "RETRYING")
     THEN row' = Transitioned(copy[w], "RETRYING") /\ Goto(w, "retrying")
     ELSE UNCHANGED row /\ Goto(w, "sync")
  /\ UNCHANGED <<exists, broker, faults>>

(* task.retry publishes the task again under its id, unless Celery's own   *)
(* bound is reached; then it raises the workflow's error instead.          *)
Republish(w) ==
  /\ pc[w] = "retrying"
  /\ IF exists /\ msg[w].retries < TaskMaxRetries
     THEN /\ Publish([msg[w] EXCEPT !.retries = @ + 1])
          /\ Goto(w, "ack")
     ELSE UNCHANGED queue /\ Goto(w, "sync")
  /\ UNCHANGED <<database, revoked, msg, faults>>

(* The message is acknowledged after the task has returned or raised.      *)
Ack(w) ==
  /\ pc[w] = "ack"
  /\ Settle(w)
  /\ UNCHANGED <<database, queue, revoked, faults>>

-----------------------------------------------------------------------------
(* The worker: the safety net, and the ways an execution ends early.       *)

(* _sync_failure_best_effort, the read: finished rows are left alone.      *)
SyncLoad(w) ==
  /\ pc[w] = "sync"
  /\ Read(w, IF exists /\ row.status \notin Terminal \cup {"FAILED"}
             THEN "syncCommit" ELSE "ack")
  /\ UNCHANGED <<database, broker, faults>>

(* ... and the write, which does not go through the table.                 *)
SyncCommit(w) ==
  /\ pc[w] = "syncCommit"
  /\ row' = IF exists THEN [row EXCEPT !.status = "FAILED"] ELSE row
  /\ Goto(w, "ack")
  /\ UNCHANGED <<exists, broker, faults>>

(* The soft time limit cancels the coroutine; only on_failure still runs.  *)
SoftTimeLimit(w) ==
  /\ pc[w] = "workflow"
  /\ Goto(w, "sync")
  /\ UNCHANGED <<database, broker, faults>>

(* The hard limit kills the execution; its message is acknowledged.        *)
HardTimeLimit(w) ==
  /\ pc[w] = "workflow"
  /\ Lose
  /\ Settle(w)
  /\ UNCHANGED <<database, queue, revoked>>

(* The broker is unreachable when task.retry publishes: Celery rejects the *)
(* message without requeueing it.                                          *)
RepublishFails(w) ==
  /\ pc[w] = "retrying"
  /\ Lose
  /\ Settle(w)
  /\ UNCHANGED <<database, queue, revoked>>

Redelivery(w) ==
  /\ pc[w] # "idle"
  /\ redelivered < MaxRedeliveries
  /\ redelivered' = redelivered + 1
  /\ Publish(msg[w])
  /\ UNCHANGED <<database, revoked, losses>>

(* The worker is lost; late acknowledgement redelivers the message.        *)
Crash(w) == Redelivery(w) /\ Settle(w)

(* The broker's visibility timeout redelivers a message that is still      *)
(* being executed: nothing in the configuration raises it above the time   *)
(* limits, which the default (solo) pool does not enforce.                 *)
VisibilityTimeout(w) == Redelivery(w) /\ UNCHANGED <<pc, copy, msg>>

(* A revoked task is terminated where it runs, or discarded on delivery.   *)
Terminate(w) ==
  /\ msg[w].task \in revoked
  /\ Settle(w)
  /\ UNCHANGED <<database, queue, revoked, faults>>

Discard(m) ==
  /\ m.task \in revoked
  /\ queue[m] > 0
  /\ queue' = [queue EXCEPT ![m] = @ - 1]
  /\ UNCHANGED <<database, revoked, pc, copy, msg, faults>>

-----------------------------------------------------------------------------
StartStep(s) ==
  \/ StartLoad(s) \/ StartCommit(s) \/ Enqueue(s) \/ AttachTaskId(s)

CancelStep(c) == CancelLoad(c) \/ Revoke(c) \/ CancelCommit(c)

(* The steps of a task that go on by themselves once it is delivered.      *)
TaskStep(w) ==
  \/ TaskAttachId(w) \/ TaskTransition(w) \/ TaskRefresh(w)
  \/ WorkflowReturns(w) \/ MarkAwaiting(w) \/ WorkflowRaises(w)
  \/ DecideRetry(w) \/ CommitRetry(w) \/ Republish(w)
  \/ SyncLoad(w) \/ SyncCommit(w) \/ Ack(w)

Next ==
  \/ \E s \in Starts : StartStep(s) \/ EnqueueFails(s)
  \/ \E c \in Cancels : CancelStep(c)
  \/ \E p \in Patches : Patch(p)
  \/ \E d \in Deletes : Delete(d)
  \/ \E r \in Requests : RequestDies(r)
  \/ \E w \in Workers :
       \/ TaskStep(w)
       \/ \E m \in Message : Receive(w, m)
       \/ SoftTimeLimit(w) \/ HardTimeLimit(w) \/ RepublishFails(w)
       \/ Crash(w) \/ VisibilityTimeout(w) \/ Terminate(w)
  \/ \E m \in Message : Discard(m)

Spec == Init /\ [][Next]_vars

(* Requests that were accepted run to their end, messages that are ready   *)
(* are delivered to a free worker, and workers do not stop in the middle.  *)
Fairness ==
  /\ \A s \in Starts : WF_vars(pc[s] # "new" /\ StartStep(s))
  /\ \A w \in Workers : WF_vars(TaskStep(w))
  /\ WF_vars(\E w \in Workers, m \in Message : Receive(w, m))

FairSpec == Spec /\ Fairness


-----------------------------------------------------------------------------
(* Properties.                                                             *)

Labels == {"new", "commit", "enqueue", "attach", "revoke", "done", "idle",
           "attachTask", "toRetrying", "toQueued", "toRunning", "advanced", "started",
           "workflow", "parked", "failed", "retry", "retrying", "sync",
           "syncCommit", "ack"}

(* Every variable has its type.                                            *)
TypeOK ==
  /\ exists \in BOOLEAN
  /\ row \in Row
  /\ queue \in [Message -> Nat]
  /\ revoked \subseteq Starts
  /\ pc \in [Actors -> Labels]
  /\ copy \in [Actors -> Row]
  /\ msg \in [Workers -> Message \cup {NoMessage}]
  /\ redelivered \in 0 .. MaxRedeliveries
  /\ losses \in 0 .. MaxLosses

(* The actor will decide what to write on the strength of a copy it took  *)
(* when the experiment was not finished.                                   *)
StaleWriter(a) == pc[a] \in UsesCopy /\ copy[a].status \notin Terminal

Finished == row.status \in Terminal /\ \A a \in Actors : ~StaleWriter(a)

(* Once an experiment is finished and nobody acts on a copy of the row     *)
(* from before, it stays finished for good, whatever is still delivered,   *)
(* redelivered, retried or requested.  Every place that reads the row      *)
(* again (the skips at the top of _execute_async, the refresh before a     *)
(* retry, the safety net, the requests) must respect what it finds.        *)
FinishedIsFinalOnceSeen ==
  [][Finished => Finished' /\ row'.status = row.status]_vars

(* The worker is bound to take the active run further: whatever it finds   *)
(* next, it executes the run, marks it FAILED or publishes its task again. *)
(* A task that has just stepped to RUNNING gives up when it finds another  *)
(* status, and one that has committed an outcome is through with the run.  *)
Carries(w) ==
  \/ pc[w] \in {"toRetrying", "toQueued", "toRunning", "advanced", "workflow",
                "retry", "retrying", "sync", "syncCommit"}
  \/ pc[w] = "started" /\ row.status = "RUNNING"
  \/ pc[w] = "attachTask" /\ Entry(copy[w]) # "ack"

HasCarrier ==
  \/ \E m \in Message : queue[m] > 0
  \/ \E w \in Workers : Carries(w)
  \/ \E s \in Starts : pc[s] = "enqueue"

(* A run that a client sees as active is never orphaned: its task is       *)
(* queued, executing, or about to be published, through every crash,       *)
(* redelivery, retry and overlap of two executions, unless a message was   *)
(* lost or a task revoked.                                                 *)
ActiveHasCarrier ==
  (exists /\ row.status \in Active /\ losses = 0 /\ revoked = {}) => HasCarrier

(* The retry counter stays within the largest max_retries the experiment   *)
(* was ever allowed, although the increments come from copies.             *)
RetryWithinLimit == \E limit \in RetryLimits : row.retry <= limit

(* COMPLETED rows carry the result of a workflow that succeeded.  Another  *)
(* execution of the run, a restart or the safety net never leaves the      *)
(* status of one outcome with the result of another.                       *)
CompletedHasItsResult == row.status = "COMPLETED" => row.result = "ok"

(* Every accepted run comes to rest and its messages are consumed.         *)
AtRest ==
  /\ exists => row.status \notin Active
  /\ \A m \in Message : queue[m] = 0
  /\ \A w \in Workers : pc[w] = "idle"

EventuallyAtRest == <>[]AtRest

-----------------------------------------------------------------------------
(* Executions that do not overlap: an actor begins only when every other   *)
(* actor is between two operations.                                        *)

Resting(a) == pc[a] \in {"new", "done", "idle"}

SerialNext ==
  /\ Next
  /\ \A a \in Actors : (Resting(a) /\ ~Resting(a)')
                          => \A b \in Actors \ {a} : Resting(b)

SerialSpec == Init /\ [][SerialNext]_vars

Abstract == INSTANCE Lifecycle WITH status <- row.status

(* Without overlap the status column follows the documented lifecycle.     *)
FollowsLifecycle == Abstract!LSpec

(* Without overlap a finished experiment stays finished; with overlap it   *)
(* may not.                                                                *)
FinishedIsFinal == [][row.status \in Terminal => row'.status = row.status]_row

(* Without overlap every automatic retry costs one unit of the budget, and *)
(* the budget is given back by a manual restart only.                      *)
RetriesAreCounted ==
  [][/\ (row.status # "RETRYING" /\ row'.status = "RETRYING")
           => row'.retry = row.retry + 1
     /\ row'.retry < row.retry => row'.status = "QUEUED"]_row

-----------------------------------------------------------------------------
(* What documents and comments of the repository say, and the code does    *)
(* not do.                                                                 *)

(* tasks.py: after a cancel the task is a no-op.  No step of a worker puts *)
(* a cancelled run back to RUNNING.                                        *)
CancelledIsNotRun == [][row.status = "CANCELLED" => row'.status # "RUNNING"]_row

(* flow.md: a parked run is persisted with result_summary.awaiting_dataset.*)
(* Once its task is over, no parked run is left without the flag.          *)
ParkedSaysWhy ==
  (\A w \in Workers : pc[w] = "idle") => row.result # "parked"

(* enqueue_experiment: a row left QUEUED by a broker failure can be        *)
(* re-triggered, that is, a start request would accept it.                 *)
StrandedCanRestart ==
  (exists /\ row.status = "QUEUED" /\ ~HasCarrier) => Legal(row.status, "QUEUED")

=============================================================================
