------------------------- MODULE ExperimentRunProofs -------------------------
(***************************************************************************)
(* Proofs about ExperimentRun, for any number of requests and workers, any *)
(* retry limits and any number of faults.                                  *)
(***************************************************************************)
EXTENDS ExperimentRun, TLAPS

-----------------------------------------------------------------------------
(* Type correctness.                                                       *)

(* A row read, and the copy the model keeps instead of a useless one, are  *)
(* rows.                                                                   *)
LEMMA NoCopyType == NoCopy \in Row
  BY DEF NoCopy, Row, Statuses, Tasks, Results

(* Going to a label, with any row as the copy, keeps the types and touches *)
(* no other actor.                                                         *)
LEMMA GoWithStep ==
  ASSUME TypeOK, NEW a \in Actors, NEW label \in Labels, NEW c \in Row,
         GoWith(a, label, c)
  PROVE  /\ pc' \in [Actors -> Labels]
         /\ copy' \in [Actors -> Row]
         /\ pc'[a] = label
         /\ label \in UsesCopy => copy'[a] = c
         /\ \A b \in Actors \ {a} : pc'[b] = pc[b] /\ copy'[b] = copy[b]
  BY NoCopyType DEF TypeOK, GoWith

(* A transition writes a row.                                              *)
LEMMA TransitionedType ==
  ASSUME TypeOK, NEW c \in Row, NEW to \in Statuses
  PROVE  Transitioned(c, to) \in Row
  <1>1. c.retry + 1 \in Nat
    BY DEF Row
  <1>2. row \in Row
    BY DEF TypeOK
  <1> DEFINE n == IF to = "RETRYING" THEN c.retry + 1 ELSE row.retry
  <1>3. n \in Nat
    BY <1>1, <1>2 DEF Row
  <1> HIDE DEF n
  <1>4. [row EXCEPT !.status = to, !.retry = n] \in Row
    BY <1>2, <1>3 DEF Row
  <1> QED
    BY <1>4 DEF Transitioned, n

(* Publishing keeps the type of the queue.                                 *)
LEMMA PublishType ==
  ASSUME TypeOK, NEW m, Publish(m)
  PROVE  queue' \in [Message -> Nat]
  <1>1. queue \in [Message -> Nat]
    BY DEF TypeOK
  <1>2. CASE m \in Message
    BY <1>1, <1>2 DEF Publish
  <1>3. CASE m \notin Message
    BY <1>1, <1>3, queue' = queue DEF Publish
  <1> QED
    BY <1>2, <1>3

(* The labels Normalise can yield.                                         *)
LEMMA NormaliseLabels ==
  ASSUME NEW status
  PROVE  Normalise(status) \in {"toQueued", "toRunning", "workflow", "ack"}
  BY DEF Normalise

(* The labels at which a task can enter its work.                          *)
LEMMA EntryLabels ==
  ASSUME NEW c
  PROVE  Entry(c) \in {"toRetrying", "toQueued", "toRunning", "workflow", "ack"}
  BY NormaliseLabels DEF Entry

(* The initial states have the types.                                      *)
LEMMA InitType == Init => TypeOK
  <1> SUFFICES ASSUME Init PROVE TypeOK
    OBVIOUS
  <1> USE BoundsAssumption DEF Init
  <1>1. row \in Row
    <2>1. PICK limit \in RetryLimits :
            row = [status |-> "CREATED", retry |-> 0, max |-> limit,
                   task |-> NoTask, result |-> "empty"]
      OBVIOUS
    <2> QED
      BY <2>1 DEF Row, Statuses, Tasks, Results
  <1>2. pc \in [Actors -> Labels]
    BY DEF Labels
  <1>3. copy \in [Actors -> Row]
    BY NoCopyType
  <1>4. queue \in [Message -> Nat] /\ msg \in [Workers -> Message \cup {NoMessage}]
    OBVIOUS
  <1>5. redelivered \in 0 .. MaxRedeliveries /\ losses \in 0 .. MaxLosses
    OBVIOUS
  <1>6. exists \in BOOLEAN /\ revoked \subseteq Starts
    OBVIOUS
  <1> QED
    BY <1>1, <1>2, <1>3, <1>4, <1>5, <1>6 DEF TypeOK

(* The same for the two ways of moving on.                                 *)
LEMMA GotoStep ==
  ASSUME TypeOK, NEW a \in Actors, NEW label \in Labels, Goto(a, label)
  PROVE  /\ pc' \in [Actors -> Labels]
         /\ copy' \in [Actors -> Row]
         /\ pc'[a] = label
         /\ label \in UsesCopy => copy'[a] = copy[a]
         /\ \A b \in Actors \ {a} : pc'[b] = pc[b] /\ copy'[b] = copy[b]
  <1>1. copy[a] \in Row
    BY DEF TypeOK
  <1> QED
    BY <1>1, GoWithStep DEF Goto

(* Reading the row keeps the types and touches no other actor.             *)
LEMMA ReadStep ==
  ASSUME TypeOK, NEW a \in Actors, NEW label \in Labels, Read(a, label)
  PROVE  /\ pc' \in [Actors -> Labels]
         /\ copy' \in [Actors -> Row]
         /\ pc'[a] = label
         /\ label \in UsesCopy => copy'[a] = row
         /\ \A b \in Actors \ {a} : pc'[b] = pc[b] /\ copy'[b] = copy[b]
  <1>1. row \in Row
    BY DEF TypeOK
  <1> QED
    BY <1>1, GoWithStep DEF Read

(* The requests keep the types.                                            *)
LEMMA RequestType ==
  ASSUME TypeOK,
         \/ \E s \in Starts : StartStep(s) \/ EnqueueFails(s)
         \/ \E c \in Cancels : CancelStep(c)
         \/ \E p \in Patches : Patch(p)
         \/ \E d \in Deletes : Delete(d)
         \/ \E r \in Requests : RequestDies(r)
  PROVE  TypeOK'
  <1> USE DEF database, broker, faults
  <1>1. ASSUME NEW s \in Starts, StartLoad(s) PROVE TypeOK'
    <2>1. s \in Actors
      BY DEF Actors, Requests
    <2>2. (IF exists /\ Legal(row.status, "QUEUED") THEN "commit" ELSE "done")
             \in Labels
      BY DEF Labels
    <2>3. pc' \in [Actors -> Labels] /\ copy' \in [Actors -> Row]
      BY <1>1, <2>1, <2>2, ReadStep DEF StartLoad
    <2> QED
      BY <1>1, <2>3 DEF StartLoad, TypeOK
  <1>2. ASSUME NEW s \in Starts, StartCommit(s) PROVE TypeOK'
    <2>1. s \in Actors
      BY DEF Actors, Requests
    <2>2. "enqueue" \in Labels /\ "done" \in Labels
      BY DEF Labels
    <2>3. pc' \in [Actors -> Labels] /\ copy' \in [Actors -> Row]
      BY <1>2, <2>1, <2>2, GotoStep DEF StartCommit
    <2>4. row' \in Row
      <3>1. copy[s] \in Row /\ row \in Row
        BY <2>1 DEF TypeOK
      <3>2. Transitioned(copy[s], "QUEUED") \in Row
        BY <3>1, TransitionedType DEF Statuses
      <3> DEFINE n == IF copy[s].retry = 0 THEN row.retry ELSE 0
      <3>3. n \in Nat
        BY <3>1 DEF Row
      <3> HIDE DEF n
      <3>4. [row EXCEPT !.status = "QUEUED", !.retry = n, !.result = "history"]
              \in Row
        BY <3>1, <3>3 DEF Row, Statuses, Results
      <3> QED
        BY <1>2, <3>1, <3>2, <3>4 DEF StartCommit, n
    <2> QED
      BY <1>2, <2>3, <2>4 DEF StartCommit, TypeOK
  <1>3. ASSUME NEW s \in Starts, Enqueue(s) PROVE TypeOK'
    <2>1. s \in Actors
      BY DEF Actors, Requests
    <2>2. "attach" \in Labels /\ "done" \in Labels
      BY DEF Labels
    <2>3. pc' \in [Actors -> Labels] /\ copy' \in [Actors -> Row]
      BY <1>3, <2>1, <2>2, GotoStep DEF Enqueue
    <2>4. queue' \in [Message -> Nat]
      BY <1>3, PublishType DEF Enqueue, TypeOK
    <2> QED
      BY <1>3, <2>3, <2>4 DEF Enqueue, TypeOK
  <1>4. ASSUME NEW r \in Requests, EnqueueFails(r) \/ RequestDies(r) PROVE TypeOK'
    <2>1. r \in Actors /\ "done" \in Labels
      BY DEF Actors, Labels
    <2>2. pc' \in [Actors -> Labels] /\ copy' \in [Actors -> Row]
      BY <1>4, <2>1, GotoStep DEF EnqueueFails, RequestDies
    <2>3. losses' \in 0 .. MaxLosses /\ redelivered' = redelivered
      BY <1>4, BoundsAssumption DEF EnqueueFails, RequestDies, Lose, TypeOK
    <2> QED
      BY <1>4, <2>2, <2>3 DEF EnqueueFails, RequestDies, TypeOK
  <1>5. ASSUME NEW s \in Starts, AttachTaskId(s) PROVE TypeOK'
    <2>1. s \in Actors /\ "done" \in Labels
      BY DEF Actors, Requests, Labels
    <2>2. pc' \in [Actors -> Labels] /\ copy' \in [Actors -> Row]
      BY <1>5, <2>1, GotoStep DEF AttachTaskId
    <2>3. row' \in Row
      BY <1>5 DEF AttachTaskId, TypeOK, Row, Tasks
    <2> QED
      BY <1>5, <2>2, <2>3 DEF AttachTaskId, TypeOK
  <1>6. ASSUME NEW c \in Cancels, CancelStep(c) PROVE TypeOK'
    <2>1. c \in Actors /\ {"revoke", "commit", "done"} \subseteq Labels
      BY DEF Actors, Requests, Labels
    <2>2. pc' \in [Actors -> Labels] /\ copy' \in [Actors -> Row]
      <3>1. CASE CancelLoad(c)
        BY <2>1, <3>1, ReadStep DEF CancelLoad
      <3>2. CASE Revoke(c) \/ CancelCommit(c)
        BY <2>1, <3>2, GotoStep DEF Revoke, CancelCommit
      <3> QED
        BY <1>6, <3>1, <3>2 DEF CancelStep
    <2>3. copy[c] \in Row
      BY <2>1 DEF TypeOK
    <2>4. row' \in Row
      BY <1>6, <2>3, TransitionedType
         DEF CancelStep, CancelLoad, Revoke, CancelCommit, TypeOK, Statuses
    <2>5. revoked' \subseteq Starts
      BY <1>6, <2>3 DEF CancelStep, CancelLoad, Revoke, CancelCommit, TypeOK,
                        Row, Tasks
    <2> QED
      BY <1>6, <2>2, <2>4, <2>5
         DEF CancelStep, CancelLoad, Revoke, CancelCommit, TypeOK
  <1>7. ASSUME NEW p \in Patches, Patch(p) PROVE TypeOK'
    <2>1. p \in Actors /\ "done" \in Labels
      BY DEF Actors, Requests, Labels
    <2>2. pc' \in [Actors -> Labels] /\ copy' \in [Actors -> Row]
      BY <1>7, <2>1, GotoStep DEF Patch
    <2>3. row' \in Row
      BY <1>7, BoundsAssumption DEF Patch, TypeOK, Row
    <2> QED
      BY <1>7, <2>2, <2>3 DEF Patch, TypeOK
  <1>8. ASSUME NEW d \in Deletes, Delete(d) PROVE TypeOK'
    <2>1. d \in Actors /\ "done" \in Labels
      BY DEF Actors, Requests, Labels
    <2>2. pc' \in [Actors -> Labels] /\ copy' \in [Actors -> Row]
      BY <1>8, <2>1, GotoStep DEF Delete
    <2> QED
      BY <1>8, <2>2 DEF Delete, TypeOK
  <1> QED
    BY <1>1, <1>2, <1>3, <1>4, <1>5, <1>6, <1>7, <1>8 DEF StartStep, Requests

(* The labels a worker may go to from each of its branching steps.         *)
LEMMA WorkerLabels ==
  /\ {"idle", "ack", "attachTask", "toRetrying", "toQueued", "toRunning",
      "advanced", "started", "workflow", "parked", "failed", "retry",
      "retrying", "sync", "syncCommit"} \subseteq Labels
  /\ \A c : Entry(c) \in Labels
  /\ \A status : Normalise(status) \in Labels
  BY EntryLabels, NormaliseLabels DEF Labels

(* The steps of a task keep the types.                                     *)
LEMMA TaskType ==
  ASSUME TypeOK, NEW w \in Workers, TaskStep(w)
  PROVE  TypeOK'
  <1> USE WorkerLabels DEF database, broker, faults
  <1>w. w \in Actors
    BY DEF Actors
  <1>c. copy[w] \in Row /\ row \in Row /\ msg[w] \in Message \cup {NoMessage}
    BY <1>w DEF TypeOK
  <1>1. CASE TaskAttachId(w)
    <2>1. pc' \in [Actors -> Labels] /\ copy' \in [Actors -> Row]
      BY <1>1, <1>w, GotoStep DEF TaskAttachId
    <2>2. msg[w].task \in Tasks
      BY <1>c DEF Message, NoMessage, Tasks
    <2>3. row' \in Row
      BY <1>1, <1>c, <2>2 DEF TaskAttachId, Row
    <2> QED
      BY <1>1, <2>1, <2>3 DEF TaskAttachId, TypeOK
  <1>2. CASE TaskTransition(w)
    <2>1. pc' \in [Actors -> Labels] /\ copy' \in [Actors -> Row]
      BY <1>2, <1>w, GotoStep DEF TaskTransition
    <2>2. Target[pc[w]] \in Statuses
      BY <1>2 DEF TaskTransition, Target, Statuses
    <2>3. row' \in Row
      BY <1>2, <1>c, <2>2, TransitionedType DEF TaskTransition
    <2> QED
      BY <1>2, <2>1, <2>3 DEF TaskTransition, TypeOK
  <1>3. CASE TaskRefresh(w)
    <2>1. pc' \in [Actors -> Labels] /\ copy' \in [Actors -> Row]
      BY <1>3, <1>w, GotoStep, ReadStep DEF TaskRefresh
    <2> QED
      BY <1>3, <2>1 DEF TaskRefresh, TypeOK
  <1>4. CASE WorkflowReturns(w)
    <2>1. PICK final \in DOMAIN Outcome :
            IF exists
            THEN /\ row' = [Transitioned(copy[w], Outcome[final].status)
                              EXCEPT !.result = Outcome[final].result]
                 /\ Goto(w, IF final = "AWAITING" THEN "parked" ELSE "ack")
            ELSE UNCHANGED row /\ Goto(w, "sync")
      BY <1>4 DEF WorkflowReturns
    <2>2. pc' \in [Actors -> Labels] /\ copy' \in [Actors -> Row]
      BY <1>w, <2>1, GotoStep
    <2>3. Outcome[final].status \in Statuses /\ Outcome[final].result \in Results
      BY DEF Outcome, Statuses, Results
    <2>4. Transitioned(copy[w], Outcome[final].status) \in Row
      BY <1>c, <2>3, TransitionedType
    <2>5. row' \in Row
      BY <1>c, <2>1, <2>3, <2>4 DEF Row
    <2> QED
      BY <1>4, <2>2, <2>5 DEF WorkflowReturns, TypeOK
  <1>5. CASE MarkAwaiting(w) \/ Ack(w)
    <2>1. pc' \in [Actors -> Labels] /\ copy' \in [Actors -> Row]
      BY <1>5, <1>w, GotoStep DEF MarkAwaiting, Ack, Settle
    <2> QED
      BY <1>5, <2>1 DEF MarkAwaiting, Ack, Settle, TypeOK
  <1>6. CASE WorkflowRaises(w) \/ CommitRetry(w)
    <2>1. pc' \in [Actors -> Labels] /\ copy' \in [Actors -> Row]
      BY <1>6, <1>w, GotoStep DEF WorkflowRaises, CommitRetry
    <2>2. row' \in Row
      BY <1>6, <1>c, TransitionedType DEF WorkflowRaises, CommitRetry, Statuses
    <2> QED
      BY <1>6, <2>1, <2>2 DEF WorkflowRaises, CommitRetry, TypeOK
  <1>7. CASE DecideRetry(w) \/ SyncLoad(w)
    <2>1. pc' \in [Actors -> Labels] /\ copy' \in [Actors -> Row]
      BY <1>7, <1>w, GotoStep, ReadStep DEF DecideRetry, SyncLoad
    <2> QED
      BY <1>7, <2>1 DEF DecideRetry, SyncLoad, TypeOK
  <1>8. CASE Republish(w)
    <2>1. pc' \in [Actors -> Labels] /\ copy' \in [Actors -> Row]
      BY <1>8, <1>w, GotoStep DEF Republish
    <2>2. queue' \in [Message -> Nat]
      BY <1>8, PublishType DEF Republish, TypeOK
    <2> QED
      BY <1>8, <2>1, <2>2 DEF Republish, TypeOK
  <1>9. CASE SyncCommit(w)
    <2>1. pc' \in [Actors -> Labels] /\ copy' \in [Actors -> Row]
      BY <1>9, <1>w, GotoStep DEF SyncCommit
    <2>2. row' \in Row
      BY <1>9, <1>c DEF SyncCommit, Row, Statuses
    <2> QED
      BY <1>9, <2>1, <2>2 DEF SyncCommit, TypeOK
  <1> QED
    BY <1>1, <1>2, <1>3, <1>4, <1>5, <1>6, <1>7, <1>8, <1>9 DEF TaskStep

(* So do the deliveries, the time limits and the faults of the workers.    *)
LEMMA DeliveryType ==
  ASSUME TypeOK,
         \/ \E w \in Workers :
              \/ \E m \in Message : Receive(w, m)
              \/ SoftTimeLimit(w) \/ HardTimeLimit(w) \/ RepublishFails(w)
              \/ Crash(w) \/ VisibilityTimeout(w) \/ Terminate(w)
         \/ \E m \in Message : Discard(m)
  PROVE  TypeOK'
  <1> USE WorkerLabels DEF database, broker, faults
  <1>1. ASSUME NEW w \in Workers, NEW m \in Message, Receive(w, m) PROVE TypeOK'
    <2>1. w \in Actors
      BY DEF Actors
    <2>2. pc' \in [Actors -> Labels] /\ copy' \in [Actors -> Row]
      BY <1>1, <2>1, ReadStep DEF Receive
    <2>3. queue' \in [Message -> Nat] /\ msg' \in [Workers -> Message \cup {NoMessage}]
      BY <1>1 DEF Receive, TypeOK
    <2> QED
      BY <1>1, <2>2, <2>3 DEF Receive, TypeOK
  <1>2. ASSUME NEW w \in Workers,
               SoftTimeLimit(w) \/ HardTimeLimit(w) \/ RepublishFails(w) \/ Terminate(w)
        PROVE  TypeOK'
    <2>1. w \in Actors
      BY DEF Actors
    <2>2. pc' \in [Actors -> Labels] /\ copy' \in [Actors -> Row]
      BY <1>2, <2>1, GotoStep
         DEF SoftTimeLimit, HardTimeLimit, RepublishFails, Terminate, Settle
    <2>3. msg' \in [Workers -> Message \cup {NoMessage}]
      BY <1>2 DEF SoftTimeLimit, HardTimeLimit, RepublishFails, Terminate, Settle,
                  TypeOK
    <2>4. losses' \in 0 .. MaxLosses /\ redelivered' = redelivered
      BY <1>2, BoundsAssumption
         DEF SoftTimeLimit, HardTimeLimit, RepublishFails, Terminate, Lose, TypeOK
    <2> QED
      BY <1>2, <2>2, <2>3, <2>4
         DEF SoftTimeLimit, HardTimeLimit, RepublishFails, Terminate, TypeOK
  <1>3. ASSUME NEW w \in Workers, Crash(w) \/ VisibilityTimeout(w) PROVE TypeOK'
    <2>1. w \in Actors
      BY DEF Actors
    <2>2. pc' \in [Actors -> Labels] /\ copy' \in [Actors -> Row]
      BY <1>3, <2>1, GotoStep DEF Crash, VisibilityTimeout, Settle, TypeOK
    <2>3. msg' \in [Workers -> Message \cup {NoMessage}]
      BY <1>3 DEF Crash, VisibilityTimeout, Settle, TypeOK
    <2>4. queue' \in [Message -> Nat]
      BY <1>3, PublishType DEF Crash, VisibilityTimeout, Redelivery
    <2>5. redelivered' \in 0 .. MaxRedeliveries /\ losses' = losses
      BY <1>3, BoundsAssumption DEF Crash, VisibilityTimeout, Redelivery, TypeOK
    <2> QED
      BY <1>3, <2>2, <2>3, <2>4, <2>5
         DEF Crash, VisibilityTimeout, Redelivery, TypeOK
  <1>4. ASSUME NEW m \in Message, Discard(m) PROVE TypeOK'
    <2>1. queue' \in [Message -> Nat]
      BY <1>4 DEF Discard, TypeOK
    <2> QED
      BY <1>4, <2>1 DEF Discard, TypeOK
  <1> QED
    BY <1>1, <1>2, <1>3, <1>4

(* Every step keeps the types.                                             *)
LEMMA NextType == TypeOK /\ [Next]_vars => TypeOK'
  <1> SUFFICES ASSUME TypeOK, [Next]_vars PROVE TypeOK'
    OBVIOUS
  <1>1. CASE UNCHANGED vars
    BY <1>1 DEF vars, TypeOK
  <1>2. CASE Next
    BY <1>2, RequestType, TaskType, DeliveryType DEF Next
  <1> QED
    BY <1>1, <1>2

(* Every variable of every reachable state has its type: in particular no  *)
(* message is delivered that is not there, and only statuses of the        *)
(* lifecycle reach the row.                                                *)
THEOREM TypeCorrect == Spec => []TypeOK
  BY InitType, NextType, PTL DEF Spec

-----------------------------------------------------------------------------
(* The inductive invariant.  An action is checked against the actor's own  *)
(* copy, so what has to be known of the row is known of every copy whose   *)
(* label says that it is still going to be used.                           *)

Within(n) == \E limit \in RetryLimits : n <= limit

(* What a copy c satisfies when actor a is at label with it.               *)
Fits(a, label, c) ==
  label \in UsesCopy =>
    /\ c.max \in RetryLimits
    /\ Within(c.retry)
    /\ c.result # "awaiting"
    /\ label \in {"retry", "toRetrying"} => c.retry < c.max
    /\ label = "commit" /\ a \in Starts => Legal(c.status, "QUEUED")
    /\ label = "workflow" => c.status = "RUNNING"
    /\ label = "syncCommit" => c.status \notin Terminal

CopiesFit == \A a \in Actors : Fits(a, pc[a], copy[a])

RowFits ==
  /\ row.max \in RetryLimits
  /\ Within(row.retry)
  /\ row.result # "awaiting"
  /\ CompletedHasItsResult

HoldsMessage == \A w \in Workers : pc[w] # "idle" => msg[w] \in Message

IInv == TypeOK /\ CopiesFit /\ RowFits /\ HoldsMessage

(* The initial states satisfy it.                                          *)
LEMMA InitIInv == Init => IInv
  <1> SUFFICES ASSUME Init PROVE IInv
    OBVIOUS
  <1>1. CopiesFit
    <2>1. \A a \in Actors : pc[a] \notin UsesCopy
      BY DEF Init, UsesCopy
    <2> QED
      BY <2>1 DEF CopiesFit, Fits
  <1>2. RowFits
    <2>1. row.max \in RetryLimits /\ row.retry = 0 /\ row.result = "empty"
            /\ row.status = "CREATED"
      BY DEF Init
    <2>2. row.max \in Nat
      BY <2>1, BoundsAssumption
    <2>3. Within(row.retry)
      BY <2>1, <2>2 DEF Within
    <2>4. CompletedHasItsResult
      BY <2>1 DEF CompletedHasItsResult
    <2> QED
      BY <2>1, <2>3, <2>4 DEF RowFits
  <1>3. HoldsMessage
    BY DEF Init, HoldsMessage, Actors
  <1> QED
    BY <1>1, <1>2, <1>3, InitType DEF IInv

(* An actor that goes on with a copy fit for its label leaves all copies   *)
(* fit, the messages where they are, and nobody else anywhere else.        *)
LEMMA GoWithFits ==
  ASSUME IInv, NEW a \in Actors, NEW label \in Labels, NEW c \in Row,
         GoWith(a, label, c), Fits(a, label, c)
  PROVE  CopiesFit'
  <1>1. TypeOK
    BY DEF IInv
  <1>2. ASSUME NEW b \in Actors PROVE Fits(b, pc'[b], copy'[b])
    <2>1. CASE b = a
      BY <1>1, <2>1, GoWithStep DEF Fits
    <2>2. CASE b # a
      <3>1. pc'[b] = pc[b] /\ copy'[b] = copy[b]
        BY <1>1, <2>2, GoWithStep
      <3> QED
        BY <3>1 DEF IInv, CopiesFit
    <2> QED
      BY <2>1, <2>2
  <1> QED
    BY <1>2 DEF CopiesFit, Fits

(* Going on with the same copy keeps the copies fitting.                   *)
LEMMA GotoFits ==
  ASSUME IInv, NEW a \in Actors, NEW label \in Labels, Goto(a, label),
         Fits(a, label, copy[a])
  PROVE  CopiesFit'
  <1>1. copy[a] \in Row
    BY DEF IInv, TypeOK
  <1> QED
    BY <1>1, GoWithFits DEF Goto

(* So does going on with the row, when the row fits the label.             *)
LEMMA ReadFits ==
  ASSUME IInv, NEW a \in Actors, NEW label \in Labels, Read(a, label),
         Fits(a, label, row)
  PROVE  CopiesFit'
  <1>1. row \in Row
    BY DEF IInv, TypeOK
  <1> QED
    BY <1>1, GoWithFits DEF Read

(* A label at which no copy is used fits any copy.                         *)
LEMMA UnusedFits ==
  ASSUME NEW a, NEW label, NEW c, label \notin UsesCopy
  PROVE  Fits(a, label, c)
  BY DEF Fits

(* A worker that stays busy, or settles, keeps the messages in order.      *)
LEMMA BusyHolds ==
  ASSUME IInv, NEW w \in Workers, NEW label \in Labels, pc[w] # "idle",
         Goto(w, label) \/ Read(w, label), UNCHANGED msg
  PROVE  HoldsMessage'
  <1>1. w \in Actors /\ Workers \subseteq Actors /\ TypeOK
    BY DEF Actors, IInv
  <1>2. ASSUME NEW v \in Workers, pc'[v] # "idle" PROVE pc[v] # "idle"
    BY <1>1, <1>2, GotoStep, ReadStep
  <1> QED
    BY <1>2 DEF IInv, HoldsMessage

(* A worker that settles its message needs none any more.                  *)
LEMMA SettleHolds ==
  ASSUME IInv, NEW w \in Workers, Settle(w)
  PROVE  HoldsMessage'
  <1>1. w \in Actors /\ Workers \subseteq Actors /\ TypeOK
    BY DEF Actors, IInv
  <1>2. "idle" \in Labels /\ msg \in [Workers -> Message \cup {NoMessage}]
    BY <1>1 DEF Labels, TypeOK
  <1>3. pc'[w] = "idle" /\ \A b \in Actors \ {w} : pc'[b] = pc[b]
    BY <1>1, <1>2, GotoStep DEF Settle
  <1>4. \A v \in Workers \ {w} : msg'[v] = msg[v]
    BY <1>2 DEF Settle
  <1> QED
    BY <1>1, <1>3, <1>4 DEF IInv, HoldsMessage

(* A request leaves the workers and their messages alone.                  *)
LEMMA RequestHolds ==
  ASSUME IInv, NEW r \in Requests, NEW label \in Labels,
         Goto(r, label) \/ Read(r, label), UNCHANGED msg
  PROVE  HoldsMessage'
  <1>1. r \in Actors /\ Workers \subseteq Actors \ {r} /\ TypeOK
    BY ActorsAssumption DEF Actors, IInv
  <1>2. \A w \in Workers : pc'[w] = pc[w]
    BY <1>1, GotoStep, ReadStep
  <1> QED
    BY <1>2 DEF IInv, HoldsMessage

(* A transition to anything but COMPLETED keeps the row in order, if a     *)
(* retry is taken only below the limit of the copy.                        *)
LEMMA TransitionedFits ==
  ASSUME IInv, NEW c \in Row, NEW to \in Statuses \ {"COMPLETED"},
         to = "RETRYING" => c.retry < c.max /\ c.max \in RetryLimits,
         row' = Transitioned(c, to)
  PROVE  RowFits' /\ row'.status = to
  <1>1. row \in Row /\ RowFits
    BY DEF IInv, TypeOK
  <1>2. /\ row'.status = to /\ row'.max = row.max /\ row'.result = row.result
        /\ row'.retry = IF to = "RETRYING" THEN c.retry + 1 ELSE row.retry
    BY <1>1 DEF Transitioned, Row
  <1>3. Within(row'.retry)
    <2>1. CASE to = "RETRYING"
      <3>1. c.retry + 1 <= c.max /\ c.max \in RetryLimits
        BY <2>1 DEF Row
      <3> QED
        BY <1>2, <2>1, <3>1 DEF Within
    <2>2. CASE to # "RETRYING"
      BY <1>1, <1>2, <2>2 DEF RowFits
    <2> QED
      BY <2>1, <2>2
  <1> QED
    BY <1>1, <1>2, <1>3 DEF RowFits, Within, CompletedHasItsResult

(* An unchanged row still fits.                                            *)
LEMMA SameRowFits ==
  ASSUME RowFits, UNCHANGED row
  PROVE  RowFits'
  BY DEF RowFits, Within, CompletedHasItsResult

(* The requests preserve the invariant.                                    *)
LEMMA RequestIInv ==
  ASSUME IInv,
         \/ \E s \in Starts : StartStep(s) \/ EnqueueFails(s)
         \/ \E c \in Cancels : CancelStep(c)
         \/ \E p \in Patches : Patch(p)
         \/ \E d \in Deletes : Delete(d)
         \/ \E r \in Requests : RequestDies(r)
  PROVE  CopiesFit' /\ RowFits' /\ HoldsMessage'
  <1> USE DEF database, broker, faults
  <1>i. TypeOK /\ CopiesFit /\ RowFits
    BY DEF IInv
  <1>a. /\ Requests \subseteq Actors
        /\ Starts \subseteq Requests /\ Cancels \subseteq Requests
        /\ Patches \subseteq Requests /\ Deletes \subseteq Requests
    BY DEF Actors, Requests
  <1>l. /\ {"commit", "enqueue", "attach", "revoke", "done"} \subseteq Labels
        /\ {"enqueue", "attach", "done"} \cap UsesCopy = {}
    BY DEF Labels, UsesCopy
  <1>1. ASSUME NEW s \in Starts, StartLoad(s)
        PROVE  CopiesFit' /\ RowFits' /\ HoldsMessage'
    <2> DEFINE label == IF exists /\ Legal(row.status, "QUEUED")
                        THEN "commit" ELSE "done"
    <2>1. label \in Labels /\ Read(s, label)
      BY <1>1, <1>l DEF StartLoad
    <2>2. Fits(s, label, row)
      BY <1>i, <1>l DEF Fits, RowFits
    <2> HIDE DEF label
    <2> QED
      BY <1>1, <1>i, <1>a, <2>1, <2>2, ReadFits, RequestHolds, SameRowFits
         DEF StartLoad
  <1>2. ASSUME NEW s \in Starts, StartCommit(s)
        PROVE  CopiesFit' /\ RowFits' /\ HoldsMessage'
    <2>1. PICK label \in {"enqueue", "done"} : Goto(s, label)
      BY <1>2 DEF StartCommit
    <2>2. label \in Labels /\ Fits(s, label, copy[s])
      BY <1>l, UnusedFits
    <2>3. CopiesFit' /\ HoldsMessage'
      BY <1>2, <1>a, <2>1, <2>2, GotoFits, RequestHolds DEF StartCommit
    <2>4. copy[s] \in Row /\ row \in Row
      BY <1>a, <1>i DEF TypeOK
    <2>5. CASE row' = Transitioned(copy[s], "QUEUED")
      BY <2>3, <2>4, <2>5, TransitionedFits DEF Statuses
    <2>6. CASE row' = [row EXCEPT !.status = "QUEUED",
                                  !.retry = IF copy[s].retry = 0 THEN @ ELSE 0,
                                  !.result = "history"]
      <3>1. /\ row'.status = "QUEUED" /\ row'.result = "history"
            /\ row'.max = row.max
            /\ row'.retry = row.retry \/ row'.retry = 0
        BY <2>4, <2>6 DEF Row
      <3>2. 0 <= row.max
        BY <2>4 DEF Row
      <3>3. Within(row'.retry)
        BY <1>i, <3>1, <3>2 DEF RowFits, Within
      <3> QED
        BY <1>i, <2>3, <3>1, <3>3 DEF RowFits, Within, CompletedHasItsResult
    <2> QED
      BY <1>2, <1>i, <2>3, <2>5, <2>6, SameRowFits DEF StartCommit
  <1>3. ASSUME NEW s \in Starts, Enqueue(s)
        PROVE  CopiesFit' /\ RowFits' /\ HoldsMessage'
    <2>1. PICK label \in {"attach", "done"} : Goto(s, label)
      BY <1>3 DEF Enqueue
    <2>2. label \in Labels /\ Fits(s, label, copy[s])
      BY <1>l, UnusedFits
    <2> QED
      BY <1>3, <1>i, <1>a, <2>1, <2>2, GotoFits, RequestHolds, SameRowFits
         DEF Enqueue
  <1>4. ASSUME NEW r \in Requests, EnqueueFails(r) \/ RequestDies(r)
        PROVE  CopiesFit' /\ RowFits' /\ HoldsMessage'
    <2>1. Fits(r, "done", copy[r])
      BY <1>l, UnusedFits
    <2> QED
      BY <1>4, <1>i, <1>a, <1>l, <2>1, GotoFits, RequestHolds, SameRowFits
         DEF EnqueueFails, RequestDies
  <1>5. ASSUME NEW s \in Starts, AttachTaskId(s)
        PROVE  CopiesFit' /\ RowFits' /\ HoldsMessage'
    <2>1. Fits(s, "done", copy[s])
      BY <1>l, UnusedFits
    <2>2. CopiesFit' /\ HoldsMessage'
      BY <1>5, <1>a, <1>l, <2>1, GotoFits, RequestHolds DEF AttachTaskId
    <2>3. /\ row'.status = row.status /\ row'.retry = row.retry
          /\ row'.max = row.max /\ row'.result = row.result
      BY <1>5, <1>i DEF AttachTaskId, TypeOK, Row
    <2> QED
      BY <1>i, <2>2, <2>3 DEF RowFits, Within, CompletedHasItsResult
  <1>6. ASSUME NEW c \in Cancels, CancelStep(c)
        PROVE  CopiesFit' /\ RowFits' /\ HoldsMessage'
    <2>s. c \notin Starts /\ copy[c] \in Row
      BY <1>a, <1>i, ActorsAssumption DEF TypeOK
    <2>1. CASE CancelLoad(c)
      <3> DEFINE label == IF exists THEN "revoke" ELSE "done"
      <3>1. label \in Labels /\ Read(c, label)
        BY <2>1, <1>l DEF CancelLoad
      <3>2. Fits(c, label, row)
        BY <1>i DEF Fits, RowFits
      <3> HIDE DEF label
      <3> QED
        BY <2>1, <1>i, <1>a, <3>1, <3>2, ReadFits, RequestHolds, SameRowFits
           DEF CancelLoad
    <2>2. CASE Revoke(c)
      <3>1. Fits(c, "revoke", copy[c])
        BY <2>2, <1>a, <1>i DEF Revoke, CopiesFit
      <3>2. Fits(c, "commit", copy[c])
        BY <3>1, <2>s DEF Fits, UsesCopy
      <3> QED
        BY <2>2, <1>i, <1>a, <1>l, <3>2, GotoFits, RequestHolds, SameRowFits
           DEF Revoke
    <2>3. CASE CancelCommit(c)
      <3>1. Fits(c, "done", copy[c])
        BY <1>l, UnusedFits
      <3>2. CopiesFit' /\ HoldsMessage'
        BY <2>3, <1>a, <1>l, <3>1, GotoFits, RequestHolds DEF CancelCommit
      <3>3. RowFits'
        BY <2>3, <2>s, <1>i, TransitionedFits, SameRowFits
           DEF CancelCommit, Statuses
      <3> QED
        BY <3>2, <3>3
    <2> QED
      BY <1>6, <2>1, <2>2, <2>3 DEF CancelStep
  <1>7. ASSUME NEW p \in Patches, Patch(p)
        PROVE  CopiesFit' /\ RowFits' /\ HoldsMessage'
    <2>1. Fits(p, "done", copy[p])
      BY <1>l, UnusedFits
    <2>2. CopiesFit' /\ HoldsMessage'
      BY <1>7, <1>a, <1>l, <2>1, GotoFits, RequestHolds DEF Patch
    <2>3. /\ row'.status = row.status /\ row'.retry = row.retry
          /\ row'.max \in RetryLimits /\ row'.result = row.result
      BY <1>7, <1>i DEF Patch, TypeOK, Row, RowFits
    <2> QED
      BY <1>i, <2>2, <2>3 DEF RowFits, Within, CompletedHasItsResult
  <1>8. ASSUME NEW d \in Deletes, Delete(d)
        PROVE  CopiesFit' /\ RowFits' /\ HoldsMessage'
    <2>1. Fits(d, "done", copy[d])
      BY <1>l, UnusedFits
    <2> QED
      BY <1>8, <1>i, <1>a, <1>l, <2>1, GotoFits, RequestHolds, SameRowFits
         DEF Delete
  <1> QED
    BY <1>1, <1>2, <1>3, <1>4, <1>5, <1>6, <1>7, <1>8, <1>a DEF StartStep

(* A copy is fit for the label at which its worker enters the task.        *)
LEMMA NormaliseFits ==
  ASSUME NEW w \in Workers, NEW c \in Row,
         c.max \in RetryLimits, Within(c.retry), c.result # "awaiting"
  PROVE  /\ Fits(w, Normalise(c.status), c)
         /\ Fits(w, Entry(c), c)
  <1>1. Normalise(c.status) = "workflow" => c.status = "RUNNING"
    BY DEF Normalise
  <1>2. Entry(c) = "workflow" => c.status = "RUNNING"
    BY <1>1 DEF Entry
  <1>3. Entry(c) = "toRetrying" => c.retry < c.max
    <2>1. Normalise(c.status) # "toRetrying"
      BY NormaliseLabels
    <2>2. c.retry \in Nat /\ c.max \in Nat
      BY DEF Row
    <2> QED
      BY <2>1, <2>2 DEF Entry
  <1>4. Normalise(c.status) \notin {"retry", "toRetrying", "commit", "syncCommit"}
    BY NormaliseLabels
  <1>5. Entry(c) \notin {"retry", "commit", "syncCommit"}
    BY EntryLabels
  <1> QED
    BY <1>1, <1>2, <1>3, <1>4, <1>5 DEF Fits

(* The steps of a task preserve the invariant.                             *)
LEMMA TaskIInv ==
  ASSUME IInv, NEW w \in Workers, TaskStep(w)
  PROVE  CopiesFit' /\ RowFits' /\ HoldsMessage'
  <1> USE WorkerLabels DEF database, broker, faults
  <1>i. TypeOK /\ CopiesFit /\ RowFits /\ w \in Actors
    BY DEF IInv, Actors
  <1>c. copy[w] \in Row /\ row \in Row /\ Fits(w, pc[w], copy[w])
    BY <1>i DEF TypeOK, CopiesFit
  <1>u. {"idle", "ack", "advanced", "started", "parked", "failed", "retrying",
         "sync"} \cap UsesCopy = {}
    BY DEF UsesCopy
  <1>1. CASE TaskAttachId(w)
    <2> DEFINE label == IF exists THEN Entry(copy[w]) ELSE "sync"
    <2>1. label \in Labels /\ Goto(w, label) /\ pc[w] = "attachTask"
      BY <1>1 DEF TaskAttachId
    <2>2. Fits(w, label, copy[w])
      <3>1. copy[w].max \in RetryLimits /\ Within(copy[w].retry)
              /\ copy[w].result # "awaiting"
        BY <1>c, <2>1 DEF Fits, UsesCopy
      <3> QED
        BY <1>c, <1>u, <3>1, NormaliseFits, UnusedFits
    <2> HIDE DEF label
    <2>3. CopiesFit' /\ HoldsMessage'
      BY <1>1, <1>i, <2>1, <2>2, GotoFits, BusyHolds DEF TaskAttachId
    <2>4. /\ row'.status = row.status /\ row'.retry = row.retry
          /\ row'.max = row.max /\ row'.result = row.result
      BY <1>1, <1>c DEF TaskAttachId, Row
    <2> QED
      BY <1>i, <2>3, <2>4 DEF RowFits, Within, CompletedHasItsResult
  <1>2. CASE TaskTransition(w)
    <2>1. PICK label \in {"started", "advanced", "sync"} : Goto(w, label)
      BY <1>2 DEF TaskTransition
    <2>2. label \in Labels /\ Fits(w, label, copy[w]) /\ pc[w] # "idle"
      BY <1>2, <1>u, UnusedFits DEF TaskTransition, Target
    <2>3. CopiesFit' /\ HoldsMessage'
      BY <1>2, <1>i, <2>1, <2>2, GotoFits, BusyHolds DEF TaskTransition
    <2>4. Target[pc[w]] \in Statuses \ {"COMPLETED"}
      BY <1>2 DEF TaskTransition, Target, Statuses
    <2>5. Target[pc[w]] = "RETRYING" =>
            copy[w].retry < copy[w].max /\ copy[w].max \in RetryLimits
      BY <1>2, <1>c DEF TaskTransition, Target, Fits, UsesCopy
    <2>6. RowFits'
      BY <1>2, <1>c, <1>i, <2>4, <2>5, TransitionedFits, SameRowFits
         DEF TaskTransition
    <2> QED
      BY <2>3, <2>6
  <1>3. CASE TaskRefresh(w)
    <2>1. pc[w] # "idle" /\ UNCHANGED row /\ UNCHANGED msg
      BY <1>3 DEF TaskRefresh
    <2>2. CASE exists
      <3> DEFINE label == IF pc[w] = "advanced" THEN Normalise(row.status)
                          ELSE IF row.status = "RUNNING" THEN "workflow" ELSE "ack"
      <3>1. label \in Labels /\ Read(w, label)
        BY <1>3, <2>2 DEF TaskRefresh
      <3>2. Fits(w, label, row)
        <4>1. Fits(w, Normalise(row.status), row)
          BY <1>c, <1>i, NormaliseFits DEF RowFits
        <4>2. row.status = "RUNNING" => Fits(w, "workflow", row)
          BY <1>i DEF Fits, RowFits
        <4> QED
          BY <1>u, <4>1, <4>2, UnusedFits
      <3> HIDE DEF label
      <3> QED
        BY <1>i, <2>1, <3>1, <3>2, ReadFits, BusyHolds, SameRowFits
    <2>3. CASE ~exists
      <3>1. Goto(w, "sync") /\ Fits(w, "sync", copy[w])
        BY <1>3, <1>u, <2>3, UnusedFits DEF TaskRefresh
      <3> QED
        BY <1>i, <2>1, <3>1, GotoFits, BusyHolds, SameRowFits
    <2> QED
      BY <2>2, <2>3
  <1>4. CASE WorkflowReturns(w)
    <2>1. PICK final \in DOMAIN Outcome :
            IF exists
            THEN /\ row' = [Transitioned(copy[w], Outcome[final].status)
                              EXCEPT !.result = Outcome[final].result]
                 /\ Goto(w, IF final = "AWAITING" THEN "parked" ELSE "ack")
            ELSE UNCHANGED row /\ Goto(w, "sync")
      BY <1>4 DEF WorkflowReturns
    <2>2. PICK label \in {"parked", "ack", "sync"} : Goto(w, label)
      BY <2>1
    <2>3. label \in Labels /\ Fits(w, label, copy[w]) /\ pc[w] # "idle"
      BY <1>4, <1>u, UnusedFits DEF WorkflowReturns
    <2>4. CopiesFit' /\ HoldsMessage'
      BY <1>4, <1>i, <2>2, <2>3, GotoFits, BusyHolds DEF WorkflowReturns
    <2>5. CASE exists
      <3>1. /\ Outcome[final].status \in {"COMPLETED", "FAILED"}
            /\ Outcome[final].result # "awaiting"
            /\ Outcome[final].status = "COMPLETED" => Outcome[final].result = "ok"
        BY DEF Outcome
      <3>2. /\ row'.status = Outcome[final].status /\ row'.retry = row.retry
            /\ row'.max = row.max /\ row'.result = Outcome[final].result
        BY <1>c, <2>1, <2>5, <3>1 DEF Transitioned, Row
      <3> QED
        BY <1>i, <2>4, <3>1, <3>2 DEF RowFits, Within, CompletedHasItsResult
    <2>6. CASE ~exists
      BY <1>i, <2>1, <2>4, <2>6, SameRowFits
    <2> QED
      BY <2>5, <2>6
  <1>5. CASE MarkAwaiting(w)
    <2>1. PICK label \in {"ack", "sync"} : Goto(w, label)
      BY <1>5 DEF MarkAwaiting
    <2>2. label \in Labels /\ Fits(w, label, copy[w]) /\ pc[w] # "idle"
      BY <1>5, <1>u, UnusedFits DEF MarkAwaiting
    <2> QED
      BY <1>5, <1>i, <2>1, <2>2, GotoFits, BusyHolds, SameRowFits DEF MarkAwaiting
  <1>6. CASE WorkflowRaises(w)
    <2>1. PICK label \in {"ack", "failed", "sync"} : Goto(w, label)
      BY <1>6 DEF WorkflowRaises
    <2>2. label \in Labels /\ Fits(w, label, copy[w]) /\ pc[w] # "idle"
      BY <1>6, <1>u, UnusedFits DEF WorkflowRaises
    <2>3. CopiesFit' /\ HoldsMessage'
      BY <1>6, <1>i, <2>1, <2>2, GotoFits, BusyHolds DEF WorkflowRaises
    <2>4. RowFits'
      BY <1>6, <1>c, <1>i, TransitionedFits, SameRowFits
         DEF WorkflowRaises, Statuses
    <2> QED
      BY <2>3, <2>4
  <1>7. CASE DecideRetry(w)
    <2>1. pc[w] # "idle" /\ UNCHANGED row /\ UNCHANGED msg
      BY <1>7 DEF DecideRetry
    <2>2. CASE exists
      <3> DEFINE label == IF row.retry < row.max THEN "retry" ELSE "ack"
      <3>1. label \in Labels /\ Read(w, label)
        BY <1>7, <2>2 DEF DecideRetry
      <3>2. Fits(w, label, row)
        BY <1>i DEF Fits, RowFits, UsesCopy
      <3> HIDE DEF label
      <3> QED
        BY <1>i, <2>1, <3>1, <3>2, ReadFits, BusyHolds, SameRowFits
    <2>3. CASE ~exists
      <3>1. Goto(w, "sync") /\ Fits(w, "sync", copy[w])
        BY <1>7, <1>u, <2>3, UnusedFits DEF DecideRetry
      <3> QED
        BY <1>i, <2>1, <3>1, GotoFits, BusyHolds, SameRowFits
    <2> QED
      BY <2>2, <2>3
  <1>8. CASE CommitRetry(w)
    <2>1. PICK label \in {"retrying", "sync"} : Goto(w, label)
      BY <1>8 DEF CommitRetry
    <2>2. label \in Labels /\ Fits(w, label, copy[w]) /\ pc[w] # "idle"
      BY <1>8, <1>u, UnusedFits DEF CommitRetry
    <2>3. CopiesFit' /\ HoldsMessage'
      BY <1>8, <1>i, <2>1, <2>2, GotoFits, BusyHolds DEF CommitRetry
    <2>4. copy[w].retry < copy[w].max /\ copy[w].max \in RetryLimits
      BY <1>8, <1>c DEF CommitRetry, Fits, UsesCopy
    <2>5. RowFits'
      BY <1>8, <1>c, <1>i, <2>4, TransitionedFits, SameRowFits
         DEF CommitRetry, Statuses
    <2> QED
      BY <2>3, <2>5
  <1>9. CASE Republish(w)
    <2>1. PICK label \in {"ack", "sync"} : Goto(w, label)
      BY <1>9 DEF Republish
    <2>2. label \in Labels /\ Fits(w, label, copy[w]) /\ pc[w] # "idle"
      BY <1>9, <1>u, UnusedFits DEF Republish
    <2> QED
      BY <1>9, <1>i, <2>1, <2>2, GotoFits, BusyHolds, SameRowFits DEF Republish
  <1>10. CASE SyncLoad(w)
    <2> DEFINE label == IF exists /\ row.status \notin Terminal \cup {"FAILED"}
                        THEN "syncCommit" ELSE "ack"
    <2>1. label \in Labels /\ Read(w, label) /\ pc[w] # "idle"
      BY <1>10 DEF SyncLoad
    <2>2. Fits(w, label, row)
      BY <1>i, <1>u DEF Fits, RowFits
    <2> HIDE DEF label
    <2> QED
      BY <1>10, <1>i, <2>1, <2>2, ReadFits, BusyHolds, SameRowFits DEF SyncLoad
  <1>11. CASE SyncCommit(w)
    <2>1. Goto(w, "ack") /\ Fits(w, "ack", copy[w]) /\ pc[w] # "idle"
      BY <1>11, <1>u, UnusedFits DEF SyncCommit
    <2>2. CopiesFit' /\ HoldsMessage'
      BY <1>11, <1>i, <2>1, GotoFits, BusyHolds DEF SyncCommit
    <2>3. /\ row'.status = row.status \/ row'.status = "FAILED"
          /\ row'.retry = row.retry /\ row'.max = row.max
          /\ row'.result = row.result
      BY <1>11, <1>c DEF SyncCommit, Row
    <2> QED
      BY <1>i, <2>2, <2>3 DEF RowFits, Within, CompletedHasItsResult
  <1>12. CASE Ack(w)
    <2>1. Goto(w, "idle") /\ Fits(w, "idle", copy[w]) /\ Settle(w)
      BY <1>12, <1>u, UnusedFits DEF Ack, Settle
    <2> QED
      BY <1>12, <1>i, <2>1, GotoFits, SettleHolds, SameRowFits DEF Ack
  <1> QED
    BY <1>1, <1>2, <1>3, <1>4, <1>5, <1>6, <1>7, <1>8, <1>9, <1>10, <1>11, <1>12
       DEF TaskStep

(* So do the deliveries, the time limits and the faults of the workers.    *)
LEMMA DeliveryIInv ==
  ASSUME IInv,
         \/ \E w \in Workers :
              \/ \E m \in Message : Receive(w, m)
              \/ SoftTimeLimit(w) \/ HardTimeLimit(w) \/ RepublishFails(w)
              \/ Crash(w) \/ VisibilityTimeout(w) \/ Terminate(w)
         \/ \E m \in Message : Discard(m)
  PROVE  CopiesFit' /\ RowFits' /\ HoldsMessage'
  <1> USE WorkerLabels DEF database, broker, faults
  <1>i. TypeOK /\ CopiesFit /\ RowFits /\ HoldsMessage /\ Workers \subseteq Actors
    BY DEF IInv, Actors
  <1>u. {"idle", "ack", "sync"} \cap UsesCopy = {}
    BY DEF UsesCopy
  <1>1. ASSUME NEW w \in Workers, NEW m \in Message, Receive(w, m)
        PROVE  CopiesFit' /\ RowFits' /\ HoldsMessage'
    <2> DEFINE label == IF ~exists THEN "ack"
                        ELSE IF row.task # m.task THEN "attachTask" ELSE Entry(row)
    <2>1. label \in Labels /\ Read(w, label)
      BY <1>1 DEF Receive
    <2>2. Fits(w, label, row)
      <3>1. Fits(w, Entry(row), row)
        BY <1>i, NormaliseFits DEF RowFits, TypeOK
      <3>2. Fits(w, "attachTask", row)
        BY <1>i DEF Fits, RowFits
      <3> QED
        BY <1>u, <3>1, <3>2, UnusedFits
    <2> HIDE DEF label
    <2>3. CopiesFit'
      BY <1>i, <2>1, <2>2, ReadFits
    <2>4. HoldsMessage'
      <3>1. \A v \in Workers \ {w} : pc'[v] = pc[v] /\ msg'[v] = msg[v]
        BY <1>1, <1>i, <2>1, ReadStep DEF Receive, TypeOK
      <3>2. msg'[w] = m
        BY <1>1, <1>i DEF Receive, TypeOK
      <3> QED
        BY <1>i, <3>1, <3>2 DEF HoldsMessage
    <2> QED
      BY <1>1, <1>i, <2>3, <2>4, SameRowFits DEF Receive
  <1>2. ASSUME NEW w \in Workers, SoftTimeLimit(w)
        PROVE  CopiesFit' /\ RowFits' /\ HoldsMessage'
    <2>1. Fits(w, "sync", copy[w]) /\ Goto(w, "sync") /\ pc[w] # "idle"
      BY <1>2, <1>u, UnusedFits DEF SoftTimeLimit
    <2> QED
      BY <1>2, <1>i, <2>1, GotoFits, BusyHolds, SameRowFits DEF SoftTimeLimit
  <1>3. ASSUME NEW w \in Workers,
               HardTimeLimit(w) \/ RepublishFails(w) \/ Crash(w) \/ Terminate(w)
        PROVE  CopiesFit' /\ RowFits' /\ HoldsMessage'
    <2>1. Fits(w, "idle", copy[w]) /\ Goto(w, "idle") /\ Settle(w)
      BY <1>3, <1>u, UnusedFits
         DEF HardTimeLimit, RepublishFails, Crash, Terminate, Settle
    <2>2. UNCHANGED row
      BY <1>3 DEF HardTimeLimit, RepublishFails, Crash, Redelivery, Terminate
    <2> QED
      BY <1>i, <2>1, <2>2, GotoFits, SettleHolds, SameRowFits
  <1>4. ASSUME NEW w \in Workers, VisibilityTimeout(w)
        PROVE  CopiesFit' /\ RowFits' /\ HoldsMessage'
    BY <1>4, <1>i, SameRowFits
       DEF VisibilityTimeout, Redelivery, CopiesFit, Fits, HoldsMessage
  <1>5. ASSUME NEW m \in Message, Discard(m)
        PROVE  CopiesFit' /\ RowFits' /\ HoldsMessage'
    BY <1>5, <1>i, SameRowFits DEF Discard, CopiesFit, Fits, HoldsMessage
  <1> QED
    BY <1>1, <1>2, <1>3, <1>4, <1>5

(* Every step keeps the inductive invariant.                               *)
LEMMA NextIInv == IInv /\ [Next]_vars => IInv'
  <1> SUFFICES ASSUME IInv, [Next]_vars PROVE IInv'
    OBVIOUS
  <1>1. TypeOK'
    BY NextType DEF IInv
  <1>2. CASE UNCHANGED vars
    BY <1>1, <1>2, SameRowFits DEF vars, IInv, CopiesFit, Fits, HoldsMessage
  <1>3. CASE Next
    BY <1>1, <1>3, RequestIInv, TaskIInv, DeliveryIInv DEF Next, IInv
  <1> QED
    BY <1>2, <1>3

(* The inductive invariant holds in every reachable state.                 *)
THEOREM InductiveInvariant == Spec => []IInv
  BY InitIInv, NextIInv, PTL DEF Spec

(* The retry counter never exceeds the largest limit the experiment may    *)
(* have: every increment is made by an actor whose own copy was below the  *)
(* limit of that copy (_handle_workflow_error, _execute_async).            *)
THEOREM RetriesBounded == Spec => []RetryWithinLimit
  <1>1. IInv => RetryWithinLimit
    BY DEF IInv, RowFits, Within, RetryWithinLimit
  <1> QED
    BY <1>1, InductiveInvariant, PTL

(* A COMPLETED row holds the result of a workflow that succeeded, whatever *)
(* overlaps, restarts, redeliveries and safety nets came before.           *)
THEOREM ResultMatches == Spec => []CompletedHasItsResult
  <1>1. IInv => CompletedHasItsResult
    BY DEF IInv, RowFits
  <1> QED
    BY <1>1, InductiveInvariant, PTL

-----------------------------------------------------------------------------
(* A finished experiment stays finished once nobody acts on an older copy. *)

(* Nobody who goes on with the copy it has becomes a stale writer ...      *)
LEMMA QuietGoto ==
  ASSUME IInv, Finished, NEW a \in Actors, NEW label \in Labels, Goto(a, label),
         label \in UsesCopy => pc[a] \in UsesCopy,
         row'.status = row.status
  PROVE  Finished'
  <1>1. /\ pc'[a] = label
        /\ label \in UsesCopy => copy'[a] = copy[a]
        /\ \A b \in Actors \ {a} : pc'[b] = pc[b] /\ copy'[b] = copy[b]
    BY GotoStep DEF IInv
  <1>2. label \in UsesCopy => copy[a].status \in Terminal
    BY DEF Finished, StaleWriter
  <1>3. ~StaleWriter(a)'
    BY <1>1, <1>2 DEF StaleWriter
  <1>4. \A b \in Actors \ {a} : ~StaleWriter(b)'
    BY <1>1 DEF Finished, StaleWriter
  <1> QED
    BY <1>3, <1>4 DEF Finished

(* ... nor does anybody who reads the finished row.                        *)
LEMMA QuietRead ==
  ASSUME IInv, Finished, NEW a \in Actors, NEW label \in Labels, Read(a, label),
         row'.status = row.status
  PROVE  Finished'
  <1>1. /\ pc'[a] = label
        /\ label \in UsesCopy => copy'[a] = row
        /\ \A b \in Actors \ {a} : pc'[b] = pc[b] /\ copy'[b] = copy[b]
    BY ReadStep DEF IInv
  <1>2. ~StaleWriter(a)'
    BY <1>1 DEF StaleWriter, Finished
  <1>3. \A b \in Actors \ {a} : ~StaleWriter(b)'
    BY <1>1 DEF Finished, StaleWriter
  <1> QED
    BY <1>2, <1>3 DEF Finished

(* The requests leave a finished experiment alone.                         *)
LEMMA RequestQuiet ==
  ASSUME IInv, Finished,
         \/ \E s \in Starts : StartStep(s) \/ EnqueueFails(s)
         \/ \E c \in Cancels : CancelStep(c)
         \/ \E p \in Patches : Patch(p)
         \/ \E d \in Deletes : Delete(d)
         \/ \E r \in Requests : RequestDies(r)
  PROVE  Finished' /\ row'.status = row.status
  <1> USE DEF database, broker, faults
  <1>a. /\ Requests \subseteq Actors
        /\ Starts \subseteq Requests /\ Cancels \subseteq Requests
        /\ Patches \subseteq Requests /\ Deletes \subseteq Requests
    BY DEF Actors, Requests
  <1>l. /\ {"commit", "enqueue", "attach", "revoke", "done"} \subseteq Labels
        /\ {"enqueue", "attach", "done"} \cap UsesCopy = {}
        /\ {"revoke", "commit"} \subseteq UsesCopy
    BY DEF Labels, UsesCopy
  <1>r. row \in Row
    BY DEF IInv, TypeOK
  <1>1. ASSUME NEW s \in Starts, StartLoad(s)
        PROVE  Finished' /\ row'.status = row.status
    <2>1. PICK label \in {"commit", "done"} : Read(s, label)
      BY <1>1 DEF StartLoad
    <2> QED
      BY <1>1, <1>a, <1>l, <2>1, QuietRead DEF StartLoad
  <1>2. ASSUME NEW s \in Starts, StartCommit(s) PROVE FALSE
    <2>1. Fits(s, "commit", copy[s])
      BY <1>2, <1>a DEF StartCommit, IInv, CopiesFit
    <2>2. copy[s].status \in Terminal
      BY <1>2, <1>a, <1>l DEF StartCommit, Finished, StaleWriter
    <2>3. Legal(copy[s].status, "QUEUED")
      BY <1>l, <2>1 DEF Fits
    <2> QED
      BY <2>2, <2>3 DEF Legal, Transitions, Terminal
  <1>3. ASSUME NEW s \in Starts, Enqueue(s)
        PROVE  Finished' /\ row'.status = row.status
    <2>1. PICK label \in {"attach", "done"} : Goto(s, label)
      BY <1>3 DEF Enqueue
    <2> QED
      BY <1>3, <1>a, <1>l, <2>1, QuietGoto DEF Enqueue
  <1>4. ASSUME NEW r \in Requests,
               \/ EnqueueFails(r) \/ RequestDies(r) \/ AttachTaskId(r)
               \/ Patch(r) \/ Delete(r)
        PROVE  Finished' /\ row'.status = row.status
    <2>1. Goto(r, "done")
      BY <1>4 DEF EnqueueFails, RequestDies, AttachTaskId, Patch, Delete
    <2>2. row'.status = row.status
      BY <1>4, <1>r DEF EnqueueFails, RequestDies, AttachTaskId, Patch, Delete, Row
    <2> QED
      BY <1>a, <1>l, <2>1, <2>2, QuietGoto
  <1>5. ASSUME NEW c \in Cancels, CancelStep(c)
        PROVE  Finished' /\ row'.status = row.status
    <2>1. CASE CancelLoad(c)
      <3>1. PICK label \in {"revoke", "done"} : Read(c, label)
        BY <2>1 DEF CancelLoad
      <3> QED
        BY <2>1, <1>a, <1>l, <3>1, QuietRead DEF CancelLoad
    <2>2. CASE Revoke(c)
      BY <2>2, <1>a, <1>l, QuietGoto DEF Revoke
    <2>3. CASE CancelCommit(c)
      <3>1. copy[c].status \in Terminal
        BY <2>3, <1>a, <1>l DEF CancelCommit, Finished, StaleWriter
      <3>2. ~Legal(copy[c].status, "CANCELLED")
        BY <3>1 DEF Legal, Transitions, Terminal
      <3> QED
        BY <2>3, <1>a, <1>l, <3>2, QuietGoto DEF CancelCommit
    <2> QED
      BY <1>5, <2>1, <2>2, <2>3 DEF CancelStep
  <1> QED
    BY <1>1, <1>2, <1>3, <1>4, <1>5, <1>a DEF StartStep

(* So do the tasks that are still around.                                  *)
LEMMA TaskQuiet ==
  ASSUME IInv, Finished, NEW w \in Workers, TaskStep(w)
  PROVE  Finished' /\ row'.status = row.status
  <1> USE WorkerLabels DEF database, broker, faults
  <1>w. w \in Actors /\ row \in Row /\ Fits(w, pc[w], copy[w])
    BY DEF Actors, IInv, TypeOK, CopiesFit
  <1>u. /\ {"idle", "ack", "sync"} \cap UsesCopy = {}
        /\ {"attachTask", "toRetrying", "toQueued", "toRunning", "workflow",
            "retry", "syncCommit"} \subseteq UsesCopy
    BY DEF UsesCopy
  <1>t. pc[w] \in UsesCopy =>
          copy[w].status \in Terminal /\ \A to : ~Legal(copy[w].status, to)
    BY <1>w DEF Finished, StaleWriter, Legal, Transitions, Terminal
  <1>1. CASE TaskAttachId(w)
    <2>1. PICK label \in Labels : Goto(w, label)
      BY <1>1 DEF TaskAttachId
    <2>2. row'.status = row.status
      BY <1>1, <1>w DEF TaskAttachId, Row
    <2> QED
      BY <1>1, <1>w, <1>u, <2>1, <2>2, QuietGoto DEF TaskAttachId
  <1>2. CASE TaskTransition(w)
    <2>1. pc[w] \in UsesCopy
      BY <1>2 DEF TaskTransition, Target, UsesCopy
    <2>2. UNCHANGED row /\ Goto(w, "sync")
      BY <1>2, <1>t, <2>1 DEF TaskTransition
    <2> QED
      BY <1>w, <1>u, <2>2, QuietGoto
  <1>3. CASE TaskRefresh(w)
    <2>1. UNCHANGED row
      BY <1>3 DEF TaskRefresh
    <2>2. \/ Goto(w, "sync")
          \/ \E label \in Labels : Read(w, label)
      BY <1>3 DEF TaskRefresh
    <2> QED
      BY <1>w, <1>u, <2>1, <2>2, QuietGoto, QuietRead
  <1>4. CASE WorkflowReturns(w) \/ WorkflowRaises(w) \/ SyncCommit(w)
    <2>1. pc[w] \in {"workflow", "syncCommit"}
      BY <1>4 DEF WorkflowReturns, WorkflowRaises, SyncCommit
    <2> QED
      BY <1>w, <1>u, <1>t, <2>1 DEF Fits, Terminal
  <1>5. CASE MarkAwaiting(w) \/ Republish(w) \/ Ack(w)
    <2>1. PICK label \in {"ack", "sync", "idle"} : Goto(w, label)
      BY <1>5 DEF MarkAwaiting, Republish, Ack, Settle
    <2> QED
      BY <1>5, <1>w, <1>u, <2>1, QuietGoto DEF MarkAwaiting, Republish, Ack
  <1>6. CASE DecideRetry(w) \/ SyncLoad(w)
    <2>1. UNCHANGED row
      BY <1>6 DEF DecideRetry, SyncLoad
    <2>2. \/ Goto(w, "sync")
          \/ \E label \in Labels : Read(w, label)
      BY <1>6 DEF DecideRetry, SyncLoad
    <2> QED
      BY <1>w, <1>u, <2>1, <2>2, QuietGoto, QuietRead
  <1>7. CASE CommitRetry(w)
    <2>1. UNCHANGED row /\ Goto(w, "sync")
      BY <1>7, <1>t, <1>u DEF CommitRetry
    <2> QED
      BY <1>w, <1>u, <2>1, QuietGoto
  <1> QED
    BY <1>1, <1>2, <1>3, <1>4, <1>5, <1>6, <1>7 DEF TaskStep

(* And so do deliveries, time limits and faults.                           *)
LEMMA DeliveryQuiet ==
  ASSUME IInv, Finished,
         \/ \E w \in Workers :
              \/ \E m \in Message : Receive(w, m)
              \/ SoftTimeLimit(w) \/ HardTimeLimit(w) \/ RepublishFails(w)
              \/ Crash(w) \/ VisibilityTimeout(w) \/ Terminate(w)
         \/ \E m \in Message : Discard(m)
  PROVE  Finished' /\ row'.status = row.status
  <1> USE WorkerLabels DEF database, broker, faults
  <1>a. Workers \subseteq Actors /\ {"idle", "sync"} \cap UsesCopy = {}
    BY DEF Actors, UsesCopy
  <1>1. ASSUME NEW w \in Workers, NEW m \in Message, Receive(w, m)
        PROVE  Finished' /\ row'.status = row.status
    <2>1. PICK label \in Labels : Read(w, label)
      BY <1>1 DEF Receive
    <2> QED
      BY <1>1, <1>a, <2>1, QuietRead DEF Receive
  <1>2. ASSUME NEW w \in Workers,
               \/ SoftTimeLimit(w) \/ HardTimeLimit(w) \/ RepublishFails(w)
               \/ Crash(w) \/ Terminate(w)
        PROVE  Finished' /\ row'.status = row.status
    <2>1. PICK label \in {"idle", "sync"} : Goto(w, label)
      BY <1>2 DEF SoftTimeLimit, HardTimeLimit, RepublishFails, Crash, Terminate,
                  Settle
    <2>2. UNCHANGED row
      BY <1>2 DEF SoftTimeLimit, HardTimeLimit, RepublishFails, Crash, Redelivery,
                  Terminate
    <2> QED
      BY <1>a, <2>1, <2>2, QuietGoto
  <1>3. ASSUME UNCHANGED <<row, pc, copy>>
        PROVE  Finished' /\ row'.status = row.status
    BY <1>3 DEF Finished, StaleWriter
  <1> QED
    BY <1>1, <1>2, <1>3 DEF VisibilityTimeout, Redelivery, Discard

(* Once an experiment is finished and no actor still holds an unfinished   *)
(* copy of it, nothing that happens later changes its status.              *)
THEOREM FinishedStays == Spec => FinishedIsFinalOnceSeen
  <1>1. IInv /\ [Next]_vars =>
          [Finished => Finished' /\ row'.status = row.status]_vars
    <2> SUFFICES ASSUME IInv, Next, Finished
                 PROVE  Finished' /\ row'.status = row.status
      OBVIOUS
    <2> QED
      BY RequestQuiet, TaskQuiet, DeliveryQuiet DEF Next
  <1> QED
    BY <1>1, InductiveInvariant, PTL DEF Spec, FinishedIsFinalOnceSeen

-----------------------------------------------------------------------------
(* An active experiment always has somebody who takes it further.          *)

(* An actor that carries nothing may do what it likes with its own state.  *)
LEMMA OthersCarry ==
  ASSUME IInv, HasCarrier, NEW a \in Actors,
         \A b \in Actors \ {a} : pc'[b] = pc[b] /\ copy'[b] = copy[b],
         a \in Workers => ~Carries(a), a \in Starts => pc[a] # "enqueue",
         row'.status = row.status, UNCHANGED queue
  PROVE  HasCarrier'
  <1>1. Starts \subseteq Actors /\ Workers \subseteq Actors
    BY DEF Actors, Requests
  <1>2. CASE \E m \in Message : queue[m] > 0
    BY <1>2 DEF HasCarrier
  <1>3. ASSUME NEW w \in Workers, Carries(w) PROVE HasCarrier'
    <2>1. pc'[w] = pc[w] /\ copy'[w] = copy[w]
      BY <1>1, <1>3
    <2>2. Carries(w)'
      BY <1>3, <2>1 DEF Carries
    <2> QED
      BY <2>2 DEF HasCarrier
  <1>4. ASSUME NEW s \in Starts, pc[s] = "enqueue" PROVE HasCarrier'
    BY <1>1, <1>4 DEF HasCarrier
  <1> QED
    BY <1>2, <1>3, <1>4 DEF HasCarrier

(* A message that is published carries the run.                            *)
LEMMA PublishedCarries ==
  ASSUME IInv, NEW m \in Message, Publish(m)
  PROVE  HasCarrier'
  <1>1. queue'[m] > 0
    BY DEF IInv, TypeOK, Publish
  <1> QED
    BY <1>1 DEF HasCarrier

(* The requests hand the run on.                                           *)
LEMMA RequestCarries ==
  ASSUME IInv, row.status \in Active => HasCarrier, exists', losses' = 0,
         row'.status \in Active,
         \/ \E s \in Starts : StartStep(s) \/ EnqueueFails(s)
         \/ \E c \in Cancels : CancelStep(c)
         \/ \E p \in Patches : Patch(p)
         \/ \E d \in Deletes : Delete(d)
         \/ \E r \in Requests : RequestDies(r)
  PROVE  HasCarrier'
  <1> USE DEF database, broker, faults
  <1>a. /\ Requests \subseteq Actors /\ Requests \cap Workers = {}
        /\ Starts \subseteq Requests /\ Cancels \subseteq Requests
        /\ Patches \subseteq Requests /\ Deletes \subseteq Requests
        /\ Starts \cap (Cancels \cup Patches \cup Deletes) = {}
    BY ActorsAssumption DEF Actors, Requests
  <1>l. {"commit", "enqueue", "attach", "revoke", "done"} \subseteq Labels
    BY DEF Labels
  <1>i. TypeOK /\ row \in Row /\ losses \in Nat
    BY BoundsAssumption DEF IInv, TypeOK
  <1>1. ASSUME NEW r \in Requests, NEW label \in Labels,
               Goto(r, label) \/ Read(r, label), pc[r] # "enqueue",
               row'.status = row.status, UNCHANGED queue
        PROVE  HasCarrier'
    <2>1. \A b \in Actors \ {r} : pc'[b] = pc[b] /\ copy'[b] = copy[b]
      BY <1>1, <1>a, <1>i, GotoStep, ReadStep
    <2> QED
      BY <1>1, <1>a, <2>1, OthersCarry
  <1>2. ASSUME NEW s \in Starts, StartLoad(s) PROVE HasCarrier'
    BY <1>1, <1>2, <1>a, <1>l DEF StartLoad
  <1>3. ASSUME NEW s \in Starts, StartCommit(s) PROVE HasCarrier'
    <2>1. Goto(s, "enqueue")
      BY <1>3 DEF StartCommit
    <2>2. pc'[s] = "enqueue"
      BY <1>a, <1>i, <1>l, <2>1, GotoStep
    <2> QED
      BY <2>2 DEF HasCarrier
  <1>4. ASSUME NEW s \in Starts, Enqueue(s) PROVE HasCarrier'
    <2>1. Publish([task |-> s, retries |-> 0])
      BY <1>4 DEF Enqueue
    <2>2. [task |-> s, retries |-> 0] \in Message
      BY BoundsAssumption DEF Message
    <2> QED
      BY <2>1, <2>2, PublishedCarries
  <1>5. ASSUME NEW r \in Requests, EnqueueFails(r) \/ RequestDies(r) PROVE FALSE
    <2>1. losses' = losses + 1
      BY <1>5 DEF EnqueueFails, RequestDies, Lose
    <2> QED
      BY <1>i, <2>1
  <1>6. ASSUME NEW s \in Starts, AttachTaskId(s) PROVE HasCarrier'
    <2>1. row'.status = row.status
      BY <1>6, <1>i DEF AttachTaskId, Row
    <2> QED
      BY <1>1, <1>6, <1>a, <1>l, <2>1 DEF AttachTaskId
  <1>7. ASSUME NEW c \in Cancels, CancelStep(c) PROVE HasCarrier'
    <2>1. CASE CancelLoad(c)
      BY <1>1, <2>1, <1>a, <1>l DEF CancelLoad
    <2>2. CASE Revoke(c)
      BY <1>1, <2>2, <1>a, <1>l DEF Revoke
    <2>3. CASE CancelCommit(c)
      <3>1. row'.status = row.status
        <4>1. Transitioned(copy[c], "CANCELLED").status = "CANCELLED"
          BY <1>i DEF Transitioned, Row
        <4> QED
          BY <2>3, <4>1 DEF CancelCommit, Active
      <3> QED
        BY <1>1, <2>3, <1>a, <1>l, <3>1 DEF CancelCommit
    <2> QED
      BY <1>7, <2>1, <2>2, <2>3 DEF CancelStep
  <1>8. ASSUME NEW p \in Patches, Patch(p) PROVE HasCarrier'
    <2>1. row'.status = row.status
      BY <1>8, <1>i DEF Patch, Row
    <2> QED
      BY <1>1, <1>8, <1>a, <1>l, <2>1 DEF Patch
  <1>9. ASSUME NEW d \in Deletes, Delete(d) PROVE FALSE
    BY <1>9 DEF Delete
  <1> QED
    BY <1>2, <1>3, <1>4, <1>5, <1>6, <1>7, <1>8, <1>9, <1>a DEF StartStep

(* So do the tasks: while the run is active, a task executes it, publishes *)
(* it again or hands it to the failure handler, and it gives up only a run *)
(* that it did not carry.                                                  *)
LEMMA TaskCarries ==
  ASSUME IInv, row.status \in Active => HasCarrier, exists, row'.status \in Active,
         NEW w \in Workers, TaskStep(w)
  PROVE  HasCarrier'
  <1> USE WorkerLabels DEF database, broker, faults
  <1>i. /\ TypeOK /\ row \in Row /\ w \in Actors /\ w \notin Starts
        /\ Fits(w, pc[w], copy[w])
    BY ActorsAssumption DEF IInv, TypeOK, CopiesFit, Actors, Requests
  <1>1. ASSUME NEW label \in Labels, Goto(w, label) \/ Read(w, label),
               ~Carries(w), row'.status = row.status, UNCHANGED queue
        PROVE  HasCarrier'
    <2>1. \A b \in Actors \ {w} : pc'[b] = pc[b] /\ copy'[b] = copy[b]
      BY <1>1, <1>i, GotoStep, ReadStep
    <2> QED
      BY <1>1, <1>i, <2>1, OthersCarry
  <1>2. ASSUME NEW label \in {"toRetrying", "toQueued", "toRunning", "advanced",
                              "workflow", "retry", "retrying", "sync", "syncCommit"},
               Goto(w, label) \/ Read(w, label)
        PROVE  HasCarrier'
    <2>1. pc'[w] = label
      BY <1>2, <1>i, GotoStep, ReadStep
    <2> QED
      BY <1>2, <2>1 DEF HasCarrier, Carries
  <1>3. CASE TaskAttachId(w)
    <2>1. Goto(w, Entry(copy[w])) /\ pc[w] = "attachTask" /\ UNCHANGED queue
      BY <1>3 DEF TaskAttachId
    <2>2. row'.status = row.status
      BY <1>3, <1>i DEF TaskAttachId, Row
    <2>3. CASE Entry(copy[w]) = "ack"
      BY <1>1, <2>1, <2>2, <2>3 DEF Carries
    <2>4. CASE Entry(copy[w]) # "ack"
      BY <1>2, <2>1, <2>4, EntryLabels
    <2> QED
      BY <2>3, <2>4
  <1>4. CASE TaskTransition(w)
    <2>1. CASE pc[w] = "toRunning" /\ Goto(w, "started")
      <3>1. pc'[w] = "started"
        BY <1>i, <2>1, GotoStep
      <3>2. ~Goto(w, "sync")
        BY <1>i, <3>1, GotoStep
      <3>3. row' = Transitioned(copy[w], "RUNNING")
        BY <1>4, <2>1, <3>2 DEF TaskTransition, Target
      <3>4. row'.status = "RUNNING"
        BY <1>i, <3>3 DEF Transitioned, Row
      <3> QED
        BY <3>1, <3>4 DEF HasCarrier, Carries
    <2>2. CASE Goto(w, "advanced") \/ Goto(w, "sync")
      BY <1>2, <2>2
    <2> QED
      BY <1>4, <2>1, <2>2 DEF TaskTransition
  <1>5. CASE TaskRefresh(w)
    <2>1. UNCHANGED row /\ UNCHANGED queue
      BY <1>5 DEF TaskRefresh
    <2>2. CASE pc[w] = "advanced"
      <3>1. Read(w, Normalise(row.status))
        BY <1>5, <2>2 DEF TaskRefresh
      <3>2. Normalise(row.status) \in {"toRunning", "workflow"}
        BY <2>1 DEF Normalise, Active
      <3> QED
        BY <1>2, <3>1, <3>2
    <2>3. CASE pc[w] = "started" /\ row.status = "RUNNING"
      BY <1>2, <1>5, <2>3 DEF TaskRefresh
    <2>4. CASE pc[w] = "started" /\ row.status # "RUNNING"
      <3>1. Read(w, "ack") /\ ~Carries(w)
        BY <1>5, <2>4 DEF TaskRefresh, Carries
      <3> QED
        BY <1>1, <2>1, <3>1
    <2> QED
      BY <1>5, <2>2, <2>3, <2>4 DEF TaskRefresh
  <1>6. CASE WorkflowReturns(w)
    <2>1. PICK final \in DOMAIN Outcome :
            row' = [Transitioned(copy[w], Outcome[final].status)
                      EXCEPT !.result = Outcome[final].result]
      BY <1>6 DEF WorkflowReturns
    <2>2. row'.status \in {"COMPLETED", "FAILED"}
      <3>1. Outcome[final].status \in {"COMPLETED", "FAILED"}
        BY DEF Outcome
      <3>2. row'.status = Outcome[final].status
        BY <1>i, <2>1, <3>1 DEF Transitioned, Row
      <3> QED
        BY <3>1, <3>2
    <2> QED
      BY <2>2 DEF Active
  <1>7. CASE MarkAwaiting(w) \/ Ack(w)
    <2>1. PICK label \in {"ack", "idle"} : Goto(w, label)
      BY <1>7 DEF MarkAwaiting, Ack, Settle
    <2>2. pc[w] \in {"parked", "ack"} /\ UNCHANGED row /\ UNCHANGED queue
      BY <1>7 DEF MarkAwaiting, Ack
    <2> QED
      BY <1>1, <2>1, <2>2 DEF Carries
  <1>8. CASE WorkflowRaises(w)
    <2>1. copy[w].result # "awaiting"
      BY <1>8, <1>i DEF WorkflowRaises, Fits, UsesCopy
    <2>2. row' = Transitioned(copy[w], "FAILED")
      BY <1>8, <2>1 DEF WorkflowRaises
    <2>3. row'.status = "FAILED"
      BY <1>i, <2>2 DEF Transitioned, Row
    <2> QED
      BY <2>3 DEF Active
  <1>9. CASE DecideRetry(w)
    <2>1. PICK label \in {"retry", "ack"} : Read(w, label)
      BY <1>9 DEF DecideRetry
    <2>2. pc[w] = "failed" /\ UNCHANGED row /\ UNCHANGED queue
      BY <1>9 DEF DecideRetry
    <2> QED
      BY <1>1, <2>1, <2>2 DEF Carries
  <1>10. CASE CommitRetry(w)
    <2>1. PICK label \in {"retrying", "sync"} : Goto(w, label)
      BY <1>10 DEF CommitRetry
    <2> QED
      BY <1>2, <2>1
  <1>11. CASE Republish(w)
    <2>1. CASE msg[w].retries < TaskMaxRetries
      <3>1. msg[w] \in Message
        BY <1>11 DEF Republish, IInv, HoldsMessage
      <3>2. [msg[w] EXCEPT !.retries = @ + 1] \in Message
        BY <2>1, <3>1, BoundsAssumption DEF Message
      <3>3. Publish([msg[w] EXCEPT !.retries = @ + 1])
        BY <1>11, <2>1 DEF Republish
      <3> QED
        BY <3>2, <3>3, PublishedCarries
    <2>2. CASE ~(msg[w].retries < TaskMaxRetries)
      <3>1. Goto(w, "sync")
        BY <1>11, <2>2 DEF Republish
      <3> QED
        BY <1>2, <3>1
    <2> QED
      BY <2>1, <2>2
  <1>12. CASE SyncLoad(w)
    <2>1. row.status \notin Terminal \cup {"FAILED"}
      BY <1>12 DEF SyncLoad, Active, Terminal
    <2>2. Read(w, "syncCommit")
      BY <1>12, <2>1 DEF SyncLoad
    <2> QED
      BY <1>2, <2>2
  <1>13. CASE SyncCommit(w)
    <2>1. row'.status = "FAILED"
      BY <1>13, <1>i DEF SyncCommit, Row
    <2> QED
      BY <2>1 DEF Active
  <1> QED
    BY <1>3, <1>4, <1>5, <1>6, <1>7, <1>8, <1>9, <1>10, <1>11, <1>12, <1>13
       DEF TaskStep

(* So do deliveries and redeliveries; the other faults are losses.         *)
LEMMA DeliveryCarries ==
  ASSUME IInv, row.status \in Active => HasCarrier, exists, losses' = 0,
         revoked = {}, row'.status \in Active,
         \/ \E w \in Workers :
              \/ \E m \in Message : Receive(w, m)
              \/ SoftTimeLimit(w) \/ HardTimeLimit(w) \/ RepublishFails(w)
              \/ Crash(w) \/ VisibilityTimeout(w) \/ Terminate(w)
         \/ \E m \in Message : Discard(m)
  PROVE  HasCarrier'
  <1> USE WorkerLabels DEF database, broker, faults
  <1>i. TypeOK /\ Workers \subseteq Actors /\ losses \in Nat
    BY BoundsAssumption DEF IInv, TypeOK, Actors
  <1>1. ASSUME NEW w \in Workers, NEW m \in Message, Receive(w, m)
        PROVE  HasCarrier'
    <2>1. row.status \in Active
      BY <1>1 DEF Receive
    <2>2. Entry(row) \in {"toQueued", "toRunning", "workflow"}
      BY <2>1 DEF Entry, Normalise, Active
    <2>3. CASE row.task # m.task
      <3>1. Read(w, "attachTask")
        BY <1>1, <2>3 DEF Receive
      <3>2. pc'[w] = "attachTask" /\ copy'[w] = row
        BY <1>i, <3>1, ReadStep DEF UsesCopy
      <3>3. Carries(w)'
        BY <2>2, <3>2 DEF Carries, Entry
      <3> QED
        BY <3>3 DEF HasCarrier
    <2>4. CASE row.task = m.task
      <3>1. Read(w, Entry(row))
        BY <1>1, <2>4 DEF Receive
      <3>2. pc'[w] = Entry(row)
        BY <1>i, <3>1, ReadStep
      <3> QED
        BY <2>2, <3>2 DEF HasCarrier, Carries
    <2> QED
      BY <2>3, <2>4
  <1>2. ASSUME NEW w \in Workers, SoftTimeLimit(w) PROVE HasCarrier'
    <2>1. pc'[w] = "sync"
      BY <1>2, <1>i, GotoStep DEF SoftTimeLimit
    <2> QED
      BY <2>1 DEF HasCarrier, Carries
  <1>3. ASSUME NEW w \in Workers, HardTimeLimit(w) \/ RepublishFails(w) PROVE FALSE
    <2>1. losses' = losses + 1
      BY <1>3 DEF HardTimeLimit, RepublishFails, Lose
    <2> QED
      BY <1>i, <2>1
  <1>4. ASSUME NEW w \in Workers, Redelivery(w) PROVE HasCarrier'
    <2>1. msg[w] \in Message /\ Publish(msg[w])
      BY <1>4 DEF Redelivery, IInv, HoldsMessage
    <2> QED
      BY <2>1, PublishedCarries
  <1>5. ASSUME NEW w \in Workers, Terminate(w) PROVE FALSE
    BY <1>5 DEF Terminate
  <1>6. ASSUME NEW m \in Message, Discard(m) PROVE FALSE
    BY <1>6 DEF Discard
  <1> QED
    BY <1>1, <1>2, <1>3, <1>4, <1>5, <1>6 DEF Crash, VisibilityTimeout

(* A deleted row does not come back, a revoked task stays revoked, and the *)
(* losses only grow.                                                       *)
LEMMA RequestMonotone ==
  ASSUME IInv,
         \/ \E s \in Starts : StartStep(s) \/ EnqueueFails(s)
         \/ \E c \in Cancels : CancelStep(c)
         \/ \E p \in Patches : Patch(p)
         \/ \E d \in Deletes : Delete(d)
         \/ \E r \in Requests : RequestDies(r)
  PROVE  /\ exists' => exists
         /\ revoked \subseteq revoked'
         /\ losses' = losses \/ losses' = losses + 1
  <1> USE DEF StartStep, StartLoad, StartCommit, Enqueue, EnqueueFails, AttachTaskId,
              CancelStep, CancelLoad, Revoke, CancelCommit, Patch, Delete,
              RequestDies
  <1>1. exists' => exists
    BY DEF database
  <1>2. revoked \subseteq revoked'
    BY DEF broker
  <1>3. losses' = losses \/ Lose
    BY DEF faults
  <1> QED
    BY <1>1, <1>2, <1>3 DEF Lose

(* No worker restores a deleted row, and none takes back a loss or a       *)
(* revocation.                                                             *)
LEMMA WorkerMonotone ==
  ASSUME IInv,
         \/ \E w \in Workers : TaskStep(w)
         \/ \E w \in Workers :
              \/ \E m \in Message : Receive(w, m)
              \/ SoftTimeLimit(w) \/ HardTimeLimit(w) \/ RepublishFails(w)
              \/ Crash(w) \/ VisibilityTimeout(w) \/ Terminate(w)
         \/ \E m \in Message : Discard(m)
  PROVE  /\ exists' => exists
         /\ revoked \subseteq revoked'
         /\ losses' = losses \/ losses' = losses + 1
  <1> USE DEF TaskStep, TaskAttachId, TaskTransition, TaskRefresh, WorkflowReturns,
              MarkAwaiting, WorkflowRaises, DecideRetry, CommitRetry, Republish,
              SyncLoad, SyncCommit, Ack, Receive, SoftTimeLimit, HardTimeLimit,
              RepublishFails, Crash, VisibilityTimeout, Redelivery, Terminate,
              Discard
  <1>1. exists' => exists
    BY DEF database
  <1>2. revoked \subseteq revoked'
    BY DEF broker
  <1>3. losses' = losses \/ Lose
    BY DEF faults
  <1> QED
    BY <1>1, <1>2, <1>3 DEF Lose

(* Every step keeps every active run carried.                              *)
LEMMA NextCarries ==
  IInv /\ ActiveHasCarrier /\ [Next]_vars => ActiveHasCarrier'
  <1> SUFFICES ASSUME IInv, ActiveHasCarrier, [Next]_vars, exists', losses' = 0,
                      revoked' = {}, row'.status \in Active
               PROVE  HasCarrier'
    BY DEF ActiveHasCarrier
  <1>1. CASE UNCHANGED vars
    BY <1>1 DEF vars, ActiveHasCarrier, HasCarrier, Carries
  <1>2. CASE Next
    <2>1. /\ exists
          /\ revoked = {}
          /\ losses' = losses \/ losses' = losses + 1
      BY <1>2, RequestMonotone, WorkerMonotone DEF Next
    <2>2. losses = 0
      <3>1. losses \in Nat
        BY BoundsAssumption DEF IInv, TypeOK
      <3> QED
        BY <2>1, <3>1
    <2>3. row.status \in Active => HasCarrier
      BY <2>1, <2>2 DEF ActiveHasCarrier
    <2> QED
      BY <1>2, <2>1, <2>3, RequestCarries, TaskCarries, DeliveryCarries DEF Next
  <1> QED
    BY <1>1, <1>2

(* As long as no message is lost and no task revoked, an experiment that a *)
(* client sees as active has its task queued, executing, or about to be    *)
(* published: no interleaving of starts, redeliveries, retries, crashes,   *)
(* overlapping executions and safety nets orphans it.                      *)
THEOREM ActiveCarried == Spec => []ActiveHasCarrier
  <1>1. Init => ActiveHasCarrier
    BY DEF Init, ActiveHasCarrier, Active
  <1> QED
    BY <1>1, InitIInv, NextIInv, NextCarries, PTL DEF Spec

-----------------------------------------------------------------------------
(* Executions that do not overlap.                                         *)

(* One actor at most is in the middle of something ...                     *)
Alone == \A a, b \in Actors : ~Resting(a) /\ ~Resting(b) => a = b

(* ... so that its copy still says how the run stands.                     *)
Synced ==
  \A a \in Actors : pc[a] \in UsesCopy =>
    copy[a].status = row.status /\ copy[a].retry = row.retry

(* A run that was not started has no task.                                 *)
Unstarted ==
  row.status = "CREATED" =>
    /\ \A m \in Message : queue[m] = 0
    /\ \A w \in Workers : pc[w] = "idle"
    /\ \A s \in Starts : pc[s] \notin {"enqueue", "attach"}

SerialInv == IInv /\ Alone /\ Synced /\ Unstarted

(* What a step may do to the row: nothing to status and retries, or a move *)
(* of the lifecycle that charges an automatic retry and gives the budget   *)
(* back to a restart only.                                                 *)
SameRun == row'.status = row.status /\ row'.retry = row.retry

Charges ==
  /\ row'.status = "RETRYING" => row'.retry = row.retry + 1
  /\ row'.status # "QUEUED" => row'.retry >= row.retry

LifecycleStep ==
  \/ SameRun /\ (exists' = exists \/ (exists /\ exists' = FALSE))
  \/ /\ exists /\ exists' = exists /\ Charges
     /\ \/ row'.status \in Transitions[row.status]
        \/ row.status \in Active /\ row'.status = "FAILED"

(* What a step of one actor does to the copies: it writes from its own     *)
(* copy, and the copy it goes on with says what the row says.              *)
Moves(a) ==
  /\ \A b \in Actors \ {a} : pc'[b] = pc[b] /\ copy'[b] = copy[b]
  /\ pc[a] \notin UsesCopy => SameRun
  /\ pc'[a] \in UsesCopy =>
       SameRun /\ (copy'[a] = row \/ (pc[a] \in UsesCopy /\ copy'[a] = copy[a]))

LEMMA GotoMoves ==
  ASSUME TypeOK, NEW a \in Actors, NEW label \in Labels, Goto(a, label),
         label \in UsesCopy => pc[a] \in UsesCopy /\ SameRun,
         pc[a] \notin UsesCopy => SameRun
  PROVE  Moves(a)
  BY GotoStep DEF Moves

LEMMA ReadMoves ==
  ASSUME TypeOK, NEW a \in Actors, NEW label \in Labels, Read(a, label), SameRun
  PROVE  Moves(a)
  BY ReadStep DEF Moves

(* A transition from a copy that says what the row says.                   *)
LEMMA TransitionedCharges ==
  ASSUME NEW c, row \in Row, NEW to \in Statuses, c.retry = row.retry,
         row' = Transitioned(c, to)
  PROVE  row'.status = to /\ Charges
  <1>1. row.retry \in Nat
    BY DEF Row
  <1>2. row'.status = to /\ row'.retry = IF to = "RETRYING" THEN c.retry + 1 ELSE row.retry
    BY DEF Transitioned, Row
  <1> QED
    BY <1>1, <1>2 DEF Charges

(* A legal transition of an actor whose copy is up to date.                *)
LEMMA LegalStep ==
  ASSUME SerialInv, NEW a \in Actors, pc[a] \in UsesCopy, NEW to \in Statuses,
         Legal(copy[a].status, to), row' = Transitioned(copy[a], to),
         exists, exists' = exists
  PROVE  LifecycleStep
  <1>1. copy[a].status = row.status /\ copy[a].retry = row.retry /\ row \in Row
    BY DEF SerialInv, Synced, IInv, TypeOK
  <1>2. row'.status = to /\ Charges
    BY <1>1, TransitionedCharges
  <1> QED
    BY <1>1, <1>2 DEF LifecycleStep, Legal

(* The requests.                                                           *)
LEMMA RequestSerial ==
  ASSUME SerialInv,
         \/ \E s \in Starts : StartStep(s) \/ EnqueueFails(s)
         \/ \E c \in Cancels : CancelStep(c)
         \/ \E p \in Patches : Patch(p)
         \/ \E d \in Deletes : Delete(d)
         \/ \E r \in Requests : RequestDies(r)
  PROVE  LifecycleStep /\ \E a \in Actors : Moves(a)
  <1> USE DEF database, broker, faults
  <1>a. /\ Requests \subseteq Actors
        /\ Starts \subseteq Requests /\ Cancels \subseteq Requests
        /\ Patches \subseteq Requests /\ Deletes \subseteq Requests
    BY DEF Actors, Requests
  <1>l. /\ {"commit", "enqueue", "attach", "revoke", "done"} \subseteq Labels
        /\ {"new", "enqueue", "attach", "done"} \cap UsesCopy = {}
        /\ {"revoke", "commit"} \subseteq UsesCopy
    BY DEF Labels, UsesCopy
  <1>r. row \in Row /\ TypeOK
    BY DEF SerialInv, IInv, TypeOK
  <1>1. ASSUME NEW s \in Starts, StartLoad(s)
        PROVE  LifecycleStep /\ Moves(s)
    <2>1. PICK label \in {"commit", "done"} : Read(s, label)
      BY <1>1 DEF StartLoad
    <2>2. SameRun /\ exists' = exists
      BY <1>1 DEF StartLoad, SameRun
    <2> QED
      BY <1>a, <1>l, <1>r, <2>1, <2>2, ReadMoves DEF LifecycleStep
  <1>2. ASSUME NEW s \in Starts, StartCommit(s)
        PROVE  LifecycleStep /\ Moves(s)
    <2>1. pc[s] \in UsesCopy /\ exists' = exists
      BY <1>2, <1>l DEF StartCommit
    <2>2. Moves(s)
      <3>1. PICK label \in {"enqueue", "done"} : Goto(s, label)
        BY <1>2 DEF StartCommit
      <3> QED
        BY <1>a, <1>l, <1>r, <2>1, <3>1, GotoMoves
    <2>3. CASE ~exists
      BY <1>2, <2>1, <2>2, <2>3 DEF StartCommit, LifecycleStep, SameRun
    <2>4. CASE exists /\ copy[s].status = "FAILED"
      <3>1. copy[s].status = row.status
        BY <1>a, <2>1 DEF SerialInv, Synced
      <3>2. row'.status = "QUEUED"
        BY <1>2, <1>r, <2>4 DEF StartCommit, Row
      <3>3. "QUEUED" \in Transitions["FAILED"]
        BY DEF Transitions
      <3>4. Charges
        BY <3>2 DEF Charges
      <3> QED
        BY <2>1, <2>2, <2>4, <3>1, <3>2, <3>3, <3>4 DEF LifecycleStep
    <2>5. CASE exists /\ copy[s].status # "FAILED"
      <3>1. Fits(s, "commit", copy[s])
        BY <1>2, <1>a DEF StartCommit, SerialInv, IInv, CopiesFit
      <3>2. Legal(copy[s].status, "QUEUED")
        BY <1>l, <3>1 DEF Fits
      <3>3. row' = Transitioned(copy[s], "QUEUED")
        BY <1>2, <2>5 DEF StartCommit
      <3> QED
        BY <1>a, <2>1, <2>2, <2>5, <3>2, <3>3, LegalStep DEF Statuses
    <2> QED
      BY <2>2, <2>3, <2>4, <2>5
  <1>3. ASSUME NEW s \in Starts, Enqueue(s)
        PROVE  LifecycleStep /\ Moves(s)
    <2>1. PICK label \in {"attach", "done"} : Goto(s, label)
      BY <1>3 DEF Enqueue
    <2>2. SameRun /\ exists' = exists
      BY <1>3 DEF Enqueue, SameRun
    <2> QED
      BY <1>a, <1>l, <1>r, <2>1, <2>2, GotoMoves DEF LifecycleStep
  <1>4. ASSUME NEW r \in Requests,
               \/ EnqueueFails(r) \/ RequestDies(r) \/ AttachTaskId(r)
               \/ Patch(r) \/ Delete(r)
        PROVE  LifecycleStep /\ Moves(r)
    <2>1. Goto(r, "done")
      BY <1>4 DEF EnqueueFails, RequestDies, AttachTaskId, Patch, Delete
    <2>2. SameRun
      BY <1>4, <1>r
         DEF EnqueueFails, RequestDies, AttachTaskId, Patch, Delete, Row, SameRun
    <2>3. exists' = exists \/ (exists /\ exists' = FALSE)
      BY <1>4, <1>r
         DEF EnqueueFails, RequestDies, AttachTaskId, Patch, Delete, TypeOK
    <2> QED
      BY <1>a, <1>l, <1>r, <2>1, <2>2, <2>3, GotoMoves DEF LifecycleStep
  <1>5. ASSUME NEW c \in Cancels, CancelStep(c)
        PROVE  LifecycleStep /\ Moves(c)
    <2>1. CASE CancelLoad(c)
      <3>1. PICK label \in {"revoke", "done"} : Read(c, label)
        BY <2>1 DEF CancelLoad
      <3>2. SameRun /\ exists' = exists
        BY <2>1 DEF CancelLoad, SameRun
      <3> QED
        BY <1>a, <1>l, <1>r, <3>1, <3>2, ReadMoves DEF LifecycleStep
    <2>2. CASE Revoke(c)
      <3>1. SameRun /\ exists' = exists /\ pc[c] \in UsesCopy /\ Goto(c, "commit")
        BY <2>2, <1>l DEF Revoke, SameRun
      <3> QED
        BY <1>a, <1>l, <1>r, <3>1, GotoMoves DEF LifecycleStep
    <2>3. CASE CancelCommit(c)
      <3>1. exists' = exists /\ pc[c] \in UsesCopy /\ Goto(c, "done")
        BY <2>3, <1>l DEF CancelCommit
      <3>2. Moves(c)
        BY <1>a, <1>l, <1>r, <3>1, GotoMoves
      <3>3. CASE exists /\ Legal(copy[c].status, "CANCELLED")
        <4>1. row' = Transitioned(copy[c], "CANCELLED")
          BY <2>3, <3>3 DEF CancelCommit
        <4> QED
          BY <1>a, <3>1, <3>2, <3>3, <4>1, LegalStep DEF Statuses
      <3>4. CASE ~(exists /\ Legal(copy[c].status, "CANCELLED"))
        BY <2>3, <3>1, <3>2, <3>4 DEF CancelCommit, SameRun, LifecycleStep
      <3> QED
        BY <3>3, <3>4
    <2> QED
      BY <1>5, <2>1, <2>2, <2>3 DEF CancelStep
  <1> QED
    BY <1>1, <1>2, <1>3, <1>4, <1>5, <1>a DEF StartStep

(* The steps of a task.                                                    *)
LEMMA TaskSerial ==
  ASSUME SerialInv, NEW w \in Workers, TaskStep(w)
  PROVE  LifecycleStep /\ Moves(w)
  <1> USE WorkerLabels DEF database, broker, faults
  <1>w. w \in Actors
    BY DEF Actors
  <1>l. /\ {"ack", "advanced", "started", "parked", "failed", "retrying", "sync", "idle"}
             \cap UsesCopy = {}
        /\ {"attachTask", "toRetrying", "toQueued", "toRunning", "workflow", "retry",
            "syncCommit"} \subseteq UsesCopy
    BY DEF UsesCopy
  <1>r. row \in Row /\ TypeOK
    BY DEF SerialInv, IInv, TypeOK
  <1>1. CASE TaskAttachId(w)
    <2>1. PICK label \in Labels : Goto(w, label)
      BY <1>1 DEF TaskAttachId
    <2>2. SameRun /\ exists' = exists /\ pc[w] \in UsesCopy
      BY <1>1, <1>l, <1>r DEF TaskAttachId, Row, SameRun
    <2> QED
      BY <1>w, <1>r, <2>1, <2>2, GotoMoves DEF LifecycleStep
  <1>2. CASE TaskTransition(w)
    <2>1. pc[w] \in UsesCopy /\ exists' = exists /\ Target[pc[w]] \in Statuses
      BY <1>2, <1>l DEF TaskTransition, Target, Statuses
    <2>2. PICK label \in {"started", "advanced", "sync"} : Goto(w, label)
      BY <1>2 DEF TaskTransition
    <2>3. Moves(w)
      BY <1>w, <1>l, <1>r, <2>1, <2>2, GotoMoves
    <2>4. CASE exists /\ Legal(copy[w].status, Target[pc[w]])
      <3>1. row' = Transitioned(copy[w], Target[pc[w]])
        BY <1>2, <2>4 DEF TaskTransition
      <3> QED
        BY <1>w, <2>1, <2>3, <2>4, <3>1, LegalStep
    <2>5. CASE ~(exists /\ Legal(copy[w].status, Target[pc[w]]))
      BY <1>2, <2>1, <2>3, <2>5 DEF TaskTransition, SameRun, LifecycleStep
    <2> QED
      BY <2>4, <2>5
  <1>3. CASE TaskRefresh(w) \/ DecideRetry(w) \/ SyncLoad(w)
    <2>1. SameRun /\ exists' = exists /\ pc[w] \notin UsesCopy
      BY <1>3, <1>l DEF TaskRefresh, DecideRetry, SyncLoad, SameRun
    <2>2. (\E label \in Labels : Read(w, label)) \/ Goto(w, "sync")
      BY <1>3 DEF TaskRefresh, DecideRetry, SyncLoad
    <2> QED
      BY <1>w, <1>l, <1>r, <2>1, <2>2, GotoMoves, ReadMoves DEF LifecycleStep
  <1>4. CASE WorkflowReturns(w)
    <2>1. PICK final \in DOMAIN Outcome :
            IF exists
            THEN /\ row' = [Transitioned(copy[w], Outcome[final].status)
                              EXCEPT !.result = Outcome[final].result]
                 /\ Goto(w, IF final = "AWAITING" THEN "parked" ELSE "ack")
            ELSE UNCHANGED row /\ Goto(w, "sync")
      BY <1>4 DEF WorkflowReturns
    <2>2. pc[w] \in UsesCopy /\ exists' = exists
      BY <1>4, <1>l DEF WorkflowReturns
    <2>3. PICK label \in {"parked", "ack", "sync"} : Goto(w, label)
      BY <2>1
    <2>4. Moves(w)
      BY <1>w, <1>l, <1>r, <2>2, <2>3, GotoMoves
    <2>5. CASE ~exists
      BY <2>1, <2>2, <2>4, <2>5 DEF SameRun, LifecycleStep
    <2>6. CASE exists
      <3>1. copy[w].status = "RUNNING"
        BY <1>4, <1>l, <1>w DEF WorkflowReturns, SerialInv, IInv, CopiesFit, Fits
      <3>2. row.status = "RUNNING"
        BY <3>1, <2>2, <1>w DEF SerialInv, Synced
      <3>3. Outcome[final].status \in {"COMPLETED", "FAILED"}
        BY DEF Outcome
      <3>4. row'.status = Outcome[final].status /\ row'.retry = row.retry
        BY <1>r, <2>1, <2>6, <3>3 DEF Transitioned, Row
      <3>5. row.retry \in Nat
        BY <1>r DEF Row
      <3>6. Charges /\ row'.status \in Transitions[row.status]
        BY <3>2, <3>3, <3>4, <3>5 DEF Charges, Transitions
      <3> QED
        BY <2>2, <2>4, <2>6, <3>6 DEF LifecycleStep
    <2> QED
      BY <2>5, <2>6
  <1>5. CASE MarkAwaiting(w) \/ Ack(w) \/ Republish(w)
    <2>1. PICK label \in {"idle", "ack", "sync"} : Goto(w, label)
      BY <1>5 DEF MarkAwaiting, Ack, Settle, Republish
    <2>2. SameRun /\ exists' = exists
      BY <1>5 DEF MarkAwaiting, Ack, Republish, SameRun
    <2> QED
      BY <1>w, <1>l, <1>r, <2>1, <2>2, GotoMoves DEF LifecycleStep
  <1>6. CASE WorkflowRaises(w)
    <2>1. pc[w] \in UsesCopy /\ exists' = exists
      BY <1>6, <1>l DEF WorkflowRaises
    <2>2. PICK label \in {"ack", "failed", "sync"} : Goto(w, label)
      BY <1>6 DEF WorkflowRaises
    <2>3. Moves(w)
      BY <1>w, <1>l, <1>r, <2>1, <2>2, GotoMoves
    <2>4. CASE exists /\ row' = Transitioned(copy[w], "FAILED")
      <3>1. copy[w].status = "RUNNING"
        BY <1>6, <1>l, <1>w DEF WorkflowRaises, SerialInv, IInv, CopiesFit, Fits
      <3>2. Legal(copy[w].status, "FAILED")
        BY <3>1 DEF Legal, Transitions
      <3> QED
        BY <1>w, <2>1, <2>3, <2>4, <3>2, LegalStep DEF Statuses
    <2>5. CASE row' = row
      BY <2>1, <2>3, <2>5 DEF SameRun, LifecycleStep
    <2> QED
      BY <1>6, <2>4, <2>5 DEF WorkflowRaises
  <1>7. CASE CommitRetry(w)
    <2>1. pc[w] \in UsesCopy /\ exists' = exists
      BY <1>7, <1>l DEF CommitRetry
    <2>2. PICK label \in {"retrying", "sync"} : Goto(w, label)
      BY <1>7 DEF CommitRetry
    <2>3. Moves(w)
      BY <1>w, <1>l, <1>r, <2>1, <2>2, GotoMoves
    <2>4. CASE exists /\ Legal(copy[w].status, "RETRYING")
      <3>1. row' = Transitioned(copy[w], "RETRYING")
        BY <1>7, <2>4 DEF CommitRetry
      <3> QED
        BY <1>w, <2>1, <2>3, <2>4, <3>1, LegalStep DEF Statuses
    <2>5. CASE ~(exists /\ Legal(copy[w].status, "RETRYING"))
      BY <1>7, <2>1, <2>3, <2>5 DEF CommitRetry, SameRun, LifecycleStep
    <2> QED
      BY <2>4, <2>5
  <1>8. CASE SyncCommit(w)
    <2>1. pc[w] \in UsesCopy /\ exists' = exists /\ Goto(w, "ack")
      BY <1>8, <1>l DEF SyncCommit
    <2>2. Moves(w)
      BY <1>w, <1>l, <1>r, <2>1, GotoMoves
    <2>3. row.status \notin Terminal \cup {"CREATED"}
      <3>1. copy[w].status \notin Terminal
        BY <1>8, <1>l, <1>w DEF SyncCommit, SerialInv, IInv, CopiesFit, Fits
      <3>2. copy[w].status = row.status
        BY <1>w, <2>1 DEF SerialInv, Synced
      <3>3. row.status # "CREATED"
        BY <1>8 DEF SyncCommit, SerialInv, Unstarted
      <3> QED
        BY <3>1, <3>2, <3>3
    <2>4. row.status \in Active \cup {"FAILED"}
      BY <1>r, <2>3 DEF Row, Statuses, Active, Terminal
    <2>5. row.retry \in Nat
      BY <1>r DEF Row
    <2>6. CASE exists
      <3>1. row'.status = "FAILED" /\ row'.retry = row.retry
        BY <1>8, <1>r, <2>6 DEF SyncCommit, Row
      <3>2. Charges
        BY <2>5, <3>1 DEF Charges
      <3> QED
        BY <2>1, <2>2, <2>4, <2>6, <3>1, <3>2 DEF SameRun, LifecycleStep
    <2>7. CASE ~exists
      BY <1>8, <2>1, <2>2, <2>7 DEF SyncCommit, SameRun, LifecycleStep
    <2> QED
      BY <2>6, <2>7
  <1> QED
    BY <1>1, <1>2, <1>3, <1>4, <1>5, <1>6, <1>7, <1>8 DEF TaskStep

(* Deliveries and faults leave the row alone.                              *)
LEMMA DeliverySerial ==
  ASSUME SerialInv,
         \/ \E w \in Workers :
              \/ \E m \in Message : Receive(w, m)
              \/ SoftTimeLimit(w) \/ HardTimeLimit(w) \/ RepublishFails(w)
              \/ Crash(w) \/ VisibilityTimeout(w) \/ Terminate(w)
         \/ \E m \in Message : Discard(m)
  PROVE  /\ LifecycleStep
         /\ (\E a \in Actors : Moves(a)) \/ UNCHANGED <<row, pc, copy>>
  <1> USE WorkerLabels DEF database, broker, faults
  <1>l. {"ack", "idle", "sync"} \cap UsesCopy = {}
    BY DEF UsesCopy
  <1>r. TypeOK
    BY DEF SerialInv, IInv
  <1>1. UNCHANGED <<exists, row>>
    BY DEF Receive, SoftTimeLimit, HardTimeLimit, RepublishFails, Crash,
           VisibilityTimeout, Terminate, Redelivery, Discard
  <1>2. SameRun /\ LifecycleStep
    BY <1>1 DEF SameRun, LifecycleStep
  <1>3. ASSUME NEW w \in Workers, NEW m \in Message, Receive(w, m)
        PROVE  Moves(w)
    <2>1. PICK label \in Labels : Read(w, label)
      BY <1>3 DEF Receive
    <2> QED
      BY <1>r, <1>2, <2>1, ReadMoves DEF Actors
  <1>4. ASSUME NEW w \in Workers,
               \/ SoftTimeLimit(w) \/ HardTimeLimit(w) \/ RepublishFails(w)
               \/ Crash(w) \/ Terminate(w)
        PROVE  Moves(w)
    <2>1. PICK label \in {"idle", "sync"} : Goto(w, label)
      BY <1>4 DEF SoftTimeLimit, HardTimeLimit, RepublishFails, Crash, Terminate, Settle
    <2> QED
      BY <1>l, <1>r, <1>2, <2>1, GotoMoves DEF Actors
  <1>5. ASSUME (\E w \in Workers : VisibilityTimeout(w)) \/ (\E m \in Message : Discard(m))
        PROVE  UNCHANGED <<row, pc, copy>>
    BY <1>5 DEF VisibilityTimeout, Redelivery, Discard
  <1> QED
    BY <1>2, <1>3, <1>4, <1>5 DEF Actors

(* Every step.                                                             *)
LEMMA NextSerial ==
  ASSUME SerialInv, Next
  PROVE  /\ LifecycleStep
         /\ (\E a \in Actors : Moves(a)) \/ UNCHANGED <<row, pc, copy>>
  <1>1. Workers \subseteq Actors
    BY DEF Actors
  <1> QED
    BY <1>1, RequestSerial, TaskSerial, DeliverySerial DEF Next

(* A run that is still CREATED is one that no step has started.            *)
LEMMA StaysUnstarted ==
  ASSUME SerialInv, Next, LifecycleStep
  PROVE  Unstarted'
  <1> USE DEF database, broker, faults
  <1> SUFFICES ASSUME row'.status = "CREATED"
               PROVE  /\ \A m \in Message : queue'[m] = 0
                      /\ \A w \in Workers : pc'[w] = "idle"
                      /\ \A s \in Starts : pc'[s] \notin {"enqueue", "attach"}
    BY DEF Unstarted
  <1>r. row \in Row /\ TypeOK
    BY DEF SerialInv, IInv, TypeOK
  <1>c. row.status = "CREATED"
    BY <1>r DEF LifecycleStep, SameRun, Transitions, Row, Statuses
  <1>u. /\ \A m \in Message : queue[m] = 0
        /\ \A w \in Workers : pc[w] = "idle"
        /\ \A s \in Starts : pc[s] \notin {"enqueue", "attach"}
    BY <1>c DEF SerialInv, Unstarted
  <1>d. Workers \cap Requests = {} /\ Actors = Requests \cup Workers
    BY ActorsAssumption DEF Actors
  <1>1. ASSUME NEW r \in Actors, NEW label \in Labels, GoWith(r, label, copy[r]) \/ Read(r, label),
               r \in Workers => label = "idle", r \in Starts => label \notin {"enqueue", "attach"},
               queue' = queue
        PROVE  /\ \A m \in Message : queue'[m] = 0
               /\ \A w \in Workers : pc'[w] = "idle"
               /\ \A s \in Starts : pc'[s] \notin {"enqueue", "attach"}
    <2>1. /\ pc'[r] = label
          /\ \A b \in Actors \ {r} : pc'[b] = pc[b]
      BY <1>1, <1>r, GotoStep, ReadStep DEF Goto
    <2>2. Starts \subseteq Actors /\ Workers \subseteq Actors
      BY DEF Actors, Requests
    <2> QED
      BY <1>1, <1>u, <2>1, <2>2
  <1>l. {"commit", "revoke", "done", "idle"} \subseteq Labels
    BY DEF Labels
  <1>2. ASSUME NEW s \in Starts, StartStep(s) \/ EnqueueFails(s)
        PROVE  queue' = queue /\ \E label \in {"commit", "done"} :
                                    Goto(s, label) \/ Read(s, label)
    <2>1. ~(Enqueue(s) \/ EnqueueFails(s) \/ AttachTaskId(s))
      BY <1>2, <1>u DEF Enqueue, EnqueueFails, AttachTaskId
    <2>2. CASE StartLoad(s)
      BY <2>2 DEF StartLoad
    <2>3. CASE StartCommit(s)
      <3>1. CASE exists
        <4>1. row'.status = "QUEUED"
          BY <2>3, <3>1, <1>r DEF StartCommit, Transitioned, Row
        <4> QED
          BY <4>1
      <3>2. CASE ~exists
        BY <2>3, <3>2 DEF StartCommit
      <3> QED
        BY <3>1, <3>2
    <2> QED
      BY <1>2, <2>1, <2>2, <2>3 DEF StartStep
  <1>3. ASSUME NEW c \in Cancels, CancelStep(c)
        PROVE  queue' = queue /\ \E label \in {"revoke", "commit", "done"} :
                                    Goto(c, label) \/ Read(c, label)
    BY <1>3 DEF CancelStep, CancelLoad, Revoke, CancelCommit
  <1>4. ASSUME NEW r \in Requests, Patch(r) \/ Delete(r) \/ RequestDies(r)
        PROVE  queue' = queue /\ Goto(r, "done")
    BY <1>4 DEF Patch, Delete, RequestDies
  <1>5. ASSUME NEW w \in Workers,
               \/ TaskStep(w)
               \/ \E m \in Message : Receive(w, m)
               \/ SoftTimeLimit(w) \/ HardTimeLimit(w) \/ RepublishFails(w)
               \/ Crash(w) \/ VisibilityTimeout(w) \/ Terminate(w)
        PROVE  queue' = queue /\ Goto(w, "idle")
    <2>1. pc[w] = "idle" /\ \A m \in Message : ~(queue[m] > 0)
      BY <1>u
    <2>2. ~TaskStep(w)
      BY <2>1 DEF TaskStep, TaskAttachId, TaskTransition, TaskRefresh, WorkflowReturns,
                  MarkAwaiting, WorkflowRaises, DecideRetry, CommitRetry, Republish,
                  SyncLoad, SyncCommit, Ack, Target
    <2>3. Terminate(w)
      BY <1>5, <2>1, <2>2 DEF Receive, SoftTimeLimit, HardTimeLimit, RepublishFails, Crash,
                              VisibilityTimeout, Redelivery
    <2> QED
      BY <2>3 DEF Terminate, Settle
  <1>6. ASSUME NEW m \in Message, Discard(m)
        PROVE  FALSE
    BY <1>6, <1>u DEF Discard
  <1>7. Starts \cap Cancels = {} /\ Starts \cup Cancels \cup Patches \cup Deletes = Requests
    BY ActorsAssumption DEF Requests
  <1>8. PICK r \in Actors : \E label \in Labels :
          /\ Goto(r, label) \/ Read(r, label)
          /\ r \in Workers => label = "idle"
          /\ r \in Starts => label \notin {"enqueue", "attach"}
          /\ queue' = queue
    <2>1. CASE \E s \in Starts : StartStep(s) \/ EnqueueFails(s)
      BY <2>1, <1>2, <1>7, <1>d, <1>l
    <2>2. CASE \E c \in Cancels : CancelStep(c)
      BY <2>2, <1>3, <1>7, <1>d, <1>l
    <2>3. CASE \E r \in Requests : Patch(r) \/ Delete(r) \/ RequestDies(r)
      BY <2>3, <1>4, <1>7, <1>d, <1>l
    <2>4. CASE \E w \in Workers :
                 \/ TaskStep(w)
                 \/ \E m \in Message : Receive(w, m)
                 \/ SoftTimeLimit(w) \/ HardTimeLimit(w) \/ RepublishFails(w)
                 \/ Crash(w) \/ VisibilityTimeout(w) \/ Terminate(w)
      BY <2>4, <1>5, <1>7, <1>d, <1>l
    <2> QED
      BY <1>6, <1>7, <2>1, <2>2, <2>3, <2>4 DEF Next
  <1> QED
    BY <1>1, <1>8 DEF Goto

(* The initial states are serial ...                                       *)
LEMMA InitSerial == Init => SerialInv
  <1> SUFFICES ASSUME Init PROVE SerialInv
    OBVIOUS
  <1>1. \A a \in Actors : Resting(a) /\ pc[a] \notin UsesCopy
    BY DEF Init, Resting, UsesCopy
  <1>2. Alone /\ Synced
    BY <1>1 DEF Alone, Synced
  <1>3. Unstarted
    <2>1. \A s \in Starts : pc[s] \notin {"enqueue", "attach"}
      BY DEF Init, Actors, Requests
    <2>2. \A w \in Workers : pc[w] = "idle"
      BY DEF Init, Actors
    <2>3. \A m \in Message : queue[m] = 0
      BY DEF Init
    <2> QED
      BY <2>1, <2>2, <2>3 DEF Unstarted
  <1> QED
    BY <1>2, <1>3, InitIInv DEF SerialInv

(* ... and so are their successors.                                        *)
LEMMA SerialHolds == SerialInv /\ [SerialNext]_vars => SerialInv'
  <1> SUFFICES ASSUME SerialInv, [SerialNext]_vars PROVE SerialInv'
    OBVIOUS
  <1>1. CASE UNCHANGED vars
    <2>1. IInv'
      BY <1>1, NextIInv DEF SerialInv
    <2>2. Alone' /\ Synced' /\ Unstarted'
      BY <1>1 DEF vars, SerialInv, Alone, Resting, Synced, Unstarted
    <2> QED
      BY <2>1, <2>2 DEF SerialInv
  <1>2. CASE SerialNext
    <2>1. /\ Next
          /\ \A a \in Actors : Resting(a) /\ ~Resting(a)'
                                 => \A b \in Actors \ {a} : Resting(b)
      BY <1>2 DEF SerialNext
    <2>2. IInv'
      BY <2>1, NextIInv DEF SerialInv
    <2>3. LifecycleStep /\ ((\E a \in Actors : Moves(a)) \/ UNCHANGED <<row, pc, copy>>)
      BY <2>1, NextSerial
    <2>4. Unstarted'
      BY <2>1, <2>3, StaysUnstarted
    <2>5. CASE UNCHANGED <<row, pc, copy>>
      <3>1. Alone' /\ Synced'
        BY <2>5 DEF SerialInv, Alone, Resting, Synced
      <3> QED
        BY <2>2, <2>4, <3>1 DEF SerialInv
    <2>6. CASE \E a \in Actors : Moves(a)
      <3>1. PICK a \in Actors : Moves(a)
        BY <2>6
      <3>2. \A b \in Actors \ {a} : pc'[b] = pc[b] /\ copy'[b] = copy[b]
        BY <3>1 DEF Moves
      <3>3. \A b \in Actors \ {a} : Resting(b)' <=> Resting(b)
        BY <3>2 DEF Resting
      <3>4. Alone'
        <4> SUFFICES ASSUME NEW b \in Actors, NEW c \in Actors,
                            ~Resting(b)', ~Resting(c)', b # c
                     PROVE  FALSE
          BY DEF Alone
        <4>1. ~Resting(a)' /\ Resting(a) => \A d \in Actors \ {a} : Resting(d)
          BY <2>1
        <4>2. \A d, e \in Actors : ~Resting(d) /\ ~Resting(e) => d = e
          BY DEF SerialInv, Alone
        <4> QED
          BY <3>3, <4>1, <4>2
      <3>5. ASSUME NEW b \in Actors, pc'[b] \in UsesCopy
            PROVE  copy'[b].status = row'.status /\ copy'[b].retry = row'.retry
        <4>1. \A label \in UsesCopy : label \notin {"new", "done", "idle"}
          BY DEF UsesCopy
        <4>2. CASE b = a
          <5>1. SameRun /\ (copy'[a] = row \/ (pc[a] \in UsesCopy /\ copy'[a] = copy[a]))
            BY <3>1, <3>5, <4>2 DEF Moves
          <5> QED
            BY <4>2, <5>1 DEF SameRun, SerialInv, Synced
        <4>3. CASE b # a
          <5>1. pc[b] \in UsesCopy /\ copy'[b] = copy[b]
            BY <3>2, <3>5, <4>3
          <5>2. ~Resting(b)
            BY <4>1, <5>1 DEF Resting
          <5>3. pc[a] \notin UsesCopy
            BY <4>1, <4>3, <5>2 DEF SerialInv, Alone, Resting
          <5>4. SameRun
            BY <3>1, <5>3 DEF Moves
          <5> QED
            BY <5>1, <5>4 DEF SameRun, SerialInv, Synced
        <4> QED
          BY <4>2, <4>3
      <3>6. Synced'
        BY <3>5 DEF Synced
      <3> QED
        BY <2>2, <2>4, <3>4, <3>6 DEF SerialInv
    <2> QED
      BY <2>3, <2>5, <2>6
  <1> QED
    BY <1>1, <1>2

(* What a serial step does to the row.                                     *)
LEMMA SerialSteps == SerialInv /\ [SerialNext]_vars => LifecycleStep
  <1> SUFFICES ASSUME SerialInv, [SerialNext]_vars PROVE LifecycleStep
    OBVIOUS
  <1>1. CASE UNCHANGED vars
    BY <1>1 DEF vars, LifecycleStep, SameRun
  <1>2. CASE SerialNext
    BY <1>2, NextSerial DEF SerialNext
  <1> QED
    BY <1>1, <1>2

LEMMA SerialInvariant == SerialSpec => []SerialInv
  BY InitSerial, SerialHolds, PTL DEF SerialSpec

(* Executions that do not overlap implement the documented lifecycle: the  *)
(* status moves by the table, by the safety net from an active status, or  *)
(* goes with its row (experiment_service.py, TRANSITIONS).                 *)
THEOREM ImplementsLifecycle == SerialSpec => FollowsLifecycle
  <1>1. Init => Abstract!LInit
    BY DEF Init, Abstract!LInit
  <1>2. LifecycleStep => [Abstract!LNext]_(Abstract!lvars)
    <2> SUFFICES ASSUME LifecycleStep PROVE [Abstract!LNext]_(Abstract!lvars)
      OBVIOUS
    <2>1. CASE SameRun /\ exists' = exists
      BY <2>1 DEF SameRun, Abstract!lvars
    <2>2. CASE SameRun /\ exists /\ exists' = FALSE
      BY <2>2 DEF SameRun, Abstract!LNext, Abstract!LDelete
    <2>3. CASE exists /\ exists' = exists /\ row'.status \in Transitions[row.status]
      BY <2>3 DEF Abstract!LNext, Abstract!LTransition, Abstract!Transitions, Transitions
    <2>4. CASE exists /\ exists' = exists /\ row.status \in Active /\ row'.status = "FAILED"
      BY <2>4 DEF Abstract!LNext, Abstract!LSafetyNet, Abstract!Active, Active
    <2> QED
      BY <2>1, <2>2, <2>3, <2>4 DEF LifecycleStep
  <1> QED
    BY <1>1, <1>2, SerialInvariant, SerialSteps, PTL
       DEF SerialSpec, FollowsLifecycle, Abstract!LSpec

(* Without overlap a finished experiment stays finished, whatever is still *)
(* delivered or requested.                                                 *)
THEOREM SerialFinishes == SerialSpec => FinishedIsFinal
  <1>1. LifecycleStep => (row.status \in Terminal => row'.status = row.status)
    BY DEF LifecycleStep, SameRun, Terminal, Active, Transitions
  <1>2. SerialInv /\ [SerialNext]_vars =>
          [row.status \in Terminal => row'.status = row.status]_row
    BY <1>1, SerialSteps, SerialHolds
  <1> QED
    BY <1>2, SerialInvariant, PTL DEF SerialSpec, FinishedIsFinal

(* Without overlap every automatic retry is charged once, and the budget   *)
(* is given back by a manual restart only.                                 *)
THEOREM SerialCounts == SerialSpec => RetriesAreCounted
  <1>1. ASSUME SerialInv, SerialInv', LifecycleStep
        PROVE  /\ row.status # "RETRYING" /\ row'.status = "RETRYING"
                    => row'.retry = row.retry + 1
               /\ row'.retry < row.retry => row'.status = "QUEUED"
    <2>1. row.retry \in Nat /\ row'.retry \in Nat
      BY <1>1 DEF SerialInv, IInv, TypeOK, Row
    <2> QED
      BY <1>1, <2>1 DEF LifecycleStep, SameRun, Charges
  <1>2. SerialInv /\ [SerialNext]_vars =>
          [/\ (row.status # "RETRYING" /\ row'.status = "RETRYING")
                => row'.retry = row.retry + 1
           /\ row'.retry < row.retry => row'.status = "QUEUED"]_row
    BY <1>1, SerialSteps, SerialHolds
  <1> QED
    BY <1>2, SerialInvariant, PTL DEF SerialSpec, RetriesAreCounted

=============================================================================
