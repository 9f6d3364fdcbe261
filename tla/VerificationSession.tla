------------------------- MODULE VerificationSession -------------------------
(***************************************************************************)
(* One verification session: the request that creates it, the background   *)
(* task that runs the fixed flow and commits a frame for every step of it, *)
(* the requests that link a pipeline experiment, the deletion of the       *)
(* experiment it belongs to, and the SSE readers that tail the row.        *)
(*                                                                         *)
(* The task works on its own SQLAlchemy copy of the row.  When a commit of *)
(* that session fails, SQLAlchemy rolls back and expires the copy, and     *)
(* every later access to one of its attributes raises: the copy is lost.   *)
(***************************************************************************)
EXTENDS Naturals, SequencesExt

CONSTANTS
  Readers,            \* connections to GET /sessions/{run_id}/stream
  Pipelines,          \* completed pipeline experiments of the workspace
  Own,                \* the experiment that the session created for itself
  ObjectiveCount,     \* 4 in the code
  CheckOutcomes,      \* the outcomes a check may have
  ChecksPerObjective,
  MaxDbErrors         \* bound: statements and commits that the database fails

CheckStatus == {"PASS", "FAIL", "NOT_VERIFIED", "BLOCKED"}

ASSUME SessionAssumption ==
  /\ Own \notin Pipelines
  /\ ObjectiveCount \in Nat \ {0}
  /\ CheckOutcomes \subseteq CheckStatus
  /\ ChecksPerObjective \in Nat \ {0}
  /\ MaxDbErrors \in Nat

-----------------------------------------------------------------------------
(* The fixed flow.  ALL_STAGES, by position.                               *)
Input == 1
CodeGeneration == 2
FirstObjective == 3
Objectives == FirstObjective .. 2 + ObjectiveCount
ReportStage == 3 + ObjectiveCount
Stages == Input .. ReportStage

StageStatus == {"RUNNING", "PASSED", "FAILED", "NOT_VERIFIED", "BLOCKED"}

(* A frame: its stage, its status and the check or problem it reports.     *)
Frame == [stage: Stages, status: StageStatus,
          detail: CheckStatus \cup {"none", "problem"}]

Update(stage, status) == [stage |-> stage, status |-> status, detail |-> "none"]

(* Faulty variant of the next: the frame has the status of the check.      *)
CheckUpdateRaw(stage, outcome) ==
  [stage |-> stage, status |-> outcome, detail |-> outcome]

CheckUpdate(stage, outcome) ==
  [stage |-> stage, status |-> "RUNNING", detail |-> outcome]

(* FAIL beats BLOCKED beats NOT_VERIFIED beats PASS.                       *)
RollUp(outcomes) ==
  CASE outcomes = {"PASS"} -> "PASSED"
    [] "FAIL" \in outcomes -> "FAILED"
    [] outcomes = {} \/ ("BLOCKED" \in outcomes /\ "FAIL" \notin outcomes) -> "BLOCKED"
    [] OTHER -> "NOT_VERIFIED"

(* The outcomes of the checks of the given stages, in a trail of frames.   *)
Outcomes(trail, stages) ==
  {trail[i].detail : i \in {j \in DOMAIN trail :
      trail[j].stage \in stages /\ trail[j].detail \in CheckStatus}}

ChecksDone(trail, stage) ==
  Cardinality({i \in DOMAIN trail :
      trail[i].stage = stage /\ trail[i].detail \in CheckStatus})

(* The intake gate or code generation has refused the request.             *)
Rejected(trail) ==
  \E i \in DOMAIN trail :
     trail[i] \in {Update(Input, "FAILED"), Update(CodeGeneration, "BLOCKED")}

Finished(trail) == trail # <<>> /\ Last(trail).stage = ReportStage

(* _blocked_report: every objective and the report, all BLOCKED.           *)
NextBlocked(trail) ==
  LET reached == Last(trail).stage
  IN  {Update(IF reached \in Objectives THEN reached + 1 ELSE FirstObjective, "BLOCKED")}

NextOfIntake(trail) ==
  LET last == Last(trail)
  IN  CASE last.status = "PASSED" -> {Update(CodeGeneration, "RUNNING")}
        [] last.status = "RUNNING" /\ last.detail = "problem" -> {Update(Input, "FAILED")}
        [] OTHER -> {Update(Input, "PASSED"), CheckUpdate(Input, "problem")}

NextOfCodeGeneration(trail) ==
  LET last == Last(trail)
  IN  CASE last.status = "RUNNING" -> {Update(CodeGeneration, "PASSED"),
                                       Update(CodeGeneration, "FAILED")}
        [] last.status = "FAILED" -> {Update(CodeGeneration, "BLOCKED")}
        [] OTHER -> {Update(FirstObjective, "RUNNING")}

NextOfObjective(trail) ==
  LET last == Last(trail)
      stage == last.stage
      closed == last.status # "RUNNING"
      more == ChecksDone(trail, stage) < ChecksPerObjective
  IN  CASE closed /\ stage + 1 \in Objectives -> {Update(stage + 1, "RUNNING")}
        [] closed /\ stage + 1 \notin Objectives -> {Update(ReportStage, "PASSED")}
        [] ~closed /\ more -> {CheckUpdate(stage, outcome) : outcome \in CheckOutcomes}
        [] ~closed /\ ~more -> {Update(stage, RollUp(Outcomes(trail, {stage})))}

(* What run_verification may emit after the frames of trail.               *)
NextFrames(trail) ==
  IF trail = <<>> THEN {Update(Input, "RUNNING")}
  ELSE IF Finished(trail) THEN {}
  ELSE IF Rejected(trail) THEN NextBlocked(trail)
  ELSE CASE Last(trail).stage = Input -> NextOfIntake(trail)
         [] Last(trail).stage = CodeGeneration -> NextOfCodeGeneration(trail)
         [] Last(trail).stage \in Objectives -> NextOfObjective(trail)

(* Positions at which the flow runs code that may raise: the model's       *)
(* answer is awaited, or the checks of an objective are computed.          *)
MayRaise(trail) ==
  /\ trail # <<>>
  /\ Last(trail) \in {Update(s, "RUNNING") : s \in {CodeGeneration} \cup Objectives}

(* The report that run_verification returns: where its facts came from,    *)
(* the verdict on each objective and the overall one.                      *)
Verdict(trail, stage) ==
  LET last == CHOOSE i \in DOMAIN trail :
                /\ trail[i].stage = stage
                /\ \A j \in DOMAIN trail : trail[j].stage = stage => j <= i
  IN  trail[last].status

Report == [source: Pipelines \cup {Own},
           verdicts: [Objectives -> StageStatus], overall: StageStatus]

ReportOf(trail, source) ==
  [source |-> source,
   verdicts |-> [s \in Objectives |-> Verdict(trail, s)],
   overall |-> IF Rejected(trail) THEN "BLOCKED"
               ELSE RollUp(Outcomes(trail, Objectives))]

-----------------------------------------------------------------------------
VARIABLES
  session,  \* the committed row: exists, status, log, report
  linked,   \* its linked_experiment_id
  at,       \* where the creating request, then the background task is
  copy,     \* the task's copy of the row: its log and link, unless lost
  trail,    \* the frames that the flow has emitted
  conn,     \* the SSE connections
  dbErrors  \* failures of the database so far

vars == <<session, linked, at, copy, trail, conn, dbErrors>>
task == <<at, copy, trail>>

NoCopy == [log |-> <<>>, source |-> Own, lost |-> FALSE]
Closed == [at |-> "closed", log |-> <<>>, status |-> "PENDING", report |-> {},
           sent |-> 0, got |-> <<>>]

SessionStatus == {"PENDING", "RUNNING", "COMPLETED", "FAILED"}

Labels == {"autolink", "scheduled", "begin", "facts", "flow", "fail", "over",
           "dead"}

Row == [exists: BOOLEAN, status: SessionStatus, log: Seq(Frame),
        report: SUBSET Report]
Copy == [log: Seq(Frame), source: Pipelines \cup {Own}, lost: BOOLEAN]
Connection ==
  [at: {"closed", "tailing", "sending", "error", "report", "broken"},
   log: Seq(Frame), status: SessionStatus, report: SUBSET Report,
   sent: Nat, got: Seq(Frame)]

Init ==
  /\ session = [exists |-> TRUE, status |-> "PENDING", log |-> <<>>, report |-> {}]
  /\ linked = Own
  /\ at = "autolink"
  /\ copy = NoCopy
  /\ trail = <<>>
  /\ conn = [r \in Readers |-> Closed]
  /\ dbErrors = 0

DbError == dbErrors < MaxDbErrors /\ dbErrors' = dbErrors + 1

Goto(label) == at' = label /\ UNCHANGED <<copy, trail>>

-----------------------------------------------------------------------------
(* The request that creates the session.                                   *)

(* The newest completed experiment of the workspace is linked, if there is *)
(* one; a SELECT that fails is logged and the session goes on unlinked.    *)
AutoLink ==
  /\ at = "autolink"
  /\ linked' \in IF session.exists THEN Pipelines \cup {linked} ELSE {linked}
  /\ Goto("scheduled")
  /\ UNCHANGED <<session, conn, dbErrors>>

(* The COMMIT of the link fails.  The error is logged, but the row object  *)
(* is expired, and the request fails when it reads row.id to schedule the  *)
(* background task.                                                        *)
AutoLinkFails ==
  /\ at = "autolink"
  /\ DbError \/ (~session.exists /\ UNCHANGED dbErrors)
  /\ Goto("over")
  /\ UNCHANGED <<session, linked, conn>>

-----------------------------------------------------------------------------
(* The background task.                                                    *)

(* The task loads the row with a session of its own.                       *)
Dispatch ==
  /\ at = "scheduled"
  /\ IF session.exists
       THEN /\ copy' = [copy EXCEPT !.source = linked]
            /\ at' = "begin"
            /\ UNCHANGED trail
       ELSE Goto("over")
  /\ UNCHANGED <<session, linked, conn, dbErrors>>

(* status RUNNING and an empty history, in one commit.                     *)
Begin ==
  /\ at = "begin"
  /\ session.exists
  /\ session' = [session EXCEPT !.status = "RUNNING", !.log = <<>>]
  /\ copy' = [copy EXCEPT !.log = <<>>]
  /\ at' = "facts"
  /\ UNCHANGED <<linked, trail, conn, dbErrors>>

(* An exception outside the try block of execute_session: the task logs it *)
(* and is over.                                                            *)
GivesUp ==
  /\ at \in {"scheduled", "begin"}
  /\ DbError \/ (at = "begin" /\ ~session.exists /\ UNCHANGED dbErrors)
  /\ Goto("over")
  /\ UNCHANGED <<session, linked, conn>>

LoadFacts ==
  /\ at = "facts"
  /\ session.exists
  /\ Goto("flow")
  /\ UNCHANGED <<session, linked, conn, dbErrors>>

(* load_facts or the flow raises: for a reason of its own, or because of   *)
(* the database, which may leave a transaction that cannot commit.         *)
Raises ==
  /\ at = "facts" \/ (at = "flow" /\ MayRaise(trail))
  /\ at' = "fail"
  /\ \/ UNCHANGED <<copy, dbErrors>>
     \/ at = "facts" /\ DbError /\ copy' = [copy EXCEPT !.lost = TRUE]
     \/ at = "facts" /\ DbError /\ UNCHANGED copy
  /\ UNCHANGED <<session, linked, trail, conn>>

(* Faulty variant of the next: the frame replaces the history.             *)
AppendedAlone(log, frame) == <<frame>>

(* _persist: the frame after the frames of the copy.                       *)
Appended(log, frame) == Append(log, frame)

(* One frame of the flow, committed at once.  _emit swallows the errors of *)
(* _persist: the flow goes on, and once the copy is lost no frame gets to  *)
(* the row.                                                                *)
Emit(frame) ==
  LET log == Appended(copy.log, frame)
  IN  /\ at = "flow"
      /\ trail' = Append(trail, frame)
      /\ \/ /\ ~copy.lost /\ session.exists
            /\ session' = [session EXCEPT !.log = log]
            /\ copy' = [copy EXCEPT !.log = log]
            /\ UNCHANGED dbErrors
         \/ /\ ~copy.lost
            /\ DbError \/ (~session.exists /\ UNCHANGED dbErrors)
            /\ copy' = [copy EXCEPT !.lost = TRUE]
            /\ UNCHANGED session
         \/ /\ copy.lost
            /\ UNCHANGED <<session, copy, dbErrors>>
      /\ UNCHANGED <<at, linked, conn>>

(* Faulty variant of the next: it does not need the history of the copy.   *)
CopyReadableAlways == TRUE

(* The generated files are taken from session_row.events, which raises     *)
(* when the copy is lost.                                                  *)
CopyReadable == ~copy.lost

(* The run is complete: its report and COMPLETED, in one commit.           *)
Complete ==
  /\ at = "flow"
  /\ Finished(trail)
  /\ CopyReadable
  /\ session.exists
  /\ session' = [session EXCEPT !.status = "COMPLETED",
                                !.report = {ReportOf(trail, copy.source)}]
  /\ Goto("over")
  /\ UNCHANGED <<linked, conn, dbErrors>>

(* This part of execute_session is outside its try block: an error is only *)
(* logged.                                                                 *)
CompleteFails ==
  /\ at = "flow"
  /\ Finished(trail)
  /\ DbError \/ ((copy.lost \/ ~session.exists) /\ UNCHANGED dbErrors)
  /\ Goto("over")
  /\ UNCHANGED <<session, linked, conn>>

(* Faulty variant of the next: the status is left as it was.               *)
FailureSilent == session

(* The exception handler of execute_session: FAILED and the error.         *)
Failure == [session EXCEPT !.status = "FAILED"]

Fail ==
  /\ at = "fail"
  /\ session.exists /\ ~copy.lost
  /\ session' = Failure
  /\ Goto("over")
  /\ UNCHANGED <<linked, conn, dbErrors>>

(* The handler's own commit fails.                                         *)
FailFails ==
  /\ at = "fail"
  /\ DbError \/ ((copy.lost \/ ~session.exists) /\ UNCHANGED dbErrors)
  /\ Goto("over")
  /\ UNCHANGED <<session, linked, conn>>

(* The process dies.  Nothing resumes the task, nothing sweeps the row.    *)
Crash ==
  /\ at \notin {"over", "dead"}
  /\ Goto("dead")
  /\ UNCHANGED <<session, linked, conn, dbErrors>>

TaskStep ==
  \/ AutoLink
  \/ Dispatch
  \/ Begin
  \/ LoadFacts
  \/ \E frame \in NextFrames(trail) : Emit(frame)
  \/ Complete
  \/ Fail

TaskFault ==
  AutoLinkFails \/ GivesUp \/ Raises \/ CompleteFails \/ FailFails \/ Crash

-----------------------------------------------------------------------------
(* Other requests.                                                         *)

(* link_experiment writes one column, whatever the task is doing.          *)
Link(e) ==
  /\ session.exists
  /\ linked' = e
  /\ UNCHANGED <<session, task, conn, dbErrors>>

(* The deletion of the session's experiment, of the linked one or of the   *)
(* workspace takes the row with it (ON DELETE CASCADE).                    *)
Delete ==
  /\ session.exists
  /\ session' = [session EXCEPT !.exists = FALSE]
  /\ UNCHANGED <<linked, task, conn, dbErrors>>

-----------------------------------------------------------------------------
(* The SSE readers.                                                        *)

(* The ownership check, then a stream that starts at frame 0.  A client    *)
(* may come back on a closed or finished connection.                       *)
Open(r) ==
  /\ session.exists
  /\ conn[r].at = "closed"
  /\ conn' = [conn EXCEPT ![r] = [Closed EXCEPT !.at = "tailing"]]
  /\ UNCHANGED <<session, linked, task, dbErrors>>

(* One tick: a fresh session reads the row as it is committed.             *)
Poll(r) ==
  /\ conn[r].at = "tailing"
  /\ conn' = IF session.exists
               THEN [conn EXCEPT ![r].at = "sending",
                                 ![r].log = session.log,
                                 ![r].status = session.status,
                                 ![r].report = session.report]
               ELSE [conn EXCEPT ![r] = [Closed EXCEPT !.at = "broken"]]
  /\ UNCHANGED <<session, linked, task, dbErrors>>

(* frames[sent:], one by one, as fast as the client takes them.            *)
Send(r) ==
  LET c == conn[r]
  IN  /\ c.at = "sending"
      /\ c.sent < Len(c.log)
      /\ conn' = [conn EXCEPT ![r].got = Append(@, c.log[c.sent + 1]),
                              ![r].sent = @ + 1]
      /\ UNCHANGED <<session, linked, task, dbErrors>>

(* Faulty variant of the next: the status is read again after the frames.  *)
SeenStatusFresh(r) == session.status

(* The status is the one that was read together with the frames.           *)
SeenStatus(r) == conn[r].status

(* The end of a tick: the error, the report, or a keep-alive comment and   *)
(* another tick.                                                           *)
EndTick(r) ==
  LET c == conn[r]
      seen == SeenStatus(r)
      next == CASE seen = "FAILED" -> "error"
                [] seen = "COMPLETED" -> "report"
                [] OTHER -> "tailing"
  IN  /\ c.at = "sending"
      /\ c.sent = Len(c.log)
      /\ conn' = [conn EXCEPT ![r] =
                    [Closed EXCEPT !.at = next, !.sent = c.sent, !.got = c.got,
                       !.report = IF next = "report" THEN c.report ELSE {}]]
      /\ UNCHANGED <<session, linked, task, dbErrors>>

(* The client goes away, or the connection breaks; or a finished one is    *)
(* forgotten.                                                              *)
Close(r) ==
  /\ conn[r].at # "closed"
  /\ conn' = [conn EXCEPT ![r] = Closed]
  /\ UNCHANGED <<session, linked, task, dbErrors>>

ReaderStep(r) == Poll(r) \/ Send(r) \/ EndTick(r)

Next ==
  \/ TaskStep
  \/ TaskFault
  \/ \E e \in Pipelines : Link(e)
  \/ Delete
  \/ \E r \in Readers : Open(r) \/ ReaderStep(r) \/ Close(r)

Spec == Init /\ [][Next]_vars

(* The event loop keeps running the task while its process lives, and      *)
(* keeps ticking the streams.                                              *)
FairSpec ==
  /\ Spec
  /\ WF_vars(TaskStep \/ TaskFault)
  /\ \A r \in Readers : WF_vars(ReaderStep(r))

-----------------------------------------------------------------------------
(* Properties.                                                             *)

TypeOK ==
  /\ session \in Row
  /\ linked \in Pipelines \cup {Own}
  /\ at \in Labels
  /\ copy \in Copy
  /\ trail \in Seq(Frame)
  /\ conn \in [Readers -> Connection]
  /\ dbErrors \in 0 .. MaxDbErrors

-----------------------------------------------------------------------------
(* What the session and its streams promise, through every interleaving    *)
(* with database errors, crashes, links and deletions.                     *)

Log == INSTANCE SessionLog WITH Frames <- Frame, Reports <- Report

(* A COMPLETED row has the whole flow in its log: every stage reached its  *)
(* final status, the report has exactly those statuses, and the overall    *)
(* verdict is a pass only if every objective passed.  No run completes     *)
(* with a frame missing, although the flow ignores frames that it could    *)
(* not commit.                                                             *)
ReportMatchesLog ==
  session.status = "COMPLETED" =>
    /\ Finished(session.log)
    /\ \A report \in session.report :
         /\ \A s \in Objectives : report.verdicts[s] = Verdict(session.log, s)
         /\ report.overall = "PASSED"
              <=> \A s \in Objectives : report.verdicts[s] = "PASSED"

(* What a connection has received is a prefix of the log, in order and     *)
(* without a gap or a repetition; when the report arrives it is the whole  *)
(* log, the report is the one of the row, and an error arrives only from a *)
(* FAILED row.                                                             *)
StreamIsFaithful ==
  \A r \in Readers :
    LET c == conn[r]
    IN  /\ IsPrefix(c.got, session.log)
        /\ c.at = "report" => /\ c.got = session.log
                              /\ c.report # {} /\ c.report = session.report
        /\ c.at = "error" => session.status = "FAILED"

(* Every step is a step of an append-only log that ends once: no frame is  *)
(* rewritten, a finished session never changes again, however many clients *)
(* link or read it meanwhile.                                              *)
FollowsSessionLog == Log!SLSpec

(* A client that tails the session is answered: the stream ends with the   *)
(* report or the error, or breaks because the row is gone.  Only a         *)
(* database error or the death of the process leaves it tailing.           *)
StreamsEnd ==
  \A r \in Readers :
    conn[r].at \in {"tailing", "sending"}
      ~> \/ conn[r].at \notin {"tailing", "sending"}
         \/ dbErrors > 0
         \/ at = "dead"

-----------------------------------------------------------------------------
(* What a comment of the repository says, and the code does not do.        *)

(* _emit: "A broken progress sink must never fail a run."  When the flow   *)
(* has finished after a frame could not be committed, the run is recorded  *)
(* as COMPLETED.                                                           *)
BrokenSinkFailsNoRun ==
  (at = "over" /\ Finished(trail) /\ copy.lost /\ session.exists)
     => session.status = "COMPLETED"

=============================================================================
