----------------------------- MODULE SessionLog -----------------------------
(***************************************************************************)
(* What a verification session promises to whoever reads its row: a log of *)
(* frames that only grows while the run is going, one verdict at the end,  *)
(* and nothing after the verdict.  VerificationSession implements it.      *)
(***************************************************************************)
EXTENDS SequencesExt

CONSTANTS
  Frames,   \* what a frame may be
  Reports   \* what a report may be

SessionStatus == {"PENDING", "RUNNING", "COMPLETED", "FAILED"}

(* The complement of VerificationSession.running.                          *)
Ended == {"COMPLETED", "FAILED"}

(* The report is a set of at most one report.                              *)
NewSession ==
  [exists |-> TRUE, status |-> "PENDING", log |-> <<>>, report |-> {}]

Begins(s, t) ==
  /\ s.status = "PENDING"
  /\ t = [s EXCEPT !.status = "RUNNING", !.log = <<>>]

Emits(s, t) ==
  /\ s.status = "RUNNING"
  /\ t.log # <<>>
  /\ Last(t.log) \in Frames
  /\ t = [s EXCEPT !.log = Append(@, Last(t.log))]

Completes(s, t) ==
  /\ s.status = "RUNNING"
  /\ \E report \in t.report :
       /\ report \in Reports
       /\ t = [s EXCEPT !.status = "COMPLETED", !.report = {report}]

Fails(s, t) ==
  /\ s.status = "RUNNING"
  /\ t = [s EXCEPT !.status = "FAILED"]

(* The row goes with the experiment it belongs to.                         *)
Vanishes(s, t) == t = [s EXCEPT !.exists = FALSE]

(* A session that is in state s may next be in state t.                    *)
Moves(s, t) ==
  /\ s.exists
  /\ \/ Begins(s, t)
     \/ Emits(s, t)
     \/ Completes(s, t)
     \/ Fails(s, t)
     \/ Vanishes(s, t)

VARIABLE session

SLInit == session = NewSession

SLNext == Moves(session, session')

SLSpec == SLInit /\ [][SLNext]_session

=============================================================================
