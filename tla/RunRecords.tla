----------------------------- MODULE RunRecords -----------------------------
(***************************************************************************)
(* The records of one run and those who judge by them.  The worker commits *)
(* the lineage and the memory of the run before its row (workers/tasks.py, *)
(* services/evidence_persist.py), may die anywhere and is given the        *)
(* message again.  The gate of the API verifies the recorded decisions and *)
(* writes the row itself (services/verification_service.py).  A session    *)
(* linked to the run reads its records one query after the other           *)
(* (services/objective_verification_service.py, load_facts).               *)
(***************************************************************************)
EXTENDS Claims, ObjectiveChecks

CONSTANTS
  Finals,    \* final states of the workflow, by names for them
  Other,     \* the name of the one that another experiment had
  MaxRuns,   \* bound: executions of the workflow
  MaxLosses  \* bound: crashes, failed commits and failed searches

VARIABLES
  record,        \* the row: status, result_summary, whether one write tore it
  lineages,      \* the final states persist_workflow_evidence has recorded
  memories,      \* experience memories of the run
  verification,  \* the Verification row: its overall status
  worker,        \* where the worker is, and its workflow's final state
  gate,          \* one request to verify the experiment
  session,       \* one session: what it read so far
  runs, losses

recordVars == <<record, lineages, memories, verification, worker, gate, session,
                runs, losses>>

NoFacts ==
  [problem |-> TRUE, executions |-> 0, agents |-> {}, decisions |-> 0,
   withRationale |-> 0, withConfidence |-> 0, nodes |-> 0, memory |-> 0,
   memoryTypes |-> 0, metrics |-> FALSE, score |-> {}, baseline |-> {},
   verification |-> {}, hasResult |-> FALSE, failures |-> {}]

Waiting ==
  [at |-> "idle", searched |-> FALSE, results |-> <<>>, overall |-> "none",
   verdicts |-> {}, row |-> {}]

RecordInit ==
  /\ record = [status |-> "QUEUED", result |-> {}, torn |-> FALSE]
  /\ lineages = <<>> /\ memories = 0 /\ verification = {}
  /\ worker = [at |-> "idle", final |-> {}, lost |-> FALSE]
  /\ gate = Waiting
  /\ session = [at |-> "idle", linked |-> FALSE, facts |-> NoFacts]
  /\ runs = 0 /\ losses = 0

Loses == losses < MaxLosses /\ losses' = losses + 1

(* What is recorded of a final state: the claims of each decision and the  *)
(* evidence nodes.                                                         *)
Recorded ==
  [name \in DOMAIN Finals |->
     LET decisions == BuildDecisions(Finals[name])
     IN [claims |-> [i \in DOMAIN decisions |-> AllClaims(decisions[i])],
         nodes |-> FlattenSeq([i \in DOMAIN decisions |-> EvidenceNodes(decisions[i])])]]

DecisionsOf(names) == FlattenSeq([i \in DOMAIN names |-> Recorded[names[i]].claims])
NodesOf(names) == FlattenSeq([i \in DOMAIN names |-> Recorded[names[i]].nodes])

Decisions == DecisionsOf(lineages)
OwnNodes == NodesOf(lineages)

---------------------------------------------------------------------------
(* The worker                                                              *)

Goes(label) == worker' = [worker EXCEPT !.at = label]
Forgets == worker' = [worker EXCEPT !.at = "idle", !.final = {}]

(* A queued run, or one whose worker died, is executed.                    *)
Execute ==
  /\ worker.at = "idle" /\ record.status \in {"QUEUED", "RUNNING"}
  /\ runs < MaxRuns /\ runs' = runs + 1
  /\ record' = [record EXCEPT !.status = "RUNNING"]
  /\ \E name \in DOMAIN Finals : worker' = [worker EXCEPT !.at = "persist", !.final = {name}]
  /\ UNCHANGED <<lineages, memories, verification, gate, session, losses>>

Name == CHOOSE name \in worker.final : TRUE
Final == Finals[Name]

(* A mutant of PersistEvidence: what is there is not looked for.           *)
PersistEvidenceAgain ==
  /\ worker.at = "persist"
  /\ lineages' = Append(lineages, Name)
  /\ Goes(IF Final.status # "FAILED" /\ Final.score # {} THEN "memory" ELSE "commit")
  /\ UNCHANGED <<record, memories, verification, gate, session, runs, losses>>

(* persist_workflow_evidence: one lineage for each experiment, all of it   *)
(* in one commit; an error is logged and loses it.                         *)
PersistEvidence ==
  /\ worker.at = "persist"
  /\ LET drafts == Recorded[Name].claims
     IN \/ /\ lineages # <<>> \/ drafts = <<>>
           /\ Goes("commit") /\ UNCHANGED <<lineages, losses>>
        \/ /\ lineages = <<>> /\ drafts # <<>>
           /\ lineages' = <<Name>>
           /\ Goes(IF Final.status # "FAILED" /\ Final.score # {}
                   THEN "memory" ELSE "commit")
           /\ UNCHANGED losses
        \/ /\ lineages = <<>> /\ Loses
           /\ worker' = [worker EXCEPT !.at = "commit", !.lost = TRUE]
           /\ UNCHANGED lineages
  /\ UNCHANGED <<record, memories, verification, gate, session, runs>>

(* The memory has a commit of its own, which may fail as well.             *)
StoreMemory ==
  /\ worker.at = "memory"
  /\ \/ memories' = memories + 1 /\ UNCHANGED losses
     \/ Loses /\ UNCHANGED memories
  /\ Goes("commit")
  /\ UNCHANGED <<record, lineages, verification, gate, session, runs>>

(* The row last: a run that is parked is FAILED as well.                   *)
CommitRow ==
  /\ worker.at = "commit"
  /\ record' = [status |-> IF Final.status = "COMPLETED" THEN "COMPLETED" ELSE "FAILED",
                result |-> worker.final, torn |-> FALSE]
  /\ Forgets
  /\ UNCHANGED <<lineages, memories, verification, gate, session, runs, losses>>

WorkerDies ==
  /\ worker.at # "idle" /\ Loses
  /\ Forgets
  /\ UNCHANGED <<record, lineages, memories, verification, gate, session, runs>>

(* The user starts a failed run again.                                     *)
Restart ==
  /\ record.status = "FAILED" /\ worker.at = "idle" /\ runs < MaxRuns
  /\ record' = [record EXCEPT !.status = "QUEUED"]
  /\ UNCHANGED <<lineages, memories, verification, worker, gate, session, runs, losses>>

---------------------------------------------------------------------------
(* The gate: POST /verification/experiment                                 *)

(* What the claims of all recorded decisions turn out to be, each searched *)
(* for among nodes of the run and of another one, which may be newer or    *)
(* older, or without any evidence.                                         *)
ClaimResults ==
  [names \in SeqOf(DOMAIN Finals, MaxRuns) |->
     LET claims == FlattenSeq(DecisionsOf(names))
         own == NodesOf(names)
         foreign == Recorded[Other].nodes
     IN [searched \in BOOLEAN |->
           {[i \in DOMAIN claims |-> ClaimStatus(claims[i], trail)] :
              trail \in IF searched THEN {own \o foreign, foreign \o own} ELSE {<<>>}}]]

(* verify_claims.  Another request that registers its sources takes the    *)
(* session away and the search fails, which counts as no evidence.         *)
GateVerify ==
  /\ gate.at = "idle"
  /\ \E searched \in BOOLEAN :
       /\ IF searched THEN UNCHANGED losses ELSE Loses
       /\ \E results \in ClaimResults[lineages][searched] :
            gate' = [gate EXCEPT !.at = "verified", !.searched = searched,
                       !.results = results, !.overall = Overall(results)]
  /\ UNCHANGED <<record, lineages, memories, verification, worker, session, runs>>

(* The statuses that the n-th of the decisions is given: those at the      *)
(* positions of its claims, as far as there are results.                   *)
Share(decisions, n) ==
  LET before == Len(FlattenSeq(SubSeq(decisions, 1, n - 1)))
      after == before + Len(decisions[n])
  IN SubSeq(gate.results, before + 1, Min({after, Len(gate.results)}))

(* A second query, in an order of its own, pairs decisions and results by  *)
(* position, of which the verdicts and what is overall are left.           *)
GatePair ==
  /\ gate.at = "verified"
  /\ \E decisions \in {Decisions, Reverse(Decisions)} :
       gate' = [gate EXCEPT !.at = "paired", !.searched = FALSE, !.results = <<>>,
         !.verdicts = {DecisionVerdict(Share(decisions, n)) : n \in DOMAIN decisions}]
  /\ UNCHANGED <<record, lineages, memories, verification, worker, session, runs, losses>>

GateLoad ==
  /\ gate.at = "paired"
  /\ gate' = [gate EXCEPT !.at = "loaded", !.row = {record}]
  /\ UNCHANGED <<record, lineages, memories, verification, worker, session, runs, losses>>

(* What a result_summary says, if there is one.                            *)
Results(names) == {Finals[name] : name \in names}

(* The static checks of a result that fail; without one they are skipped.  *)
FailedChecks(result) ==
  {c \in {"metric_sanity"} :
     \E r \in Results(result) : \E m \in r.metrics : Insane(m.name, m.value)}
  \cup {c \in {"baseline_dominance"} :
     \E r \in Results(result) : \E s \in r.score, b \in r.baseline : ~Dominates(r.metric, s, b)}

(* Each final state has no more stages than the graph, measures finitely   *)
(* much and, where it is COMPLETED, has run stages and passed the static   *)
(* checks: the gate of the graph sets no other status then (what           *)
(* CompletedIsEarned says of the workflow).  The other experiment's is one *)
(* of them, and the bounds leave room for a run and a search.              *)
ASSUME RecordAssumption ==
  /\ Other \in DOMAIN Finals
  /\ MaxRuns \in Nat \ {0} /\ MaxLosses \in Nat /\ PageSize \in Nat \ {0}
  /\ \A name \in DOMAIN Finals :
       /\ Finals[name].stages \in 0 .. Len(DraftTypes)
       /\ IsFiniteSet(Finals[name].metrics)
       /\ Finals[name].status = "COMPLETED" =>
            Finals[name].stages > 0 /\ FailedChecks({name}) = {}

(* The outcome goes to the row whatever has become of it, but a status     *)
(* that equals the loaded one is not written.                              *)
GateCommit ==
  /\ gate.at = "loaded"
  /\ LET row == CHOOSE r \in gate.row : TRUE
         failed == FailedChecks(row.result)
         outcome == GateOutcome(failed, gate.verdicts)
     IN /\ record' = [status |-> IF outcome.status = row.status
                                 THEN record.status ELSE outcome.status,
                      result |-> row.result,
                      torn |-> record # row]
        /\ verification' = {IF failed # {} THEN "REJECTED" ELSE gate.overall}
  /\ gate' = Waiting
  /\ UNCHANGED <<lineages, memories, worker, session, runs, losses>>

---------------------------------------------------------------------------
(* The session                                                             *)

(* A mutant of LinkExperiment: any run may be linked.                      *)
LinkAny ==
  /\ session.at = "idle"
  /\ session' = [session EXCEPT !.at = "row", !.linked = TRUE]
  /\ UNCHANGED <<record, lineages, memories, verification, worker, gate, runs, losses>>

(* Only a completed run is linked.                                         *)
LinkExperiment ==
  /\ session.at = "idle" /\ record.status = "COMPLETED"
  /\ session' = [session EXCEPT !.at = "row", !.linked = TRUE]
  /\ UNCHANGED <<record, lineages, memories, verification, worker, gate, runs, losses>>

(* A session without a link reads the records of its own experiment, which *)
(* never ran.                                                              *)
JudgeFresh ==
  /\ session.at = "idle"
  /\ session' = [session EXCEPT !.at = "over"]
  /\ UNCHANGED <<record, lineages, memories, verification, worker, gate, runs, losses>>

(* The agents of the recorded decisions are those of the first stages.     *)
AgentOf ==
  <<"discovery", "profiler", "preprocessor", "model_selector", "ml_experiment",
    "verification">>

(* load_facts: the queries, in groups; anybody may commit between two.     *)
ReadFacts ==
  LET Reads(facts, next) == session' = [session EXCEPT !.at = next, !.facts = facts]
      f == session.facts
  IN /\ \/ /\ session.at = "row"
           /\ Reads([f EXCEPT
                !.metrics = \E r \in Results(record.result) : r.metrics # {},
                !.hasResult = record.result # {},
                !.score = UNION {r.score : r \in Results(record.result)},
                !.baseline = UNION {r.baseline : r \in Results(record.result)},
                !.failures = FailedChecks(record.result)], "executions")
        \/ /\ session.at = "executions"
           /\ Reads([f EXCEPT !.executions = Len(Decisions)], "decisions")
        \/ /\ session.at = "decisions"
           /\ Reads([f EXCEPT !.decisions = Len(Decisions), !.memory = memories,
                !.agents = {AgentOf[i] : i \in DOMAIN Decisions}], "texts")
        \/ /\ session.at = "texts"
           /\ Reads([f EXCEPT !.withRationale = Len(Decisions),
                !.withConfidence = Len(Decisions)], "nodes")
        \/ /\ session.at = "nodes"
           /\ Reads([f EXCEPT !.nodes = Len(OwnNodes)], "rest")
        \/ /\ session.at = "rest"
           /\ Reads([f EXCEPT !.verification = verification,
                !.memoryTypes = memories], "over")
     /\ UNCHANGED <<record, lineages, memories, verification, worker, gate, runs, losses>>

RecordNext ==
  \/ Execute \/ PersistEvidence \/ StoreMemory \/ CommitRow \/ WorkerDies \/ Restart
  \/ GateVerify \/ GatePair \/ GateLoad \/ GateCommit
  \/ LinkExperiment \/ JudgeFresh \/ ReadFacts

RecordSpec == RecordInit /\ [][RecordNext]_recordVars

---------------------------------------------------------------------------

RecordTypeOK ==
  /\ record.status \in {"QUEUED", "RUNNING", "COMPLETED", "FAILED"}
  /\ record.result \cup worker.final \subseteq DOMAIN Finals
  /\ verification \subseteq {"VERIFIED", "CONFLICT", "UNVERIFIED", "REJECTED"}
  /\ gate.verdicts \subseteq {"VERIFIED", "CONFLICT", "UNVERIFIED"}
  /\ memories \in Nat /\ runs \in 0 .. MaxRuns /\ losses \in 0 .. MaxLosses

(* "Idempotency: one lineage per experiment": whatever crash, redelivery   *)
(* or restart comes between the commit of the lineage and that of the row, *)
(* the run has one lineage and one memory at most (evidence_persist.py).   *)
LineageIsOnce == Len(lineages) <= 1 /\ memories <= Len(lineages)

(* "Evidence rationales are derived from the claims themselves so the      *)
(* internal evidence search always finds the piece that supports a claim": *)
(* with any newer nodes of other experiments on the page, every claim of a *)
(* recorded decision is supported, or ruled out by the guidelines, when    *)
(* the gate has searched (evidence_persist.py, engine/verification).       *)
ClaimsFindEvidence ==
  gate.searched => "UNVERIFIED" \notin ToSet(gate.results)

(* "The static gate is authoritative": the claims of a failed run support  *)
(* themselves, and still no run whose measured result the static checks    *)
(* reject is COMPLETED, by the worker or by a verification, unless the row *)
(* changed between the gate's read and its write                           *)
(* (verification_service.py).                                              *)
NeverVerifiedWorse ==
  record.status = "COMPLETED" /\ ~record.torn => FailedChecks(record.result) = {}

(* A session that is linked reads the records one by one while others      *)
(* write them, and still judges the whole of them: every decision of the   *)
(* run and its evidence are found and the audit chain is walkable, unless  *)
(* the lineage could not be stored.  A session that is not linked finds    *)
(* nothing, and nothing that needs a run is PASS or FAIL (checks.py,       *)
(* objective_verification_service.py).                                     *)
JudgedAsRecorded ==
  session.at = "over" =>
    LET f == session.facts
        chain == Objective4(f)
    IN IF session.linked
       THEN ~worker.lost =>
              /\ \A c \in {"o4_decision_rationale", "o4_decision_confidence",
                           "o4_evidence_nodes", "o4_audit_chain"} : chain[c] = "PASS"
              /\ chain["o4_experience_memory"] # "FAIL"
       ELSE \A verdicts \in {Objective2(f, Repository), Objective3(f, Repository), chain} :
              \A c \in DOMAIN verdicts \cap RuntimeChecks : verdicts[c] = "NOT_VERIFIED"

=============================================================================
