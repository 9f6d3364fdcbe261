---------------------- MODULE VerificationSessionProofs ----------------------
(***************************************************************************)
(* Proofs about VerificationSession, for any number of readers, pipelines, *)
(* objectives, checks and database errors.                                 *)
(***************************************************************************)
EXTENDS VerificationSession, SequenceTheorems, FiniteSetTheorems, TLAPS

-----------------------------------------------------------------------------
(* Frames and trails.                                                      *)

(* The stages of the flow, by their order.                                 *)
LEMMA StageOrder ==
  /\ ObjectiveCount \in Nat \ {0}
  /\ Input = 1 /\ CodeGeneration = 2 /\ FirstObjective = 3
  /\ ReportStage = 3 + ObjectiveCount
  /\ Stages = 1 .. 3 + ObjectiveCount
  /\ Objectives = 3 .. 2 + ObjectiveCount
  BY SessionAssumption
     DEF Input, CodeGeneration, FirstObjective, ReportStage, Stages, Objectives

(* A stage and a status make a frame.                                      *)
LEMMA UpdateType ==
  ASSUME NEW stage \in Stages, NEW status \in StageStatus
  PROVE  Update(stage, status) \in Frame
  BY DEF Update, Frame

(* So do a stage and the outcome of a check, or a problem with the intake. *)
LEMMA CheckUpdateType ==
  ASSUME NEW stage \in Stages, NEW detail \in CheckStatus \cup {"problem"}
  PROVE  CheckUpdate(stage, detail) \in Frame
  BY DEF CheckUpdate, Frame, StageStatus

(* A roll-up is a status.                                                  *)
LEMMA RollUpType == \A outcomes : RollUp(outcomes) \in StageStatus
  BY DEF RollUp, StageStatus

(* A roll-up passes only when every check passed.                          *)
LEMMA RollUpPassed ==
  ASSUME NEW outcomes
  PROVE  RollUp(outcomes) = "PASSED" <=> outcomes = {"PASS"}
  BY DEF RollUp

(* The last frame of a trail.                                              *)
LEMMA LastType ==
  ASSUME NEW t \in Seq(Frame), t # <<>>
  PROVE  /\ Last(t) \in Frame
         /\ Len(t) \in DOMAIN t
         /\ Last(t) = t[Len(t)]
  BY EmptySeq, LenProperties, ElementOfSeq DEF Last

(* Appending a frame.                                                      *)
LEMMA AppendFacts ==
  ASSUME NEW t \in Seq(Frame), NEW f \in Frame
  PROVE  /\ Append(t, f) \in Seq(Frame)
         /\ Append(t, f) # <<>>
         /\ DOMAIN Append(t, f) = 1 .. Len(t) + 1
         /\ DOMAIN t = 1 .. Len(t)
         /\ Len(t) \in Nat
         /\ Len(Append(t, f)) = Len(t) + 1
         /\ \A i \in 1 .. Len(t) : Append(t, f)[i] = t[i]
         /\ Append(t, f)[Len(t) + 1] = f
         /\ Last(Append(t, f)) = f
  BY AppendProperties, LenProperties DEF Last

(* i is the place of the last frame of a stage.                            *)
IsLastOf(t, stage, i) ==
  /\ i \in DOMAIN t
  /\ t[i].stage = stage
  /\ \A j \in DOMAIN t : t[j].stage = stage => j <= i

(* The verdict on a stage is the status of its last frame.                 *)
LEMMA VerdictIsLast ==
  ASSUME NEW t \in Seq(Frame), NEW stage, NEW i, IsLastOf(t, stage, i)
  PROVE  Verdict(t, stage) = t[i].status
  <1> DEFINE last == CHOOSE k \in DOMAIN t :
                /\ t[k].stage = stage
                /\ \A j \in DOMAIN t : t[j].stage = stage => j <= k
  <1>1. /\ last \in DOMAIN t
        /\ t[last].stage = stage
        /\ \A j \in DOMAIN t : t[j].stage = stage => j <= last
    BY DEF IsLastOf
  <1>2. DOMAIN t = 1 .. Len(t) /\ Len(t) \in Nat
    BY LenProperties
  <1> HIDE DEF last
  <1>3. i <= last /\ last <= i /\ i \in Int /\ last \in Int
    BY <1>1, <1>2 DEF IsLastOf
  <1>4. i = last
    BY <1>3
  <1> QED
    BY <1>4 DEF Verdict, last

(* Appending a frame changes the verdict on its own stage only.            *)
LEMMA VerdictOfAppended ==
  ASSUME NEW t \in Seq(Frame), NEW f \in Frame
  PROVE  /\ IsLastOf(Append(t, f), f.stage, Len(t) + 1)
         /\ Verdict(Append(t, f), f.stage) = f.status
         /\ \A stage, i : (stage # f.stage /\ IsLastOf(t, stage, i))
              => /\ IsLastOf(Append(t, f), stage, i)
                 /\ Verdict(Append(t, f), stage) = Verdict(t, stage)
  <1>1. IsLastOf(Append(t, f), f.stage, Len(t) + 1)
    BY AppendFacts DEF IsLastOf
  <1>a. Append(t, f) \in Seq(Frame) /\ Append(t, f)[Len(t) + 1] = f
    BY AppendFacts
  <1>2. Verdict(Append(t, f), f.stage) = f.status
    <2>1. Verdict(Append(t, f), f.stage) = Append(t, f)[Len(t) + 1].status
      BY <1>1, <1>a, VerdictIsLast
    <2> QED
      BY <2>1, <1>a
  <1>3. ASSUME NEW stage, NEW i, stage # f.stage, IsLastOf(t, stage, i)
        PROVE  /\ IsLastOf(Append(t, f), stage, i)
               /\ Verdict(Append(t, f), stage) = Verdict(t, stage)
    <2>1. IsLastOf(Append(t, f), stage, i) /\ Append(t, f)[i] = t[i]
      BY <1>3, AppendFacts DEF IsLastOf
    <2>2. Verdict(Append(t, f), stage) = Append(t, f)[i].status
      BY <2>1, <1>a, VerdictIsLast
    <2>3. Verdict(t, stage) = t[i].status
      BY <1>3, VerdictIsLast
    <2> QED
      BY <2>1, <2>2, <2>3
  <1> QED
    BY <1>1, <1>2, <1>3

(* The outcomes of the checks after one more frame.                        *)
LEMMA OutcomesOfAppended ==
  ASSUME NEW t \in Seq(Frame), NEW f \in Frame, NEW stages
  PROVE  Outcomes(Append(t, f), stages) =
           Outcomes(t, stages) \cup
             (IF f.stage \in stages /\ f.detail \in CheckStatus
                THEN {f.detail} ELSE {})
  BY AppendFacts DEF Outcomes

(* Only two frames reject a request.                                       *)
LEMMA RejectedAppended ==
  ASSUME NEW t \in Seq(Frame), NEW f \in Frame
  PROVE  Rejected(Append(t, f)) <=>
           \/ Rejected(t)
           \/ f \in {Update(Input, "FAILED"), Update(CodeGeneration, "BLOCKED")}
  BY AppendFacts DEF Rejected

(* Once a check has been counted, there is an outcome.                     *)
LEMMA CountedOutcome ==
  ASSUME NEW t \in Seq(Frame), NEW stage,
         ~(ChecksDone(t, stage) < ChecksPerObjective)
  PROVE  Outcomes(t, {stage}) # {}
  <1> DEFINE places == {i \in DOMAIN t :
                          t[i].stage = stage /\ t[i].detail \in CheckStatus}
  <1>1. CASE places = {}
    <2>1. Cardinality(places) = 0
      BY <1>1, FS_EmptySet
    <2> QED
      BY <2>1, SessionAssumption DEF ChecksDone
  <1>2. CASE places # {}
    BY <1>2 DEF Outcomes
  <1> QED
    BY <1>1, <1>2

-----------------------------------------------------------------------------
(* The flow: what is known of the frames emitted so far.                   *)

(* A stage is closed when the flow has left it or given its verdict.       *)
StageClosed(t, s) ==
  \/ s < Last(t).stage
  \/ s = Last(t).stage /\ Last(t).status # "RUNNING"

InOrder(t) == \A i \in DOMAIN t : t[i].stage <= Last(t).stage

Covered(t) ==
  \A s \in Objectives :
    s <= Last(t).stage => \E i \in DOMAIN t : IsLastOf(t, s, i)

RejectedAreBlocked(t) ==
  Rejected(t) =>
    /\ Last(t).stage \in Objectives => Last(t).status # "RUNNING"
    /\ \A s \in Objectives : s <= Last(t).stage => Verdict(t, s) = "BLOCKED"

AcceptedAreRolledUp(t) ==
  ~Rejected(t) =>
    \A s \in Objectives :
      StageClosed(t, s) => /\ Verdict(t, s) = RollUp(Outcomes(t, {s}))
                          /\ Outcomes(t, {s}) # {}

FlowFits(t) ==
  t # <<>> => /\ InOrder(t)
              /\ Covered(t)
              /\ RejectedAreBlocked(t)
              /\ AcceptedAreRolledUp(t)

(* The frames that may follow, by the stage reached.                       *)
LEMMA NextFramesCases ==
  ASSUME NEW t \in Seq(Frame), NEW f \in NextFrames(t)
  PROVE  \/ t = <<>> /\ f = Update(Input, "RUNNING")
         \/ /\ t # <<>> /\ Last(t).stage # ReportStage
            /\ \/ Rejected(t) /\ f \in NextBlocked(t)
               \/ ~Rejected(t) /\ Last(t).stage = Input /\ f \in NextOfIntake(t)
               \/ /\ ~Rejected(t) /\ Last(t).stage = CodeGeneration
                  /\ f \in NextOfCodeGeneration(t)
               \/ /\ ~Rejected(t) /\ Last(t).stage \in Objectives
                  /\ f \in NextOfObjective(t)
  <1>1. CASE t = <<>>
    BY <1>1 DEF NextFrames
  <1>2. CASE t # <<>>
    <2>1. Last(t).stage \in Stages
      BY <1>2, LastType DEF Frame
    <2>2. Last(t).stage \in {Input, CodeGeneration, ReportStage} \cup Objectives
      BY <2>1, StageOrder
    <2>3. ~Finished(t)
      BY <1>2 DEF NextFrames
    <2>4. Last(t).stage # ReportStage
      BY <1>2, <2>3 DEF Finished
    <2>5. CASE Rejected(t)
      BY <1>2, <2>3, <2>4, <2>5 DEF NextFrames
    <2>6. CASE ~Rejected(t) /\ Last(t).stage = Input
      BY <1>2, <2>3, <2>4, <2>6 DEF NextFrames
    <2>7. CASE ~Rejected(t) /\ Last(t).stage = CodeGeneration
      BY <1>2, <2>3, <2>4, <2>7, StageOrder DEF NextFrames
    <2>8. CASE ~Rejected(t) /\ Last(t).stage \in Objectives
      BY <1>2, <2>3, <2>4, <2>8, StageOrder DEF NextFrames
    <2> QED
      BY <2>2, <2>4, <2>5, <2>6, <2>7, <2>8
  <1> QED
    BY <1>1, <1>2

(* Whatever the flow emits is a frame.                                     *)
LEMMA NextFramesType ==
  ASSUME NEW t \in Seq(Frame), NEW f \in NextFrames(t)
  PROVE  f \in Frame
  <1>1. CASE t = <<>> /\ f = Update(Input, "RUNNING")
    BY <1>1, UpdateType, StageOrder DEF StageStatus
  <1>2. CASE t # <<>> /\ Last(t).stage # ReportStage /\ f \in NextBlocked(t)
    <2>1. Last(t).stage \in Objectives => Last(t).stage + 1 \in Stages
      BY StageOrder
    <2>2. FirstObjective \in Stages
      BY StageOrder
    <2> QED
      BY <1>2, <2>1, <2>2, UpdateType DEF NextBlocked, StageStatus
  <1>3. CASE f \in NextOfIntake(t)
    BY <1>3, UpdateType, CheckUpdateType, StageOrder DEF NextOfIntake, StageStatus
  <1>4. CASE f \in NextOfCodeGeneration(t)
    BY <1>4, UpdateType, StageOrder DEF NextOfCodeGeneration, StageStatus
  <1>5. CASE t # <<>> /\ Last(t).stage \in Objectives /\ f \in NextOfObjective(t)
    <2>1. /\ Last(t).stage \in Stages
          /\ Last(t).stage + 1 \in Objectives => Last(t).stage + 1 \in Stages
          /\ ReportStage \in Stages
      BY <1>5, StageOrder
    <2>2. \A outcome \in CheckOutcomes : CheckUpdate(Last(t).stage, outcome) \in Frame
      BY <2>1, CheckUpdateType, SessionAssumption
    <2>3. Update(Last(t).stage, RollUp(Outcomes(t, {Last(t).stage}))) \in Frame
      BY <2>1, UpdateType, RollUpType
    <2>4. /\ Last(t).stage + 1 \in Objectives
               => Update(Last(t).stage + 1, "RUNNING") \in Frame
          /\ Update(ReportStage, "PASSED") \in Frame
      BY <2>1, UpdateType DEF StageStatus
    <2> QED
      BY <1>5, <2>2, <2>3, <2>4 DEF NextOfObjective
  <1> QED
    BY <1>1, <1>2, <1>3, <1>4, <1>5, NextFramesCases

(* One step of an accepted flow goes on to the next stage only from a      *)
(* closed one, and closes an objective with the roll-up of its checks.     *)
LEMMA AcceptedStep ==
  ASSUME NEW t \in Seq(Frame), NEW f \in NextFrames(t), t # <<>>, ~Rejected(t)
  PROVE  /\ Last(t).stage <= f.stage
         /\ f.stage <= Last(t).stage + 1 \/ f.stage <= FirstObjective
         /\ (Last(t).stage \in Objectives /\ f.stage # Last(t).stage)
               => Last(t).status # "RUNNING"
         /\ (f.stage \in Objectives /\ f.status # "RUNNING")
               => /\ f.stage = Last(t).stage
                  /\ f.detail = "none"
                  /\ f.status = RollUp(Outcomes(t, {f.stage}))
                  /\ Outcomes(t, {f.stage}) # {}
  <1>1. Last(t).stage \in Int /\ f \in Frame /\ f.stage \in Int
    <2>1. Last(t) \in Frame /\ f \in Frame
      BY LastType, NextFramesType
    <2>2. Last(t).stage \in Stages /\ f.stage \in Stages
      BY <2>1 DEF Frame
    <2> QED
      BY <2>1, <2>2, StageOrder
  <1>2. CASE Last(t).stage = Input /\ f \in NextOfIntake(t)
    <2>1. f.stage \in {Input, CodeGeneration}
      BY <1>2 DEF NextOfIntake, Update, CheckUpdate
    <2> QED
      BY <1>2, <2>1, StageOrder
  <1>3. CASE Last(t).stage = CodeGeneration /\ f \in NextOfCodeGeneration(t)
    <2>1. \/ f.stage = CodeGeneration
          \/ f.stage = FirstObjective /\ f.status = "RUNNING"
      BY <1>3 DEF NextOfCodeGeneration, Update
    <2> QED
      BY <1>3, <2>1, StageOrder
  <1>4. CASE Last(t).stage \in Objectives /\ f \in NextOfObjective(t)
    <2> DEFINE stage == Last(t).stage
               closed == Last(t).status # "RUNNING"
    <2>1. CASE closed /\ stage + 1 \in Objectives
      <3>1. f = Update(stage + 1, "RUNNING")
        BY <1>4, <2>1 DEF NextOfObjective
      <3>2. f.stage = stage + 1 /\ f.status = "RUNNING"
        BY <3>1 DEF Update
      <3> QED
        BY <1>1, <2>1, <3>2
    <2>2. CASE closed /\ stage + 1 \notin Objectives
      <3>1. f = Update(ReportStage, "PASSED")
        BY <1>4, <2>2 DEF NextOfObjective
      <3>2. f.stage = ReportStage
        BY <3>1 DEF Update
      <3>3. f.stage \notin Objectives /\ f.stage = stage + 1
        BY <1>4, <2>2, <3>2, StageOrder
      <3> QED
        BY <1>1, <1>4, <2>2, <3>3, StageOrder
    <2>3. CASE ~closed /\ ChecksDone(t, stage) < ChecksPerObjective
      <3>1. \E outcome \in CheckOutcomes : f = CheckUpdate(stage, outcome)
        BY <1>4, <2>3 DEF NextOfObjective
      <3>2. f.stage = stage /\ f.status = "RUNNING"
        BY <3>1 DEF CheckUpdate
      <3> QED
        BY <1>1, <3>2
    <2>4. CASE ~closed /\ ~(ChecksDone(t, stage) < ChecksPerObjective)
      <3>1. f = Update(stage, RollUp(Outcomes(t, {stage})))
        BY <1>4, <2>4 DEF NextOfObjective
      <3>2. /\ f.stage = stage
            /\ f.detail = "none"
            /\ f.status = RollUp(Outcomes(t, {stage}))
        BY <3>1 DEF Update
      <3>3. Outcomes(t, {stage}) # {}
        BY <2>4, CountedOutcome
      <3>4. f.stage = Last(t).stage /\ Outcomes(t, {f.stage}) = Outcomes(t, {stage})
        BY <3>2
      <3>5. f.status = RollUp(Outcomes(t, {f.stage})) /\ Outcomes(t, {f.stage}) # {}
        BY <3>2, <3>3, <3>4
      <3>6. Last(t).stage <= f.stage /\ f.stage <= Last(t).stage + 1
        BY <1>1, <3>4
      <3> QED
        BY <3>2, <3>4, <3>5, <3>6
    <2> QED
      BY <2>1, <2>2, <2>3, <2>4
  <1> QED
    BY <1>2, <1>3, <1>4, NextFramesCases

(* One step of a rejected flow blocks the next objective, or the report.   *)
LEMMA RejectedStep ==
  ASSUME NEW t \in Seq(Frame), NEW f \in NextFrames(t), t # <<>>, Rejected(t)
  PROVE  /\ Last(t).stage <= f.stage
         /\ f.stage <= Last(t).stage + 1 \/ f.stage <= FirstObjective
         /\ f.status = "BLOCKED"
  <1>1. Last(t).stage \in Stages /\ Last(t).stage # ReportStage /\ f \in NextBlocked(t)
    BY LastType, NextFramesCases DEF Frame
  <1>2. f.stage = IF Last(t).stage \in Objectives THEN Last(t).stage + 1
                  ELSE FirstObjective
    BY <1>1 DEF NextBlocked, Update
  <1>3. f.status = "BLOCKED"
    BY <1>1 DEF NextBlocked, Update
  <1> QED
    BY <1>1, <1>2, <1>3, StageOrder

(* What is known of the flow stays true with every frame.                  *)
LEMMA FlowStep ==
  ASSUME NEW t \in Seq(Frame), NEW f \in NextFrames(t), FlowFits(t)
  PROVE  FlowFits(Append(t, f))
  <1> DEFINE u == Append(t, f)
  <1>1. f \in Frame
    BY NextFramesType
  <1>2. u \in Seq(Frame) /\ Last(u) = f /\ u # <<>>
    BY <1>1, AppendFacts
  <1>3. f.stage \in Stages /\ f.stage \in Int
    BY <1>1, StageOrder DEF Frame
  <1>4. CASE t = <<>>
    <2>1. f = Update(Input, "RUNNING")
      BY <1>4, NextFramesCases
    <2>2. f.stage = 1 /\ f.status = "RUNNING"
      BY <2>1, StageOrder DEF Update
    <2>3. InOrder(u)
      BY <1>1, <1>2, <1>4, AppendFacts, EmptySeq, <2>2 DEF InOrder
    <2>4. \A s \in Objectives : s > f.stage /\ s \in Int
      BY <2>2, StageOrder
    <2>5. Covered(u) /\ RejectedAreBlocked(u) /\ AcceptedAreRolledUp(u)
      BY <1>2, <1>3, <2>2, <2>4, StageOrder
         DEF Covered, RejectedAreBlocked, AcceptedAreRolledUp, StageClosed
    <2> QED
      BY <2>3, <2>5 DEF FlowFits
  <1>5. CASE t # <<>>
    <2>a. Last(t) \in Frame
      BY <1>5, LastType
    <2>b. Last(t).stage \in Stages
      BY <2>a DEF Frame
    <2>1. Last(t).stage \in Int
      BY <2>b, StageOrder
    <2>2. /\ Last(t).stage <= f.stage
          /\ f.stage <= Last(t).stage + 1 \/ f.stage <= FirstObjective
      BY <1>5, AcceptedStep, RejectedStep
    <2>3. \A s \in Objectives : s < f.stage => s <= Last(t).stage /\ s # f.stage
      BY <1>3, <2>1, <2>2, StageOrder
    <2>4. InOrder(t) /\ Covered(t) /\ RejectedAreBlocked(t) /\ AcceptedAreRolledUp(t)
      BY <1>5 DEF FlowFits
    <2>5. InOrder(u)
      <3> SUFFICES ASSUME NEW i \in DOMAIN u
                   PROVE  u[i].stage <= f.stage
        BY <1>2 DEF InOrder
      <3>1. CASE i \in DOMAIN t
        <4>1. u[i] = t[i] /\ t[i] \in Frame
          BY <1>1, <3>1, AppendFacts, ElementOfSeq
        <4>2. t[i].stage <= Last(t).stage /\ t[i].stage \in Int
          BY <2>4, <3>1, <4>1, StageOrder DEF InOrder, Frame
        <4> QED
          BY <1>3, <2>1, <2>2, <4>1, <4>2
      <3>2. CASE i \notin DOMAIN t
        BY <1>1, <1>3, <3>2, AppendFacts
      <3> QED
        BY <3>1, <3>2
    <2>6. ASSUME NEW s \in Objectives, s < f.stage
          PROVE  /\ \E i \in DOMAIN u : IsLastOf(u, s, i)
                 /\ Verdict(u, s) = Verdict(t, s)
                 /\ Outcomes(u, {s}) = Outcomes(t, {s})
      <3>1. PICK i : IsLastOf(t, s, i)
        BY <2>3, <2>4, <2>6 DEF Covered
      <3>2. IsLastOf(u, s, i) /\ Verdict(u, s) = Verdict(t, s)
        BY <1>1, <2>3, <2>6, <3>1, VerdictOfAppended
      <3>3. Outcomes(u, {s}) = Outcomes(t, {s})
        BY <1>1, <2>3, <2>6, OutcomesOfAppended, ZenonT(30)
      <3> QED
        BY <3>2, <3>3 DEF IsLastOf
    <2>7. IsLastOf(u, f.stage, Len(t) + 1) /\ Verdict(u, f.stage) = f.status
      BY <1>1, VerdictOfAppended
    <2>8. Covered(u)
      <3> SUFFICES ASSUME NEW s \in Objectives, s <= f.stage
                   PROVE  \E i \in DOMAIN u : IsLastOf(u, s, i)
        BY <1>2 DEF Covered
      <3>1. s < f.stage \/ s = f.stage
        BY <1>3, StageOrder
      <3> QED
        BY <2>6, <2>7, <3>1 DEF IsLastOf
    <2>9. RejectedAreBlocked(u)
      <3>1. CASE Rejected(t)
        <4>1. f.status = "BLOCKED"
          BY <1>5, <3>1, RejectedStep
        <4>2. ASSUME NEW s \in Objectives, s <= f.stage
              PROVE  Verdict(u, s) = "BLOCKED"
          <5>1. CASE s = f.stage
            BY <2>7, <4>1, <5>1
          <5>2. CASE s < f.stage
            BY <2>3, <2>4, <2>6, <3>1, <5>2 DEF RejectedAreBlocked
          <5> QED
            BY <1>3, <4>2, <5>1, <5>2, StageOrder
        <4> QED
          BY <1>2, <4>1, <4>2 DEF RejectedAreBlocked
      <3>2. CASE ~Rejected(t) /\ Rejected(u)
        <4>1. f \in {Update(Input, "FAILED"), Update(CodeGeneration, "BLOCKED")}
          BY <1>1, <3>2, RejectedAppended
        <4>2. f.stage \in {1, 2}
          BY <4>1, StageOrder DEF Update
        <4>3. f.stage \notin Objectives /\ \A s \in Objectives : ~(s <= f.stage)
          BY <4>2, StageOrder
        <4> QED
          BY <1>2, <4>3 DEF RejectedAreBlocked
      <3>3. CASE ~Rejected(u)
        BY <3>3 DEF RejectedAreBlocked
      <3> QED
        BY <3>1, <3>2, <3>3
    <2>10. AcceptedAreRolledUp(u)
      <3> SUFFICES ASSUME ~Rejected(u), NEW s \in Objectives, StageClosed(u, s)
                   PROVE  /\ Verdict(u, s) = RollUp(Outcomes(u, {s}))
                          /\ Outcomes(u, {s}) # {}
        BY DEF AcceptedAreRolledUp
      <3>1. ~Rejected(t)
        BY <1>1, RejectedAppended
      <3>2. s \in Int
        BY StageOrder
      <3>3. CASE s < f.stage
        <4>1. s < Last(t).stage \/ s = Last(t).stage
          BY <2>1, <2>3, <3>2, <3>3
        <4>2. CASE s = Last(t).stage
          <5>1. Last(t).status # "RUNNING"
            BY <1>3, <1>5, <2>3, <3>1, <3>3, <4>2, AcceptedStep
          <5> QED
            BY <2>4, <2>6, <3>1, <3>3, <4>2, <5>1
               DEF AcceptedAreRolledUp, StageClosed
        <4>3. CASE s < Last(t).stage
          BY <2>4, <2>6, <3>1, <3>3, <4>3 DEF AcceptedAreRolledUp, StageClosed
        <4> QED
          BY <4>1, <4>2, <4>3
      <3>4. CASE s = f.stage /\ f.status # "RUNNING"
        <4>1. /\ f.detail = "none"
              /\ f.status = RollUp(Outcomes(t, {s}))
              /\ Outcomes(t, {s}) # {}
          BY <1>5, <3>1, <3>4, AcceptedStep
        <4>a. f.detail \notin CheckStatus
          BY <4>1 DEF CheckStatus
        <4>2. Outcomes(u, {s}) = Outcomes(t, {s})
          BY <1>1, <4>a, OutcomesOfAppended, ZenonT(30)
        <4> QED
          BY <2>7, <3>4, <4>1, <4>2
      <3> QED
        BY <1>2, <3>3, <3>4 DEF StageClosed
    <2> QED
      BY <2>5, <2>8, <2>9, <2>10 DEF FlowFits
  <1> QED
    BY <1>4, <1>5

-----------------------------------------------------------------------------
(* The report.                                                             *)

(* A session whose report is stored: every objective has the verdict of    *)
(* its last frame, and the overall verdict passes only if all of them do.  *)
Matches(report, log) ==
  /\ \A s \in Objectives : report.verdicts[s] = Verdict(log, s)
  /\ report.overall = "PASSED"
        <=> \A s \in Objectives : report.verdicts[s] = "PASSED"

(* The outcomes of all objectives are those of each of them together.      *)
LEMMA OutcomesOfAll ==
  ASSUME NEW t
  PROVE  /\ \A s \in Objectives : Outcomes(t, {s}) \subseteq Outcomes(t, Objectives)
         /\ \A outcome \in Outcomes(t, Objectives) :
               \E s \in Objectives : outcome \in Outcomes(t, {s})
  BY DEF Outcomes

(* The report of a finished flow says what its trail says.                 *)
LEMMA ReportFits ==
  ASSUME NEW t \in Seq(Frame), NEW source \in Pipelines \cup {Own},
         FlowFits(t), Finished(t)
  PROVE  /\ ReportOf(t, source) \in Report
         /\ Matches(ReportOf(t, source), t)
  <1> DEFINE report == ReportOf(t, source)
  <1>1. t # <<>> /\ Last(t).stage = ReportStage
    BY DEF Finished
  <1>2. Covered(t) /\ RejectedAreBlocked(t) /\ AcceptedAreRolledUp(t)
    BY <1>1 DEF FlowFits
  <1>3. \A s \in Objectives : s < Last(t).stage /\ s <= Last(t).stage
    BY <1>1, StageOrder
  <1>4. \A s \in Objectives : Verdict(t, s) \in StageStatus
    <2> SUFFICES ASSUME NEW s \in Objectives
                 PROVE  Verdict(t, s) \in StageStatus
      OBVIOUS
    <2>1. PICK i : IsLastOf(t, s, i)
      BY <1>2, <1>3 DEF Covered
    <2>2. i \in DOMAIN t
      BY <2>1 DEF IsLastOf
    <2>3. t[i] \in Frame
      BY <2>2, ElementOfSeq, LenProperties
    <2>4. t[i].status \in StageStatus
      BY <2>3 DEF Frame
    <2> QED
      BY <2>1, <2>4, VerdictIsLast
  <1>5. /\ report.source = source
        /\ report.verdicts = [s \in Objectives |-> Verdict(t, s)]
        /\ report.overall = IF Rejected(t) THEN "BLOCKED"
                            ELSE RollUp(Outcomes(t, Objectives))
    BY DEF ReportOf
  <1>6. report \in Report
    <2>1. [s \in Objectives |-> Verdict(t, s)] \in [Objectives -> StageStatus]
      BY <1>4
    <2>2. (IF Rejected(t) THEN "BLOCKED" ELSE RollUp(Outcomes(t, Objectives)))
             \in StageStatus
      BY RollUpType DEF StageStatus
    <2> QED
      BY <2>1, <2>2 DEF ReportOf, Report
  <1>7. \A s \in Objectives : report.verdicts[s] = Verdict(t, s)
    BY <1>5
  <1>8. FirstObjective \in Objectives
    BY StageOrder
  <1>9. report.overall = "PASSED" <=> \A s \in Objectives : Verdict(t, s) = "PASSED"
    <2>1. CASE Rejected(t)
      <3>1. report.overall = "BLOCKED"
        BY <1>5, <2>1
      <3>2. Verdict(t, FirstObjective) = "BLOCKED"
        BY <1>2, <1>3, <1>8, <2>1 DEF RejectedAreBlocked
      <3> QED
        BY <1>8, <3>1, <3>2
    <2>2. CASE ~Rejected(t)
      <3>1. report.overall = RollUp(Outcomes(t, Objectives))
        BY <1>5, <2>2
      <3>2. \A s \in Objectives : /\ Verdict(t, s) = RollUp(Outcomes(t, {s}))
                                  /\ Outcomes(t, {s}) # {}
        BY <1>2, <1>3, <2>2 DEF AcceptedAreRolledUp, StageClosed
      <3>3. report.overall = "PASSED" <=> Outcomes(t, Objectives) = {"PASS"}
        BY <3>1, RollUpPassed
      <3>4. \A s \in Objectives :
               Verdict(t, s) = "PASSED" <=> Outcomes(t, {s}) = {"PASS"}
        BY <3>2, RollUpPassed
      <3>5. ASSUME Outcomes(t, Objectives) = {"PASS"}, NEW s \in Objectives
            PROVE  Outcomes(t, {s}) = {"PASS"}
        <4>1. Outcomes(t, {s}) \subseteq {"PASS"}
          BY <3>5, OutcomesOfAll
        <4> QED
          BY <3>2, <4>1
      <3>6. ASSUME \A s \in Objectives : Outcomes(t, {s}) = {"PASS"}
            PROVE  Outcomes(t, Objectives) = {"PASS"}
        <4>1. Outcomes(t, Objectives) \subseteq {"PASS"}
          BY <3>6, OutcomesOfAll
        <4>2. "PASS" \in Outcomes(t, Objectives)
          BY <1>8, <3>6, OutcomesOfAll
        <4> QED
          BY <4>1, <4>2
      <3> QED
        BY <3>3, <3>4, <3>5, <3>6
    <2> QED
      BY <2>1, <2>2
  <1> QED
    BY <1>6, <1>7, <1>9 DEF Matches

-----------------------------------------------------------------------------
(* The inductive invariant.                                                *)

(* s is the beginning of t.                                                *)
BeginningOf(s, t) == Len(s) <= Len(t) /\ \A i \in 1 .. Len(s) : s[i] = t[i]

(* The task and its row, by where the task is.  While the copy is not      *)
(* lost, the row, the copy and the flow agree on the frames so far: this   *)
(* is why no run completes with a frame missing.                           *)
TaskFits ==
  /\ FlowFits(trail)
  /\ at \in {"autolink", "scheduled", "begin"} =>
       /\ session.status = "PENDING"
       /\ trail = <<>> /\ copy.log = <<>> /\ ~copy.lost
  /\ at = "facts" => trail = <<>> /\ ~copy.lost
  /\ at \in {"facts", "flow", "fail"} => session.status = "RUNNING"
  /\ (at \in {"facts", "flow"} /\ ~copy.lost) =>
       copy.log = trail /\ session.log = trail

RowFits ==
  /\ session.status = "PENDING" => session.log = <<>>
  /\ session.status = "COMPLETED" =>
       /\ session.report # {}
       /\ Finished(session.log)
       /\ \A report \in session.report : Matches(report, session.log)

(* A connection: it has received the beginning of what it read, which is   *)
(* the beginning of the log, and a verdict it read is the final one.       *)
ConnectionFits(c) ==
  /\ c.sent = Len(c.got)
  /\ BeginningOf(c.got, session.log)
  /\ c.at = "sending" =>
       /\ BeginningOf(c.got, c.log)
       /\ BeginningOf(c.log, session.log)
       /\ c.status = "FAILED" => session.status = "FAILED"
       /\ c.status = "COMPLETED" =>
            /\ session.status = "COMPLETED"
            /\ c.log = session.log
            /\ c.report = session.report
  /\ c.at = "report" => /\ session.status = "COMPLETED"
                        /\ c.got = session.log
                        /\ c.report = session.report
  /\ c.at = "error" => session.status = "FAILED"

ConnectionsFit == \A r \in Readers : ConnectionFits(conn[r])

IInv == TypeOK /\ TaskFits /\ RowFits /\ ConnectionsFit

-----------------------------------------------------------------------------
(* Types.                                                                  *)

(* The initial state has the types.                                        *)
LEMMA TypeInit == Init => TypeOK
  <1> SUFFICES ASSUME Init PROVE TypeOK
    OBVIOUS
  <1>1. <<>> \in Seq(Frame)
    BY EmptySeq
  <1>2. Closed \in Connection
    BY <1>1 DEF Closed, Connection, SessionStatus
  <1>3. NoCopy \in Copy
    BY <1>1 DEF NoCopy, Copy
  <1>4. session \in Row
    BY <1>1 DEF Init, Row, SessionStatus
  <1> QED
    BY <1>1, <1>2, <1>3, <1>4, SessionAssumption DEF Init, TypeOK, Labels

(* A failure of the database is counted within its bound.                  *)
LEMMA DbErrorType ==
  ASSUME dbErrors \in 0 .. MaxDbErrors, DbError \/ dbErrors' = dbErrors
  PROVE  dbErrors' \in 0 .. MaxDbErrors
  BY SessionAssumption DEF DbError

(* A step of the task has the types.                                       *)
LEMMA TypeTask == TypeOK /\ TaskFits /\ TaskStep => TypeOK'
  <1> SUFFICES ASSUME TypeOK, TaskFits, TaskStep PROVE TypeOK'
    OBVIOUS
  <1>1. CASE AutoLink
    BY <1>1 DEF AutoLink, Goto, TypeOK, Labels
  <1>2. CASE Dispatch
    <2>1. copy' \in Copy
      BY <1>2 DEF Dispatch, Goto, TypeOK, Copy
    <2> QED
      BY <1>2, <2>1 DEF Dispatch, Goto, TypeOK, Labels
  <1>3. CASE Begin
    <2>1. <<>> \in Seq(Frame)
      BY EmptySeq
    <2>2. copy' \in Copy
      BY <1>3, <2>1 DEF Begin, TypeOK, Copy
    <2>3. session' \in Row
      BY <1>3, <2>1 DEF Begin, TypeOK, Row, SessionStatus
    <2> QED
      BY <1>3, <2>2, <2>3 DEF Begin, TypeOK, Labels
  <1>4. CASE LoadFacts
    BY <1>4 DEF LoadFacts, Goto, TypeOK, Labels
  <1>5. CASE \E frame \in NextFrames(trail) : Emit(frame)
    <2>1. PICK frame \in NextFrames(trail) : Emit(frame)
      BY <1>5
    <2>2. trail \in Seq(Frame) /\ copy.log \in Seq(Frame)
      BY DEF TypeOK, Copy
    <2>3. frame \in Frame
      BY <2>2, NextFramesType
    <2>4. Append(trail, frame) \in Seq(Frame) /\ Append(copy.log, frame) \in Seq(Frame)
      BY <2>2, <2>3, AppendFacts
    <2>5. trail' \in Seq(Frame)
      BY <2>1, <2>4 DEF Emit
    <2>6. copy' \in Copy
      BY <2>1, <2>4 DEF Emit, Appended, TypeOK, Copy
    <2>7. session' \in Row
      BY <2>1, <2>4 DEF Emit, Appended, TypeOK, Row
    <2>8. dbErrors' \in 0 .. MaxDbErrors
      BY <2>1, DbErrorType DEF Emit, TypeOK
    <2> QED
      BY <2>1, <2>5, <2>6, <2>7, <2>8 DEF Emit, TypeOK
  <1>6. CASE Complete
    <2>1. ReportOf(trail, copy.source) \in Report
      BY <1>6, ReportFits DEF Complete, TypeOK, TaskFits, Copy
    <2>2. session' \in Row
      BY <1>6, <2>1 DEF Complete, TypeOK, Row, SessionStatus
    <2> QED
      BY <1>6, <2>2 DEF Complete, Goto, TypeOK, Labels
  <1>7. CASE Fail
    <2>1. session' \in Row
      BY <1>7 DEF Fail, Failure, TypeOK, Row, SessionStatus
    <2> QED
      BY <1>7, <2>1 DEF Fail, Goto, TypeOK, Labels
  <1> QED
    BY <1>1, <1>2, <1>3, <1>4, <1>5, <1>6, <1>7 DEF TaskStep

(* So has a step in which the task fails.                                  *)
LEMMA TypeFault == TypeOK /\ TaskFault => TypeOK'
  <1> SUFFICES ASSUME TypeOK, TaskFault PROVE TypeOK'
    OBVIOUS
  <1>1. CASE AutoLinkFails
    BY <1>1, DbErrorType DEF AutoLinkFails, Goto, TypeOK, Labels
  <1>2. CASE GivesUp
    BY <1>2, DbErrorType DEF GivesUp, Goto, TypeOK, Labels
  <1>3. CASE Raises
    <2>1. copy' \in Copy
      BY <1>3 DEF Raises, TypeOK, Copy
    <2> QED
      BY <1>3, <2>1, DbErrorType DEF Raises, TypeOK, Labels
  <1>4. CASE CompleteFails
    BY <1>4, DbErrorType DEF CompleteFails, Goto, TypeOK, Labels
  <1>5. CASE FailFails
    BY <1>5, DbErrorType DEF FailFails, Goto, TypeOK, Labels
  <1>6. CASE Crash
    BY <1>6 DEF Crash, Goto, TypeOK, Labels
  <1> QED
    BY <1>1, <1>2, <1>3, <1>4, <1>5, <1>6 DEF TaskFault

(* A connection closed afresh is a connection.                             *)
LEMMA ClosedType ==
  /\ Closed \in Connection
  /\ [Closed EXCEPT !.at = "tailing"] \in Connection
  /\ [Closed EXCEPT !.at = "broken"] \in Connection
  <1>1. <<>> \in Seq(Frame)
    BY EmptySeq
  <1> QED
    BY <1>1 DEF Closed, Connection, SessionStatus

(* So has a step of a reader.                                              *)
LEMMA TypeReader ==
  ASSUME TypeOK, NEW r \in Readers, Open(r) \/ ReaderStep(r) \/ Close(r)
  PROVE  TypeOK'
  <1>1. conn[r] \in Connection /\ session \in Row
    BY DEF TypeOK
  <1>2. CASE Open(r)
    BY <1>2, ClosedType DEF Open, task, TypeOK
  <1>3. CASE Poll(r)
    <2>1. CASE session.exists
      <3>1. [conn[r] EXCEPT !.at = "sending", !.log = session.log,
               !.status = session.status, !.report = session.report] \in Connection
        BY <1>1 DEF Connection, Row
      <3>2. conn' = [conn EXCEPT ![r] =
               [conn[r] EXCEPT !.at = "sending", !.log = session.log,
                  !.status = session.status, !.report = session.report]]
        BY <1>3, <2>1 DEF Poll, TypeOK
      <3> QED
        BY <1>3, <3>1, <3>2 DEF Poll, task, TypeOK
    <2>2. CASE ~session.exists
      BY <1>3, <2>2, ClosedType DEF Poll, task, TypeOK
    <2> QED
      BY <2>1, <2>2
  <1>4. CASE Send(r)
    <2>1. /\ conn[r].sent \in Nat /\ Len(conn[r].log) \in Nat
          /\ conn[r].log \in Seq(Frame) /\ conn[r].got \in Seq(Frame)
          /\ conn[r].sent < Len(conn[r].log)
      BY <1>1, <1>4, LenProperties DEF Connection, Send
    <2>2. conn[r].log[conn[r].sent + 1] \in Frame
      BY <2>1, ElementOfSeq
    <2>3. Append(conn[r].got, conn[r].log[conn[r].sent + 1]) \in Seq(Frame)
      BY <2>1, <2>2, AppendFacts
    <2>4. [conn[r] EXCEPT !.got = Append(@, conn[r].log[conn[r].sent + 1]),
                          !.sent = @ + 1] \in Connection
      <3>1. \A c \in Connection, got \in Seq(Frame), sent \in Nat :
               [c EXCEPT !.got = got, !.sent = sent] \in Connection
        BY DEF Connection
      <3>2. conn[r].sent + 1 \in Nat
        BY <2>1
      <3> QED
        BY <1>1, <2>3, <3>1, <3>2
    <2>5. conn' = [conn EXCEPT ![r] =
             [conn[r] EXCEPT !.got = Append(@, conn[r].log[conn[r].sent + 1]),
                             !.sent = @ + 1]]
      BY <1>4 DEF Send, TypeOK
    <2> QED
      BY <1>4, <2>4, <2>5 DEF Send, task, TypeOK
  <1>5. CASE EndTick(r)
    <2>1. PICK next \in {"error", "report", "tailing"} :
            conn' = [conn EXCEPT ![r] =
                       [Closed EXCEPT !.at = next, !.sent = conn[r].sent,
                          !.got = conn[r].got,
                          !.report = IF next = "report" THEN conn[r].report ELSE {}]]
      BY <1>5 DEF EndTick
    <2>2. [Closed EXCEPT !.at = next, !.sent = conn[r].sent, !.got = conn[r].got,
             !.report = IF next = "report" THEN conn[r].report ELSE {}] \in Connection
      BY <1>1, ClosedType DEF Connection
    <2> QED
      BY <1>5, <2>1, <2>2 DEF EndTick, task, TypeOK
  <1>6. CASE Close(r)
    BY <1>6, ClosedType DEF Close, task, TypeOK
  <1> QED
    BY <1>2, <1>3, <1>4, <1>5, <1>6 DEF ReaderStep

(* Every step has the types.                                               *)
LEMMA TypeNext == TypeOK /\ TaskFits /\ [Next]_vars => TypeOK'
  <1> SUFFICES ASSUME TypeOK, TaskFits, [Next]_vars PROVE TypeOK'
    OBVIOUS
  <1>1. CASE \E e \in Pipelines : Link(e)
    BY <1>1 DEF Link, task, TypeOK
  <1>2. CASE Delete
    BY <1>2 DEF Delete, task, TypeOK, Row
  <1>3. CASE UNCHANGED vars
    BY <1>3 DEF vars, TypeOK
  <1> QED
    BY <1>1, <1>2, <1>3, TypeTask, TypeFault, TypeReader DEF Next

-----------------------------------------------------------------------------
(* The row, and its refinement of SessionLog.                              *)

(* A step changes the row as SessionLog allows, or not at all.             *)
LEMMA RowMoves ==
  ASSUME TypeOK, TaskFits, [Next]_vars
  PROVE  session' = session \/ Log!Moves(session, session')
  <1>0. session \in Row /\ copy \in Copy /\ trail \in Seq(Frame)
    BY DEF TypeOK
  <1>1. CASE Begin
    <2>1. /\ session.exists /\ session.status = "PENDING"
          /\ session' = [session EXCEPT !.status = "RUNNING", !.log = <<>>]
      BY <1>1 DEF Begin, TaskFits
    <2> QED
      BY <2>1 DEF Log!Moves, Log!Begins
  <1>2. CASE \E frame \in NextFrames(trail) : Emit(frame)
    <2>1. PICK frame \in NextFrames(trail) : Emit(frame)
      BY <1>2
    <2>2. CASE UNCHANGED session
      BY <2>2
    <2>3. CASE /\ ~copy.lost /\ session.exists
               /\ session' = [session EXCEPT !.log = Append(copy.log, frame)]
      <3>1. copy.log = trail /\ session.log = trail /\ session.status = "RUNNING"
        BY <2>1, <2>3 DEF Emit, TaskFits
      <3>2. frame \in Frame
        BY <1>0, NextFramesType
      <3>3. /\ Append(trail, frame) # <<>>
            /\ Last(Append(trail, frame)) = frame
        BY <1>0, <3>2, AppendFacts
      <3>4. session'.log = Append(trail, frame)
        BY <1>0, <2>3, <3>1 DEF Row
      <3>5. session' = [session EXCEPT !.log = Append(session.log, frame)]
        BY <2>3, <3>1
      <3>6. Log!Emits(session, session')
        BY <3>1, <3>2, <3>3, <3>4, <3>5 DEF Log!Emits, Log!Last, Last
      <3> QED
        BY <2>3, <3>6 DEF Log!Moves
    <2> QED
      BY <2>1, <2>2, <2>3 DEF Emit, Appended
  <1>3. CASE Complete
    <2> DEFINE report == ReportOf(trail, copy.source)
    <2>1. /\ session.exists /\ session.status = "RUNNING" /\ Finished(trail)
          /\ session' = [session EXCEPT !.status = "COMPLETED", !.report = {report}]
      BY <1>3 DEF Complete, TaskFits
    <2>2. report \in Report
      BY <1>0, <2>1, ReportFits DEF TaskFits, Copy
    <2>3. session'.report = {report}
      BY <1>0, <2>1 DEF Row
    <2> HIDE DEF report
    <2>5. Log!Completes(session, session')
      BY <2>1, <2>2, <2>3 DEF Log!Completes
    <2> QED
      BY <2>1, <2>5 DEF Log!Moves
  <1>4. CASE Fail
    <2>1. /\ session.exists /\ session.status = "RUNNING"
          /\ session' = [session EXCEPT !.status = "FAILED"]
      BY <1>4 DEF Fail, Failure, TaskFits
    <2> QED
      BY <2>1 DEF Log!Moves, Log!Fails
  <1>5. CASE Delete
    BY <1>5 DEF Delete, Log!Moves, Log!Vanishes
  <1>6. CASE AutoLink \/ Dispatch \/ LoadFacts
    BY <1>6 DEF AutoLink, Dispatch, LoadFacts
  <1>7. CASE TaskFault
    BY <1>7 DEF TaskFault, AutoLinkFails, GivesUp, Raises, CompleteFails, FailFails, Crash
  <1>8. CASE \E e \in Pipelines : Link(e)
    BY <1>8 DEF Link
  <1>9. CASE \E r \in Readers : Open(r) \/ ReaderStep(r) \/ Close(r)
    BY <1>9 DEF Open, ReaderStep, Poll, Send, EndTick, Close
  <1>10. CASE UNCHANGED vars
    BY <1>10 DEF vars
  <1> QED
    BY <1>1, <1>2, <1>3, <1>4, <1>5, <1>6, <1>7, <1>8, <1>9, <1>10 DEF Next, TaskStep

(* A log only grows, and an ended session keeps its log and its verdict.   *)
LEMMA LogGrows ==
  ASSUME TypeOK, RowFits, session' = session \/ Log!Moves(session, session')
  PROVE  /\ session.log \in Seq(Frame)
         /\ session'.log = session.log
              \/ \E f \in Frame : session'.log = Append(session.log, f)
         /\ session.status \in {"COMPLETED", "FAILED"} =>
              /\ session'.status = session.status
              /\ session'.log = session.log
              /\ session'.report = session.report
  <1>1. session \in Row /\ session.log \in Seq(Frame)
    BY DEF TypeOK, Row
  <1>2. CASE session' = session
    BY <1>1, <1>2
  <1>3. CASE Log!Begins(session, session')
    BY <1>1, <1>3 DEF Log!Begins, RowFits, Row
  <1>4. CASE Log!Emits(session, session')
    <2>1. session'.log = Append(session.log, Last(session'.log))
      BY <1>1, <1>4 DEF Log!Emits, Log!Last, Last, Row
    <2>2. Last(session'.log) \in Frame /\ session.status = "RUNNING"
      BY <1>4 DEF Log!Emits, Log!Last, Last
    <2> QED
      BY <1>1, <2>1, <2>2
  <1>5. CASE Log!Completes(session, session') \/ Log!Fails(session, session')
    BY <1>1, <1>5 DEF Log!Completes, Log!Fails, Row
  <1>6. CASE Log!Vanishes(session, session')
    BY <1>1, <1>6 DEF Log!Vanishes, Row
  <1> QED
    BY <1>2, <1>3, <1>4, <1>5, <1>6 DEF Log!Moves

(* The beginning of a log is the beginning of what the log grows into.     *)
LEMMA BeginningGrows ==
  ASSUME NEW s \in Seq(Frame), NEW t \in Seq(Frame), NEW f \in Frame,
         BeginningOf(s, t)
  PROVE  BeginningOf(s, Append(t, f))
  <1>1. Len(s) \in Nat /\ Len(t) \in Nat /\ Len(s) <= Len(t)
    BY LenProperties DEF BeginningOf
  <1>2. \A i \in 1 .. Len(s) : i \in 1 .. Len(t)
    BY <1>1
  <1>3. Len(Append(t, f)) = Len(t) + 1
    BY AppendFacts
  <1>4. \A i \in 1 .. Len(t) : Append(t, f)[i] = t[i]
    BY AppendFacts
  <1>5. Len(s) <= Len(Append(t, f))
    BY <1>1, <1>3
  <1> QED
    BY <1>2, <1>4, <1>5 DEF BeginningOf

(* A connection stays fitting while the row moves.                         *)
LEMMA ConnectionsKept ==
  ASSUME TypeOK, RowFits, ConnectionsFit, UNCHANGED conn,
         session' = session \/ Log!Moves(session, session')
  PROVE  ConnectionsFit'
  <1> SUFFICES ASSUME NEW r \in Readers
               PROVE  ConnectionFits(conn[r])'
    BY DEF ConnectionsFit
  <1> DEFINE c == conn[r]
  <1>1. c \in Connection /\ ConnectionFits(c) /\ c' = c
    BY DEF TypeOK, ConnectionsFit
  <1>2. c.got \in Seq(Frame) /\ c.log \in Seq(Frame)
    BY <1>1 DEF Connection
  <1> HIDE DEF c
  <1>3. \A s \in Seq(Frame) :
           BeginningOf(s, session.log) => BeginningOf(s, session'.log)
    BY LogGrows, BeginningGrows
  <1>4. session.status \in {"COMPLETED", "FAILED"} =>
           /\ session'.status = session.status
           /\ session'.log = session.log
           /\ session'.report = session.report
    BY LogGrows
  <1>5. ConnectionFits(c)'
    BY <1>1, <1>2, <1>3, <1>4 DEF ConnectionFits
  <1> QED
    BY <1>5 DEF c

(* A step of a reader keeps the connections fitting.                       *)
LEMMA ConnectionsRead ==
  ASSUME TypeOK, ConnectionsFit,
         NEW r \in Readers, Open(r) \/ ReaderStep(r) \/ Close(r)
  PROVE  ConnectionsFit'
  <1> DEFINE c == conn[r]
             d == conn'[r]
  <1>1. /\ session' = session
        /\ \A q \in Readers : q # r => conn'[q] = conn[q]
    BY DEF Open, ReaderStep, Poll, Send, EndTick, Close, TypeOK
  <1>2. c \in Connection /\ ConnectionFits(c) /\ session \in Row
    BY DEF TypeOK, ConnectionsFit
  <1>3. /\ c.got \in Seq(Frame) /\ c.log \in Seq(Frame) /\ c.sent \in Nat
        /\ session.log \in Seq(Frame)
        /\ Len(c.got) \in Nat /\ Len(c.log) \in Nat /\ Len(session.log) \in Nat
    BY <1>2, LenProperties DEF Connection, Row
  <1>4. conn \in [Readers -> Connection]
    BY DEF TypeOK
  <1>5. Len(<<>>) = 0 /\ BeginningOf(<<>>, session.log)
    BY <1>3, EmptySeq DEF BeginningOf
  <1>6. ASSUME NEW x, x.sent = 0, x.got = <<>>,
               x.at \notin {"sending", "report", "error"}
        PROVE  ConnectionFits(x)
    BY <1>5, <1>6 DEF ConnectionFits
  <1>7. CASE Open(r) \/ Close(r) \/ (Poll(r) /\ ~session.exists)
    <2>1. /\ d.sent = 0 /\ d.got = <<>>
          /\ d.at \notin {"sending", "report", "error"}
      BY <1>4, <1>7 DEF Open, Close, Poll, Closed
    <2> HIDE DEF d
    <2>2. ConnectionFits(d)
      BY <1>6, <2>1
    <2> QED
      BY <1>1, <2>2 DEF d, ConnectionsFit, ConnectionFits
  <1>8. CASE Poll(r) /\ session.exists
    <2>1. /\ d.sent = c.sent /\ d.got = c.got /\ d.at = "sending"
          /\ d.log = session.log /\ d.status = session.status
          /\ d.report = session.report
      BY <1>2, <1>4, <1>8 DEF Poll, Connection
    <2>2. BeginningOf(session.log, session.log)
      BY <1>3 DEF BeginningOf
    <2> HIDE DEF c, d
    <2>3. ConnectionFits(d)
      BY <1>2, <2>1, <2>2 DEF ConnectionFits
    <2> QED
      BY <1>1, <2>3 DEF d, ConnectionsFit, ConnectionFits
  <1>9. CASE Send(r)
    <2>1. c.at = "sending" /\ c.sent < Len(c.log)
      BY <1>9 DEF Send
    <2>2. /\ d.got = Append(c.got, c.log[c.sent + 1]) /\ d.sent = c.sent + 1
          /\ d.at = c.at /\ d.log = c.log /\ d.status = c.status
          /\ d.report = c.report
      BY <1>2, <1>4, <1>9 DEF Send, Connection
    <2> HIDE DEF c, d
    <2>3. /\ c.sent = Len(c.got)
          /\ BeginningOf(c.got, c.log) /\ BeginningOf(c.log, session.log)
      BY <1>2, <2>1 DEF ConnectionFits
    <2>4. c.log[c.sent + 1] \in Frame
      BY <1>3, <2>1, ElementOfSeq
    <2>5. /\ Len(d.got) = Len(c.got) + 1
          /\ \A i \in 1 .. Len(c.got) : d.got[i] = c.got[i]
          /\ d.got[Len(c.got) + 1] = c.log[Len(c.got) + 1]
      BY <1>3, <2>2, <2>3, <2>4, AppendFacts
    <2>6. BeginningOf(d.got, c.log)
      <3>1. Len(d.got) <= Len(c.log)
        BY <1>3, <2>1, <2>3, <2>5
      <3>2. \A i \in 1 .. Len(d.got) : d.got[i] = c.log[i]
        BY <1>3, <2>3, <2>5 DEF BeginningOf
      <3> QED
        BY <3>1, <3>2 DEF BeginningOf
    <2>7. BeginningOf(d.got, session.log)
      <3>1. Len(d.got) <= Len(session.log)
        BY <1>3, <2>3, <2>5, <2>6 DEF BeginningOf
      <3>2. \A i \in 1 .. Len(d.got) : i \in 1 .. Len(c.log)
        BY <1>3, <2>5, <2>6 DEF BeginningOf
      <3> QED
        BY <2>3, <2>6, <3>1, <3>2 DEF BeginningOf
    <2>8. d.sent = Len(d.got)
      BY <2>2, <2>3, <2>5
    <2>9. ConnectionFits(d)
      BY <1>2, <2>1, <2>2, <2>3, <2>6, <2>7, <2>8 DEF ConnectionFits
    <2> QED
      BY <1>1, <2>9 DEF d, ConnectionsFit, ConnectionFits
  <1>10. CASE EndTick(r)
    <2>1. c.at = "sending" /\ c.sent = Len(c.log)
      BY <1>10 DEF EndTick
    <2>2. /\ d.sent = c.sent /\ d.got = c.got
          /\ d.at \in {"error", "report", "tailing"}
          /\ d.at = "error" => c.status = "FAILED"
          /\ d.at = "report" => c.status = "COMPLETED" /\ d.report = c.report
      BY <1>4, <1>10 DEF EndTick, SeenStatus, Closed
    <2> HIDE DEF c, d
    <2>3. /\ c.sent = Len(c.got)
          /\ BeginningOf(c.got, c.log) /\ BeginningOf(c.got, session.log)
      BY <1>2, <2>1 DEF ConnectionFits
    <2>4. c.got = c.log
      <3>1. Len(c.got) = Len(c.log)
        BY <2>1, <2>3
      <3>2. \A i \in 1 .. Len(c.got) : c.got[i] = c.log[i]
        BY <2>3 DEF BeginningOf
      <3> QED
        BY <1>3, <3>1, <3>2, SeqEqual
    <2>5. ConnectionFits(d)
      BY <1>2, <2>1, <2>2, <2>3, <2>4 DEF ConnectionFits
    <2> QED
      BY <1>1, <2>5 DEF d, ConnectionsFit, ConnectionFits
  <1> QED
    BY <1>7, <1>8, <1>9, <1>10 DEF ReaderStep

-----------------------------------------------------------------------------
(* The task and the row.                                                   *)

(* Where the task is and what it knows stay in agreement with the row.     *)
LEMMA TaskStays == TypeOK /\ TaskFits /\ [Next]_vars => TaskFits'
  <1> SUFFICES ASSUME TypeOK, TaskFits, [Next]_vars PROVE TaskFits'
    OBVIOUS
  <1>0. session \in Row /\ copy \in Copy /\ trail \in Seq(Frame) /\ at \in Labels
    BY DEF TypeOK
  <1>1. CASE AutoLink
    BY <1>1 DEF AutoLink, Goto, TaskFits
  <1>2. CASE Dispatch
    BY <1>0, <1>2 DEF Dispatch, Goto, TaskFits, Copy
  <1>3. CASE Begin
    BY <1>0, <1>3 DEF Begin, TaskFits, Copy, Row
  <1>4. CASE LoadFacts
    BY <1>4 DEF LoadFacts, Goto, TaskFits
  <1>5. CASE \E frame \in NextFrames(trail) : Emit(frame)
    <2>1. PICK frame \in NextFrames(trail) : Emit(frame)
      BY <1>5
    <2>2. at = "flow" /\ at' = at /\ trail' = Append(trail, frame)
      BY <2>1 DEF Emit
    <2>3. FlowFits(trail')
      BY <1>0, <2>2, FlowStep DEF TaskFits
    <2>4. session.status = "RUNNING" /\ session'.status = session.status
      BY <1>0, <2>1, <2>2 DEF Emit, TaskFits, Row
    <2>5. ~copy'.lost => copy'.log = trail' /\ session'.log = trail'
      BY <1>0, <2>1, <2>2 DEF Emit, Appended, TaskFits, Row, Copy
    <2> QED
      BY <2>2, <2>3, <2>4, <2>5 DEF TaskFits
  <1>6. CASE Complete \/ CompleteFails
    BY <1>6 DEF Complete, CompleteFails, Goto, TaskFits
  <1>7. CASE Fail \/ FailFails
    BY <1>7 DEF Fail, FailFails, Goto, TaskFits
  <1>8. CASE AutoLinkFails \/ GivesUp \/ Crash
    BY <1>8 DEF AutoLinkFails, GivesUp, Crash, Goto, TaskFits
  <1>9. CASE Raises
    BY <1>0, <1>9 DEF Raises, TaskFits, Copy
  <1>10. CASE Delete
    <2>1. session'.status = session.status /\ session'.log = session.log
      BY <1>0, <1>10 DEF Delete, Row
    <2>2. UNCHANGED <<at, copy, trail>>
      BY <1>10 DEF Delete, task
    <2> QED
      BY <2>1, <2>2 DEF TaskFits
  <1>11. CASE \/ \E e \in Pipelines : Link(e)
              \/ \E r \in Readers : Open(r) \/ ReaderStep(r) \/ Close(r)
              \/ UNCHANGED vars
    <2>1. UNCHANGED <<session, at, copy, trail>>
      BY <1>11 DEF Link, Open, ReaderStep, Poll, Send, EndTick, Close, task, vars
    <2> QED
      BY <2>1 DEF TaskFits
  <1> QED
    BY <1>1, <1>2, <1>3, <1>4, <1>5, <1>6, <1>7, <1>8, <1>9, <1>10, <1>11
       DEF Next, TaskStep, TaskFault

(* The row keeps to its status, and a report to the log it was made of.    *)
LEMMA RowStays == TypeOK /\ TaskFits /\ RowFits /\ [Next]_vars => RowFits'
  <1> SUFFICES ASSUME TypeOK, TaskFits, RowFits, [Next]_vars PROVE RowFits'
    OBVIOUS
  <1>0. session \in Row /\ copy \in Copy /\ trail \in Seq(Frame)
    BY DEF TypeOK
  <1>1. CASE Begin
    BY <1>0, <1>1 DEF Begin, RowFits, Row
  <1>2. CASE \E frame \in NextFrames(trail) : Emit(frame)
    <2>1. session.status = "RUNNING" /\ session'.status = session.status
      BY <1>0, <1>2 DEF Emit, TaskFits, Row
    <2> QED
      BY <2>1 DEF RowFits
  <1>3. CASE Complete
    <2> DEFINE report == ReportOf(trail, copy.source)
    <2>1. Finished(trail) /\ session.log = trail
      BY <1>3 DEF Complete, CopyReadable, TaskFits
    <2>2. /\ session'.status = "COMPLETED" /\ session'.log = trail
          /\ session'.report = {report}
      BY <1>0, <1>3, <2>1 DEF Complete, Row
    <2>3. Matches(report, trail)
      BY <1>0, <2>1, ReportFits DEF TaskFits, Copy
    <2> HIDE DEF report
    <2>4. session'.report # {} /\ \A x \in session'.report : Matches(x, session'.log)
      BY <2>2, <2>3
    <2> QED
      BY <2>1, <2>2, <2>4 DEF RowFits, Matches
  <1>4. CASE Fail
    BY <1>0, <1>4 DEF Fail, Failure, RowFits, Row
  <1>5. CASE Delete
    <2>1. /\ session'.status = session.status /\ session'.log = session.log
          /\ session'.report = session.report
      BY <1>0, <1>5 DEF Delete, Row
    <2> QED
      BY <2>1 DEF RowFits, Matches
  <1>6. CASE UNCHANGED session
    BY <1>6 DEF RowFits, Matches
  <1>7. AutoLink \/ Dispatch \/ LoadFacts \/ TaskFault => UNCHANGED session
    BY DEF AutoLink, Dispatch, LoadFacts, TaskFault, AutoLinkFails, GivesUp,
           Raises, CompleteFails, FailFails, Crash
  <1>8. (\E e \in Pipelines : Link(e)) => UNCHANGED session
    BY DEF Link
  <1>9. (\E r \in Readers : Open(r) \/ ReaderStep(r) \/ Close(r)) => UNCHANGED session
    BY DEF Open, ReaderStep, Poll, Send, EndTick, Close
  <1>10. UNCHANGED vars => UNCHANGED session
    BY DEF vars
  <1> QED
    BY <1>1, <1>2, <1>3, <1>4, <1>5, <1>6, <1>7, <1>8, <1>9, <1>10 DEF Next, TaskStep

(* The connections fit after every step.                                   *)
LEMMA ConnectionsStay == IInv /\ [Next]_vars => ConnectionsFit'
  <1> SUFFICES ASSUME IInv, [Next]_vars PROVE ConnectionsFit'
    OBVIOUS
  <1>1. TypeOK /\ TaskFits /\ RowFits /\ ConnectionsFit
    BY DEF IInv
  <1>2. session' = session \/ Log!Moves(session, session')
    BY <1>1, RowMoves
  <1>3. CASE UNCHANGED conn
    BY <1>1, <1>2, <1>3, ConnectionsKept
  <1>4. CASE \E r \in Readers : Open(r) \/ ReaderStep(r) \/ Close(r)
    BY <1>1, <1>4, ConnectionsRead
  <1>5. TaskStep \/ TaskFault \/ Delete \/ UNCHANGED vars => UNCHANGED conn
    BY DEF TaskStep, TaskFault, AutoLink, Dispatch, Begin, LoadFacts, Emit, Complete,
           Fail, AutoLinkFails, GivesUp, Raises, CompleteFails, FailFails, Crash,
           Delete, vars
  <1>6. (\E e \in Pipelines : Link(e)) => UNCHANGED conn
    BY DEF Link
  <1> QED
    BY <1>3, <1>4, <1>5, <1>6 DEF Next

(* It all holds at first.                                                  *)
LEMMA InvariantInit == Init => IInv
  <1> SUFFICES ASSUME Init PROVE IInv
    OBVIOUS
  <1>1. TypeOK
    BY TypeInit
  <1>2. TaskFits /\ RowFits
    BY DEF Init, NoCopy, TaskFits, RowFits, FlowFits
  <1>3. Len(<<>>) = 0
    BY EmptySeq
  <1>4. ConnectionsFit
    BY <1>3 DEF Init, Closed, ConnectionsFit, ConnectionFits, BeginningOf
  <1> QED
    BY <1>1, <1>2, <1>4 DEF IInv

-----------------------------------------------------------------------------
(* The theorems.                                                           *)

(* Whatever the interleaving of the task with links, deletions, readers,   *)
(* database errors and a crash, the task, the row and every connection     *)
(* stay in agreement.                                                      *)
THEOREM SessionInvariant == Spec => []IInv
  <1>1. IInv /\ [Next]_vars => IInv'
    BY TypeNext, TaskStays, RowStays, ConnectionsStay DEF IInv
  <1> QED
    BY <1>1, InvariantInit, PTL DEF Spec

(* The variables of a session keep their types.                            *)
THEOREM SessionTypeCorrect == Spec => []TypeOK
  <1>1. IInv => TypeOK
    BY DEF IInv
  <1> QED
    BY <1>1, SessionInvariant, PTL

(* A COMPLETED row has the whole flow in its log, and the verdicts of its  *)
(* report are those of the log.                                            *)
THEOREM ReportMatches == Spec => []ReportMatchesLog
  <1>1. IInv => ReportMatchesLog
    BY DEF IInv, RowFits, Matches, ReportMatchesLog
  <1> QED
    BY <1>1, SessionInvariant, PTL

(* s is a prefix of t when it is its beginning.                            *)
LEMMA BeginningIsPrefix ==
  ASSUME NEW s \in Seq(Frame), NEW t \in Seq(Frame), BeginningOf(s, t)
  PROVE  IsPrefix(s, t)
  <1>1. Len(s) \in Nat /\ Len(t) \in Nat /\ Len(s) <= Len(t)
    BY LenProperties DEF BeginningOf
  <1>2. /\ SubSeq(s, 1, Len(s)) = [i \in 1 .. Len(s) |-> s[i]]
        /\ SubSeq(t, 1, Len(s)) = [i \in 1 .. Len(s) |-> t[i]]
    BY <1>1
  <1>3. SubSeq(s, 1, Len(s)) = SubSeq(t, 1, Len(s))
    BY <1>2 DEF BeginningOf
  <1> QED
    BY <1>1, <1>3 DEF IsPrefix

(* Whatever a client receives is what the row has, in order; the verdict   *)
(* it receives is the final one.                                           *)
THEOREM StreamFaithful == Spec => []StreamIsFaithful
  <1>1. IInv => StreamIsFaithful
    <2> SUFFICES ASSUME IInv, NEW r \in Readers
                 PROVE  /\ IsPrefix(conn[r].got, session.log)
                        /\ conn[r].at = "report" =>
                              /\ conn[r].got = session.log
                              /\ conn[r].report # {}
                              /\ conn[r].report = session.report
                        /\ conn[r].at = "error" => session.status = "FAILED"
      BY DEF StreamIsFaithful
    <2>1. ConnectionFits(conn[r]) /\ RowFits
      BY DEF IInv, ConnectionsFit
    <2>2. conn[r].got \in Seq(Frame) /\ session.log \in Seq(Frame)
      BY DEF IInv, TypeOK, Connection, Row
    <2>3. IsPrefix(conn[r].got, session.log)
      BY <2>1, <2>2, BeginningIsPrefix DEF ConnectionFits
    <2> QED
      BY <2>1, <2>3 DEF ConnectionFits, RowFits
  <1> QED
    BY <1>1, SessionInvariant, PTL

(* The session implements the append-only log that ends once.              *)
THEOREM ImplementsSessionLog == Spec => FollowsSessionLog
  <1>1. Init => Log!SLInit
    BY DEF Init, Log!SLInit, Log!NewSession
  <1>2. IInv /\ [Next]_vars => [Log!SLNext]_session
    BY RowMoves DEF IInv, Log!SLNext
  <1> QED
    BY <1>1, <1>2, SessionInvariant, PTL DEF Spec, FollowsSessionLog, Log!SLSpec

=============================================================================
