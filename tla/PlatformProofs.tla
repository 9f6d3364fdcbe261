---------------------------- MODULE PlatformProofs ----------------------------
(***************************************************************************)
(* The parts of the platform together: whichever part a behaviour moves,   *)
(* the others keep what is proved of them alone.                           *)
(***************************************************************************)
EXTENDS MCPlatform, ProcessProofs, EventDeliveryProofs, RunStoreProofs, RunRecordsProofs

LEMMA PlatformInit ==
  ASSUME Init
  PROVE  /\ EventInit /\ StoreInit /\ RecordInit
         /\ RateInit /\ EngineInit /\ LLMInit
BY DEF Init, eventAtRest, storeAtRest

LEMMA PlatformStep ==
  ASSUME [Next]_platformVars
  PROVE  /\ [EventNext]_eventVars /\ [StoreNext]_storeVars /\ [RecordNext]_recordVars
         /\ [RateNext]_limiterVars /\ [EngineNext]_engineVars /\ [LLMNext]_llmVars
BY DEF Next, platformVars

(* A behaviour of the platform is one of each of its parts.                *)
THEOREM PlatformParts ==
  Spec => /\ EventSpec /\ StoreSpec /\ RecordSpec
          /\ RateSpec /\ EngineSpec /\ LLMSpec
BY PlatformInit, PlatformStep, PTL
   DEF Spec, EventSpec, StoreSpec, RecordSpec, RateSpec, EngineSpec, LLMSpec

(* All variables of all parts keep their types.                            *)
THEOREM PlatformTypes == Spec => []TypeOK
<1>1. EventTypeOK /\ StoreTypeOK /\ RecordTypeOK /\ RateTypeOK /\ EngineTypeOK /\ LLMTypeOK
        => TypeOK
  BY DEF TypeOK
<1>. QED
  BY <1>1, PlatformParts, EventTypes, StoreTypes, RecordTypes, RateTypes, EngineTypes,
     LLMTypes, PTL

(* And every part keeps what it promises while the others rest or move.    *)
THEOREM PlatformIsSafe ==
  Spec => [](/\ ChannelsMatchOwners /\ DeliveredOnceToAll
             /\ OneRunIsFollowed
             /\ LineageIsOnce /\ ClaimsFindEvidence /\ NeverVerifiedWorse /\ JudgedAsRecorded
             /\ RetryAfterIsEnough /\ GrantsAreBounded
             /\ SessionsOnOwnLoop /\ NoEngineOfDeadLoop
             /\ HeuristicIsLast /\ AloneNeverFails)
BY PlatformParts, TablesAgree, DeliveredOnce, OneRunFollowed,
   LineageOnce, EvidenceIsFound, StaticGateRules, WholeRunIsJudged,
   RetryAfterHolds, GrantsBounded, SessionsStayHome, RegistryOutlivesNoLoop,
   HeuristicLast, AloneIsSafe, PTL

=============================================================================
