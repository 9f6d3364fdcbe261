------------------------------ MODULE MCPlatform ------------------------------
(***************************************************************************)
(* Small instances of the parts of the platform around a run.  They share  *)
(* no state: a behaviour moves one of them, its focus, and leaves the      *)
(* others in one of their initial states.                                  *)
(***************************************************************************)
EXTENDS EventDelivery, RunStore, RunRecords, RateLimiter, EngineRegistry, LLMClient

VARIABLE focus

eventAtRest == EventInit /\ split = FALSE
storeAtRest == StoreInit /\ \A r \in Runs : rows[r] = "over"

platformVars == <<focus, eventVars, storeVars, recordVars, limiterVars, engineVars, llmVars>>

Init ==
  /\ focus \in {"events", "store", "records", "limiter", "engine", "llm"}
  /\ IF focus = "events" THEN EventInit ELSE eventAtRest
  /\ IF focus = "store" THEN StoreInit ELSE storeAtRest
  /\ RecordInit /\ RateInit /\ EngineInit /\ LLMInit

Next ==
  /\ UNCHANGED focus
  /\ \/ focus = "events" /\ EventNext
        /\ UNCHANGED <<storeVars, recordVars, limiterVars, engineVars, llmVars>>
     \/ focus = "store" /\ StoreNext
        /\ UNCHANGED <<eventVars, recordVars, limiterVars, engineVars, llmVars>>
     \/ focus = "records" /\ RecordNext
        /\ UNCHANGED <<eventVars, storeVars, limiterVars, engineVars, llmVars>>
     \/ focus = "limiter" /\ RateNext
        /\ UNCHANGED <<eventVars, storeVars, recordVars, engineVars, llmVars>>
     \/ focus = "engine" /\ EngineNext
        /\ UNCHANGED <<eventVars, storeVars, recordVars, limiterVars, llmVars>>
     \/ focus = "llm" /\ LLMNext
        /\ UNCHANGED <<eventVars, storeVars, recordVars, limiterVars, engineVars>>

Spec == Init /\ [][Next]_platformVars /\ StoreFairness

TypeOK ==
  /\ EventTypeOK /\ StoreTypeOK /\ RecordTypeOK
  /\ RateTypeOK /\ EngineTypeOK /\ LLMTypeOK

---------------------------------------------------------------------------
(* Final states of the graph: better and worse than the baseline, perfect  *)
(* and not believed, parked before profiling.                              *)

Measured(a, b, passed, status) ==
  [status |-> status, stages |-> 6, passed |-> passed, metric |-> "accuracy",
   metrics |-> {[name |-> "accuracy", value |-> a], [name |-> "f1", value |-> 1]},
   score |-> {a}, baseline |-> {b}]

MCFinals ==
  [better  |-> Measured(1, 0, TRUE, "COMPLETED"),
   worse   |-> Measured(0, 1, FALSE, "FAILED"),
   perfect |-> Measured(2, 1, FALSE, "FAILED"),
   parked  |-> [Measured(1, 0, FALSE, "AWAITING") EXCEPT
                  !.stages = 1, !.metrics = {}, !.score = {}, !.baseline = {}]]

MCChain == <<"groq", "openrouter">>

=============================================================================
