------------------------------ MODULE LLMClient ------------------------------
(***************************************************************************)
(* The process-wide LLM client of the agents: the chain of providers       *)
(* (engine/llm/client.py), the HTTP client each provider shares among the  *)
(* event loops that call it (engine/llm/_openai_compat.py), and what the   *)
(* agent does with the outcome (agents/base.py).  Every call of an agent   *)
(* runs on a loop of its own, and the threads of several runs call at the  *)
(* same time.                                                              *)
(***************************************************************************)
EXTENDS Naturals, Sequences

CONSTANTS
  Callers,   \* threads that run agents
  LoopIds,   \* ids of event loops; a loop may get the id of one that ended
  Chain,     \* the configured providers in the order of the fallback
  MaxCalls   \* bound: calls made

ASSUME ChainAssumption == Chain \in Seq(STRING)

VARIABLES
  shared,  \* _client and _client_loop_id of each provider, as {} or {client}
  closed,  \* the HTTP clients that were closed
  calls,   \* the call each caller makes
  clients, begun

llmVars == <<shared, closed, calls, clients, begun>>

Providers == {Chain[i] : i \in 1 .. Len(Chain)}

NoClient == [id |-> 0, loop |-> "none"]

Rest == [at |-> "idle", loop |-> "none", index |-> 1, retry |-> FALSE,
         failed |-> {}, client |-> NoClient, alone |-> "yes"]

LLMInit ==
  /\ shared = [p \in Providers |-> {}]
  /\ closed = {}
  /\ calls = [c \in Callers |-> Rest]
  /\ clients = 0 /\ begun = 0

Over == {"llm", "unparsed", "heuristic", "failed"}
Busy(c) == calls[c].at \notin Over \cup {"idle"}

Provider(c) == Chain[calls[c].index]
Now(c, call) == calls' = [calls EXCEPT ![c] = call]

---------------------------------------------------------------------------
(* run_coro_sync starts a loop for the call.  A call is not alone when     *)
(* another one runs at the same time, or when a client is left of a loop   *)
(* that had the same id.                                                   *)
Begin(c) ==
  /\ ~Busy(c) /\ begun < MaxCalls
  /\ begun' = begun + 1
  /\ \E loop \in LoopIds \ {calls[d].loop : d \in {d \in Callers : Busy(d)}} :
       LET others == {d \in Callers \ {c} : Busy(d)}
           again == \E p \in Providers : \E s \in shared[p] : s.loop = loop
           alone == IF others = {} /\ ~again THEN "yes" ELSE "no"
       IN calls' = [d \in Callers |->
            IF d = c THEN [Rest EXCEPT !.at = IF Chain = <<>> THEN "heuristic" ELSE "client",
                                       !.loop = loop, !.alone = alone]
            ELSE IF d \in others THEN [calls[d] EXCEPT !.alone = "no"] ELSE calls[d]]
  /\ UNCHANGED <<shared, closed, clients>>

(* A mutant of GetClient: the loop of the client is not looked at.         *)
GetClientOfAny(c) ==
  /\ calls[c].at = "client"
  /\ IF shared[Provider(c)] = {}
     THEN Now(c, [calls[c] EXCEPT !.at = "create"]) /\ UNCHANGED closed
     ELSE Now(c, [calls[c] EXCEPT !.at = "take"]) /\ UNCHANGED closed
  /\ UNCHANGED <<shared, clients, begun>>

(* _get_client: a client of another loop is closed first, which awaits.    *)
GetClient(c) ==
  /\ calls[c].at = "client"
  /\ LET mine == {s \in shared[Provider(c)] : s.loop = calls[c].loop}
         others == shared[Provider(c)] \ mine
     IN /\ closed' = closed \cup others
        /\ Now(c, [calls[c] EXCEPT !.at =
                    IF mine # {} THEN "take" ELSE IF others # {} THEN "clear" ELSE "create"])
  /\ UNCHANGED <<shared, clients, begun>>

Clear(c) ==
  /\ calls[c].at = "clear"
  /\ shared' = [shared EXCEPT ![Provider(c)] = {}]
  /\ Now(c, [calls[c] EXCEPT !.at = "create"])
  /\ UNCHANGED <<closed, clients, begun>>

Create(c) ==
  /\ calls[c].at = "create"
  /\ IF shared[Provider(c)] = {}
     THEN /\ shared' = [shared EXCEPT ![Provider(c)] =
                          {[id |-> clients + 1, loop |-> calls[c].loop]}]
          /\ clients' = clients + 1
     ELSE UNCHANGED <<shared, clients>>
  /\ Now(c, [calls[c] EXCEPT !.at = "take"])
  /\ UNCHANGED <<closed, begun>>

(* The attribute is read again when it is returned; None has no post.      *)
Take(c) ==
  /\ calls[c].at = "take"
  /\ IF shared[Provider(c)] = {} THEN Now(c, [calls[c] EXCEPT !.at = "failed"])
     ELSE \E s \in shared[Provider(c)] :
            Now(c, [calls[c] EXCEPT !.at = "post", !.client = s])
  /\ UNCHANGED <<shared, closed, clients, begun>>

(* A client that was closed, or whose loop is another one or has ended,    *)
(* raises what is no LLMError.                                             *)
Broken(c) ==
  \/ calls[c].client \in closed
  \/ calls[c].client.loop # calls[c].loop
  \/ calls[c].alone = "no"

(* A mutant of NextProvider: the last provider is passed over too.         *)
NextProviderPastEnd(c) ==
  [calls[c] EXCEPT !.failed = @ \cup {Provider(c)}, !.retry = FALSE, !.index = @ + 1,
                   !.at = IF calls[c].index = Len(Chain) THEN "heuristic" ELSE "client"]

(* A mutant of NextProvider: a failure gives up.                           *)
NextProviderGivesUp(c) ==
  [calls[c] EXCEPT !.failed = @ \cup {Provider(c)}, !.at = "heuristic"]

(* The next provider of the chain; when there is none the agent falls back *)
(* on its heuristic.                                                       *)
NextProvider(c) ==
  [calls[c] EXCEPT !.failed = @ \cup {Provider(c)}, !.retry = FALSE,
                   !.index = IF @ = Len(Chain) THEN @ ELSE @ + 1,
                   !.at = IF calls[c].index = Len(Chain) THEN "heuristic" ELSE "client"]

(* The answer: a text, which may not parse and then leaves the agent its   *)
(* heuristic too; 429, after which the provider is asked once more;        *)
(* another error; or what a broken client raises, which fails the stage.   *)
Post(c) ==
  /\ calls[c].at = "post"
  /\ \/ /\ calls[c].client \notin closed
        /\ \E text \in {"llm", "unparsed"} : Now(c, [calls[c] EXCEPT !.at = text])
     \/ /\ calls[c].client \notin closed /\ ~calls[c].retry
        /\ Now(c, [calls[c] EXCEPT !.retry = TRUE, !.at = "client"])
     \/ calls[c].client \notin closed /\ Now(c, NextProvider(c))
     \/ Broken(c) /\ Now(c, [calls[c] EXCEPT !.at = "failed"])
  /\ UNCHANGED <<shared, closed, clients, begun>>

LLMNext ==
  \E c \in Callers :
    Begin(c) \/ GetClient(c) \/ Clear(c) \/ Create(c) \/ Take(c) \/ Post(c)

---------------------------------------------------------------------------

LLMTypeOK ==
  /\ \A p \in Providers : \A s \in shared[p] : s.id \in 1 .. clients /\ s.loop \in LoopIds
  /\ \A c \in Callers : calls[c].failed \subseteq Providers /\ calls[c].index \in {1} \cup 1 .. Len(Chain)

(* The heuristic answers only after every configured provider has failed,  *)
(* and a provider that was passed over has failed itself (client.py,       *)
(* complete; agents/base.py, run).                                         *)
HeuristicIsLast ==
  \A c \in Callers :
    /\ calls[c].at = "heuristic" => calls[c].failed = Providers
    /\ \A i \in 1 .. calls[c].index - 1 : Chain[i] \in calls[c].failed

(* A call that no other call overlaps, on a loop whose id is new, never    *)
(* fails its agent: whatever loops called before, the client it posts with *)
(* is open and belongs to its own loop, and every failure of a provider    *)
(* ends in an answer ("a reused cached client never trips 'Event loop is   *)
(* closed'", _openai_compat.py).                                           *)
AloneNeverFails == \A c \in Callers : calls[c].at = "failed" => calls[c].alone = "no"

=============================================================================
