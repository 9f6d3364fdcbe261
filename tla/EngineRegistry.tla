---------------------------- MODULE EngineRegistry ----------------------------
(***************************************************************************)
(* The process-wide database engine (backend/app/db/session.py) and the    *)
(* event loops that use it: that of the API, whose requests are handled    *)
(* one await after the other, and that of the task which the embedded      *)
(* worker runs in a thread of the same process.  While a tool of the task  *)
(* runs, it drives a loop of its own on another thread and the task waits. *)
(* An engine is known by the id of the loop it was made on, which a later  *)
(* loop may get again.                                                     *)
(***************************************************************************)
EXTENDS Naturals, FiniteSets

CONSTANTS
  Requests,   \* requests of the API, each opens one session with get_db
  MaxTasks    \* bound: tasks, tools and sessions of theirs

VARIABLES
  registry,  \* engine, _loop_id and AsyncSessionLocal: empty or one engine
  made,      \* engines made so far
  disposed,  \* those whose pool was disposed of
  loops,     \* the loops that run
  at,        \* where each thread of control is
  raced,     \* those between check and session when another wrote the registry
  sessions,  \* sessions opened, as [on, loop, how]
  budget

engineVars == <<registry, made, disposed, loops, at, raced, sessions,
                budget>>

(* A thread of control: a request, the task, or a tool of the task.        *)
Threads == Requests \cup {"task", "tool"}
LoopOf(t) == IF t \in Requests THEN "api" ELSE t
Loops == {"api", "task", "tool"}

Places == {"idle", "disposing", "disposed", "bound", "closing"}

Engine(loop) == [id |-> made + 1, loop |-> loop]

EngineInit ==
  /\ registry = {[id |-> 1, loop |-> "api"]}   \* the lifespan's init_engine
  /\ made = 1
  /\ disposed = {}
  /\ loops = {"api"}
  /\ at = [t \in Threads |-> "idle"]
  /\ raced = {}
  /\ sessions = {}
  /\ budget = 0

---------------------------------------------------------------------------
(* t goes on; whoever is between its check and its session has been raced  *)
(* when the registry was written.                                          *)
Proceeds(t, where, wrote) ==
  /\ at' = [at EXCEPT ![t] = where]
  /\ raced' = (raced \cup {u \in Threads : wrote /\ at[u] # "idle"}) \ {t}

(* In a loop only one coroutine runs between two awaits: no other request  *)
(* of the API is between its check and its session.                        *)
HasTheLoop(t) == \A u \in Threads \ {t} : LoopOf(u) = LoopOf(t) =>
                   at[u] = "idle" \/ at[u] = "disposing"

Spends == budget < MaxTasks /\ budget' = budget + 1

(* A mutant of InitEngine: any engine will do.                             *)
InitEngineOnce(t) ==
  /\ IF registry # {}
     THEN UNCHANGED <<registry, made>>
     ELSE registry' = {Engine(LoopOf(t))} /\ made' = made + 1
  /\ Proceeds(t, "bound", registry' # registry)

(* init_engine: idempotent on a loop; another loop's engine is replaced    *)
(* and not disposed of.                                                    *)
InitEngine(t) ==
  /\ IF \E e \in registry : e.loop = LoopOf(t)
     THEN UNCHANGED <<registry, made>>
     ELSE registry' = {Engine(LoopOf(t))} /\ made' = made + 1
  /\ Proceeds(t, "bound", registry' # registry)

(* task_session, the tools and the subscription of a WebSocket: init first.*)
BeginSession(t) ==
  /\ at[t] = "idle" /\ LoopOf(t) \in loops /\ HasTheLoop(t)
  /\ t = "task" => "tool" \notin loops
  /\ Spends
  /\ InitEngine(t)
  /\ UNCHANGED <<disposed, loops, sessions>>

(* get_db: the registry is used when it is this loop's; another loop's     *)
(* engine is disposed of first, which awaits.                              *)
BeginRequest(t) ==
  /\ t \in Requests /\ at[t] = "idle" /\ HasTheLoop(t)
  /\ Spends
  /\ IF \E e \in registry : e.loop = "api" THEN Proceeds(t, "bound", FALSE) /\ UNCHANGED disposed
     ELSE /\ Proceeds(t, IF registry = {} THEN "disposed" ELSE "disposing", FALSE)
          /\ disposed' = disposed \cup registry
  /\ UNCHANGED <<registry, made, loops, sessions>>

DisposeReturns(t) ==
  /\ at[t] = "disposing" /\ HasTheLoop(t)
  /\ Proceeds(t, "disposed", FALSE)
  /\ UNCHANGED <<registry, made, disposed, loops, sessions, budget>>

BindRequest(t) ==
  /\ at[t] = "disposed"
  /\ InitEngine(t)
  /\ UNCHANGED <<disposed, loops, sessions, budget>>

(* AsyncSessionLocal() of whatever the registry holds now; an empty one    *)
(* fails the caller.                                                       *)
OpenSession(t) ==
  /\ at[t] = "bound"
  /\ sessions' = sessions \cup
       {[on |-> e.loop, loop |-> LoopOf(t),
         how |-> IF t \in raced THEN "raced" ELSE "sure"] : e \in registry}
  /\ Proceeds(t, "idle", FALSE)
  /\ UNCHANGED <<registry, made, disposed, loops, budget>>

---------------------------------------------------------------------------
(* run_coro_sync: a loop for the task or for a tool of it.                 *)
LoopStarts(t) ==
  /\ t \in {"task", "tool"} /\ t \notin loops /\ at["task"] = "idle"
  /\ t = "tool" => "task" \in loops
  /\ Spends
  /\ loops' = loops \cup {t}
  /\ UNCHANGED <<registry, made, disposed, at, raced, sessions>>

(* A mutant of DisposeBegins: the end of a loop disposes of nothing.       *)
DisposeSkipped(t) ==
  /\ t \in {"task", "tool"} \cap loops /\ at[t] = "idle"
  /\ t = "task" => "tool" \notin loops
  /\ loops' = loops \ {t}
  /\ UNCHANGED <<registry, made, disposed, at, raced, sessions, budget>>

(* _await_and_dispose_engine: the loop's own engine, if the registry holds *)
(* it, is disposed of before the loop closes.                              *)
DisposeBegins(t) ==
  /\ t \in {"task", "tool"} \cap loops /\ at[t] = "idle"
  /\ t = "task" => "tool" \notin loops
  /\ IF \E e \in registry : e.loop = t
     THEN disposed' = disposed \cup registry /\ Proceeds(t, "closing", FALSE) /\ UNCHANGED loops
     ELSE loops' = loops \ {t} /\ UNCHANGED <<disposed, at, raced>>
  /\ UNCHANGED <<registry, made, sessions, budget>>

(* Then the registry is emptied, whatever it holds by now.                 *)
LoopCloses(t) ==
  /\ at[t] = "closing"
  /\ registry' = {}
  /\ loops' = loops \ {t}
  /\ Proceeds(t, "idle", registry # {})
  /\ UNCHANGED <<made, disposed, sessions, budget>>

EngineNext == \E t \in Threads :
  \/ BeginSession(t) \/ BeginRequest(t) \/ DisposeReturns(t) \/ BindRequest(t)
  \/ OpenSession(t) \/ LoopStarts(t) \/ DisposeBegins(t) \/ LoopCloses(t)

EngineSpec == EngineInit /\ [][EngineNext]_engineVars

---------------------------------------------------------------------------

EngineTypeOK ==
  /\ Cardinality(registry) <= 1
  /\ \A e \in registry \cup disposed : e.id \in 1 .. made /\ e.loop \in Loops
  /\ loops \subseteq Loops /\ "api" \in loops
  /\ at \in [Threads -> Places] /\ raced \subseteq Threads

(* A session works on the engine of its own event loop, whatever loops     *)
(* come and go, unless another thread wrote the registry between the check *)
(* of this one and its session ("ensure AsyncSessionLocal is bound to this *)
(* loop", engine/tools/memory.py; db/session.py).                          *)
SessionsOnOwnLoop == \A s \in sessions : s.how = "sure" => s.on = s.loop

(* Once a loop has ended nobody is given its engine any more: the registry *)
(* holds an engine of a loop that runs (db/session.py,                     *)
(* dispose_engine_for_current_loop).                                       *)
NoEngineOfDeadLoop == \A e \in registry : e.loop \in loops

=============================================================================
