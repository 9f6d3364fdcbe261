---------------------------- MODULE EventDelivery ----------------------------
(***************************************************************************)
(* How an event of a run reaches the browsers that watch it: the publisher *)
(* (services/event_publisher.py), the connections and the Redis bridge     *)
(* (services/websocket_manager.py) and the WebSocket endpoints.  The API   *)
(* process runs one event loop; between two awaits nothing else of it      *)
(* runs.  The publisher is a thread of the same process (eager mode) or a  *)
(* worker process of its own.                                              *)
(***************************************************************************)
EXTENDS Naturals, Sequences, FiniteSets

CONSTANTS
  Connections,  \* WebSockets, each is opened once
  Experiments,  \* the first one publishes, the others are only watched
  Publishing,   \* that one
  MaxEvents,    \* bound: events published
  MaxMoves,     \* bound: messages and departures of the clients
  MaxFaults     \* bound: timeouts of the publisher, losses of the bridge

VARIABLES
  split,      \* whether the publisher is a process of its own
  channels,   \* _channels: which connection is in which channel, with what
  owner,      \* _connection_experiment
  sockets,    \* the WebSockets themselves
  publisher,  \* the publishing thread
  tasks,      \* broadcasts under way
  bridge,     \* the Redis subscriber of the API process
  received,   \* how often each event reached each connection
  present,    \* for each event, who was there all the time since
  moves, faults

eventVars == <<split, channels, owner, sockets, publisher, tasks, bridge,
               received, present, moves, faults>>

Events == 1 .. MaxEvents

Nowhere == "none"

ASSUME EventAssumption ==
  /\ Publishing \in Experiments /\ Nowhere \notin Experiments
  /\ {MaxEvents, MaxMoves, MaxFaults} \subseteq Nat

(* An entry of a channel: socket is FALSE where the code stores None.      *)
Entry == [exp : Experiments, conn : Connections, socket : BOOLEAN]

EventInit ==
  /\ split \in BOOLEAN
  /\ channels = {}
  /\ owner = [c \in Connections |-> Nowhere]
  /\ sockets = [c \in Connections |-> "new"]
  /\ publisher = [event |-> 0, waits |-> "nothing", late |-> {}]
  /\ tasks = {}
  /\ bridge = [up |-> TRUE, queue |-> <<>>]
  /\ received = [c \in Connections |-> [n \in Events |-> 0]]
  /\ present = [n \in Events |-> {}]
  /\ moves = 0 /\ faults = 0

(* disconnect, and what broadcast does with the connections it found dead: *)
(* each leaves the channel it is in now.                                   *)
Without(gone) == {e \in channels : ~(e.conn \in gone /\ e.exp = owner[e.conn])}
Disowned(gone) == [c \in Connections |-> IF c \in gone THEN Nowhere ELSE owner[c]]

Drop(gone) == channels' = Without(gone) /\ owner' = Disowned(gone)

Away(c) == present' = [n \in Events |-> present[n] \ {c}]

ClientMoves == moves < MaxMoves /\ moves' = moves + 1

---------------------------------------------------------------------------
(* The endpoints                                                           *)

(* A watched experiment's own endpoint registers the accepted socket.      *)
Connect(c) ==
  /\ sockets[c] = "new"
  /\ \E e \in Experiments :
       /\ channels' = channels \cup {[exp |-> e, conn |-> c, socket |-> TRUE]}
       /\ owner' = [owner EXCEPT ![c] = e]
  /\ sockets' = [sockets EXCEPT ![c] = "open"]
  /\ UNCHANGED <<split, publisher, tasks, bridge, received, present, moves, faults>>

(* The root endpoint waits for a subscription.                             *)
ConnectRoot(c) ==
  /\ sockets[c] = "new"
  /\ sockets' = [sockets EXCEPT ![c] = "open"]
  /\ UNCHANGED <<split, channels, owner, publisher, tasks, bridge, received,
                 present, moves, faults>>

(* A mutant of Subscribe: the old channel keeps the connection.            *)
SubscribeKeepsOld(c) ==
  /\ sockets[c] = "open"
  /\ ClientMoves
  /\ \E e \in Experiments :
       /\ channels' = channels \cup {[exp |-> e, conn |-> c, socket |-> TRUE]}
       /\ owner' = [owner EXCEPT ![c] = e]
  /\ Away(c)
  /\ UNCHANGED <<split, sockets, publisher, tasks, bridge, received, faults>>

(* _switch_channel: the socket is looked up in the old channel after the   *)
(* connection was taken out of it, so the new channel holds None.          *)
Subscribe(c) ==
  /\ sockets[c] = "open"
  /\ ClientMoves
  /\ \E e \in Experiments :
       /\ channels' = Without({c}) \cup {[exp |-> e, conn |-> c, socket |-> FALSE]}
       /\ owner' = [owner EXCEPT ![c] = e]
  /\ Away(c)
  /\ UNCHANGED <<split, sockets, publisher, tasks, bridge, received, faults>>

(* Leaves the channel; the socket stays open.                              *)
Unsubscribe(c) ==
  /\ sockets[c] = "open"
  /\ ClientMoves
  /\ Drop({c}) /\ Away(c)
  /\ UNCHANGED <<split, sockets, publisher, tasks, bridge, received, faults>>

(* The client goes; the endpoint notices later.                            *)
Leave(c) ==
  /\ sockets[c] = "open"
  /\ ClientMoves
  /\ sockets' = [sockets EXCEPT ![c] = "gone"]
  /\ Away(c)
  /\ UNCHANGED <<split, channels, owner, publisher, tasks, bridge, received, faults>>

Notice(c) ==
  /\ sockets[c] = "gone"
  /\ sockets' = [sockets EXCEPT ![c] = "noticed"]
  /\ Drop({c})
  /\ UNCHANGED <<split, publisher, tasks, bridge, received, present, moves, faults>>

(* ConnectionManager.shutdown.                                             *)
Shutdown ==
  /\ ClientMoves
  /\ channels' = {}
  /\ owner' = [c \in Connections |-> Nowhere]
  /\ sockets' = [c \in Connections |-> IF sockets[c] = "open" THEN "gone" ELSE sockets[c]]
  /\ present' = [n \in Events |-> {}]
  /\ UNCHANGED <<split, publisher, tasks, bridge, received, faults>>

---------------------------------------------------------------------------
(* The publisher                                                           *)

Task(n, via) ==
  [event |-> n, via |-> via, phase |-> "start", todo |-> {}, dead |-> {}, sent |-> 0]

(* publish_sync: the thread hands the event to the API's event loop, or to *)
(* one of its own, and waits.                                              *)
PublishSync ==
  /\ publisher.waits = "nothing" /\ publisher.event < MaxEvents
  /\ LET n == publisher.event + 1
         via == IF split THEN "worker" ELSE "main"
     IN /\ publisher' = [publisher EXCEPT !.event = n, !.waits = via]
        /\ tasks' = tasks \cup {Task(n, via)}
        /\ present' = [present EXCEPT ![n] =
             {e.conn : e \in {f \in channels : f.exp = Publishing /\ f.socket}}
               \cap {c \in Connections : sockets[c] = "open"}]
  /\ UNCHANGED <<split, channels, owner, sockets, bridge, received, moves, faults>>

(* After ten seconds the thread gives up waiting and publishes once more,  *)
(* on a loop of its own; the first attempt goes on.                        *)
GiveUp ==
  /\ publisher.waits = "main" /\ faults < MaxFaults
  /\ faults' = faults + 1
  /\ publisher' = [publisher EXCEPT !.waits = "isolated", !.late = @ \cup {publisher.event}]
  /\ tasks' = tasks \cup {Task(publisher.event, "isolated")}
  /\ UNCHANGED <<split, channels, owner, sockets, bridge, received, present, moves>>

---------------------------------------------------------------------------
(* broadcast                                                               *)

Step(t, u) == tasks' = (tasks \ {t}) \cup {u}

(* The snapshot of the channel, under the lock; the manager of a worker    *)
(* process has no connections.                                             *)
Snapshot(t) ==
  /\ t.phase = "start"
  /\ LET here == IF t.via = "worker" THEN {}
                 ELSE {e \in channels : e.exp = Publishing}
     IN Step(t, [t EXCEPT !.phase = IF here = {} THEN "forward" ELSE "send",
                          !.todo = here])
  /\ UNCHANGED <<split, channels, owner, sockets, publisher, bridge, received,
                 present, moves, faults>>

(* A mutant of Send: the first connection that fails ends the broadcast.   *)
SendUntilFailure(t) ==
  /\ t.phase = "send" /\ t.todo # {}
  /\ \E e \in t.todo :
       IF e.socket /\ sockets[e.conn] = "open"
       THEN /\ received' = [received EXCEPT ![e.conn][t.event] = @ + 1]
            /\ Step(t, [t EXCEPT !.todo = @ \ {e}, !.sent = @ + 1])
       ELSE /\ Step(t, [t EXCEPT !.todo = {}, !.dead = @ \cup {e.conn}])
            /\ UNCHANGED received
  /\ UNCHANGED <<split, channels, owner, sockets, publisher, bridge, present,
                 moves, faults>>

(* One send.  A connection without a socket, or whose socket is closed,    *)
(* raises and is dead; a send from a foreign loop may raise as well.       *)
Send(t) ==
  /\ t.phase = "send" /\ t.todo # {}
  /\ \E e \in t.todo :
       \/ /\ e.socket /\ sockets[e.conn] = "open"
          /\ received' = [received EXCEPT ![e.conn][t.event] = @ + 1]
          /\ Step(t, [t EXCEPT !.todo = @ \ {e}, !.sent = @ + 1])
       \/ /\ ~(e.socket /\ sockets[e.conn] = "open") \/ t.via = "isolated"
          /\ Step(t, [t EXCEPT !.todo = @ \ {e}, !.dead = @ \cup {e.conn}])
          /\ UNCHANGED received
  /\ UNCHANGED <<split, channels, owner, sockets, publisher, bridge, present,
                 moves, faults>>

(* The broadcast is over and the thread that waits for it goes on.         *)
Return(t) ==
  /\ tasks' = tasks \ {t}
  /\ publisher' = IF publisher.event = t.event /\ publisher.waits = t.via
                  THEN [publisher EXCEPT !.waits = "nothing"] ELSE publisher

(* The dead connections are removed, whatever channel they are in now.     *)
Cleanup(t) ==
  /\ t.phase = "send" /\ t.todo = {}
  /\ Drop(t.dead)
  /\ IF t.sent = 0 /\ t.via # "bridge"
     THEN Step(t, [t EXCEPT !.phase = "forward"]) /\ UNCHANGED publisher
     ELSE Return(t)
  /\ UNCHANGED <<split, sockets, bridge, received, present, moves, faults>>

(* What nobody here received goes to Redis, which keeps it for nobody: a   *)
(* bridge that does not listen misses it, and Redis may be unreachable.    *)
Forward(t) ==
  /\ t.phase = "forward"
  /\ \E reachable \in BOOLEAN :
       bridge' = [bridge EXCEPT !.queue =
                    IF reachable /\ bridge.up /\ t.via # "bridge"
                    THEN Append(@, t.event) ELSE @]
  /\ Return(t)
  /\ UNCHANGED <<split, channels, owner, sockets, received, present, moves, faults>>

---------------------------------------------------------------------------
(* The bridge rebroadcasts what it hears, one message after the other.     *)

BridgeHears ==
  /\ bridge.queue # <<>>
  /\ \A t \in tasks : t.via # "bridge"
  /\ bridge' = [bridge EXCEPT !.queue = Tail(@)]
  /\ tasks' = tasks \cup {Task(Head(bridge.queue), "bridge")}
  /\ UNCHANGED <<split, channels, owner, sockets, publisher, received, present,
                 moves, faults>>

(* The connection to Redis fails, with everything that is under way on it. *)
BridgeDrops ==
  /\ bridge.up /\ faults < MaxFaults
  /\ faults' = faults + 1
  /\ bridge' = [up |-> FALSE, queue |-> <<>>]
  /\ UNCHANGED <<split, channels, owner, sockets, publisher, tasks, received,
                 present, moves>>

BridgeReconnects ==
  /\ ~bridge.up
  /\ bridge' = [bridge EXCEPT !.up = TRUE]
  /\ UNCHANGED <<split, channels, owner, sockets, publisher, tasks, received,
                 present, moves, faults>>

Broadcast(t) == Snapshot(t) \/ Send(t) \/ Cleanup(t) \/ Forward(t)

EventNext ==
  \/ \E c \in Connections :
       \/ Connect(c) \/ ConnectRoot(c) \/ Subscribe(c)
       \/ Unsubscribe(c) \/ Leave(c) \/ Notice(c)
  \/ PublishSync \/ GiveUp \/ Shutdown
  \/ \E t \in tasks : Broadcast(t)
  \/ BridgeHears \/ BridgeDrops \/ BridgeReconnects

---------------------------------------------------------------------------

EventTypeOK ==
  /\ split \in BOOLEAN
  /\ channels \subseteq Entry
  /\ owner \in [Connections -> Experiments \cup {Nowhere}]
  /\ sockets \in [Connections -> {"new", "open", "gone", "noticed"}]
  /\ publisher \in [event : 0 .. MaxEvents, late : SUBSET Events,
                    waits : {"nothing", "main", "isolated", "worker"}]
  /\ \A t \in tasks : t.event \in Events /\ t.todo \subseteq Entry
  /\ bridge.queue \in Seq(Events)
  /\ moves \in 0 .. MaxMoves /\ faults \in 0 .. MaxFaults

(* Whoever joins, switches, leaves or dies during a broadcast, the two     *)
(* tables of the manager stay each other's inverse: a connection is in the *)
(* channel it is said to own and in no other, so that none is leaked and   *)
(* none is broadcast to twice (websocket_manager.py).                      *)
ChannelsMatchOwners ==
  /\ \A e \in channels : owner[e.conn] = e.exp
  /\ \A c \in Connections : owner[c] # Nowhere =>
       Cardinality({e \in channels : e.conn = c}) = 1

(* An event reaches a connection once, and once more at the most when the  *)
(* publisher gave up waiting for it; and whoever was in the channel from   *)
(* its publication to its end got it, whatever other connections failed,   *)
(* unless the publisher gave up or the bridge was needed                   *)
(* (event_publisher.py, websocket_manager.py).                             *)
DeliveredOnceToAll ==
  \A n \in 1 .. publisher.event :
    LET late == n \in publisher.late
        over == publisher.waits = "nothing" /\ \A t \in tasks : t.event # n
    IN /\ \A c \in Connections : received[c][n] <= (IF late THEN 2 ELSE 1)
       /\ over /\ ~split /\ ~late => \A c \in present[n] : received[c][n] = 1

=============================================================================
