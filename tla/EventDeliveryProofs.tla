------------------------- MODULE EventDeliveryProofs -------------------------
(***************************************************************************)
(* What the delivery of events promises, for any connections, experiments, *)
(* events, departures and faults.                                          *)
(***************************************************************************)
EXTENDS EventDelivery, FiniteSetTheorems, SequenceTheorems, TLAPS

EventSpec == EventInit /\ [][EventNext]_eventVars

---------------------------------------------------------------------------
(* The tables of the manager                                               *)

(* Every entry is its connection's only one, of a socket that was opened.  *)
ChannelsFit ==
  /\ channels \subseteq Entry
  /\ owner \in [Connections -> Experiments \cup {Nowhere}]
  /\ sockets \in [Connections -> {"new", "open", "gone", "noticed"}]
  /\ \A e \in channels : owner[e.conn] = e.exp
  /\ \A e, f \in channels : e.conn = f.conn => e = f
  /\ \A c \in Connections : owner[c] # Nowhere => \E e \in channels : e.conn = c
  /\ \A c \in Connections : sockets[c] = "new" => owner[c] = Nowhere

(* Nothing can be sent to the connection any more.                         *)
Cold(c) ==
  /\ sockets[c] # "new"
  /\ sockets[c] = "open" => \A e \in channels : e.conn = c => ~e.socket

---------------------------------------------------------------------------
(* The publisher and the broadcasts                                        *)

TaskType ==
  [event : Events, via : {"main", "worker", "isolated", "bridge"},
   phase : {"start", "send", "forward"}, todo : SUBSET Entry,
   dead : SUBSET Connections, sent : Nat]

(* A broadcast by the thread's own loop goes on only while the thread      *)
(* waits for it; one by the API's loop may be given up.                    *)
WaitFits(t) ==
  /\ t.event <= publisher.event
  /\ t.via = "worker" => split
  /\ t.via \in {"main", "isolated"} => ~split
  /\ t.via = "isolated" => t.event = publisher.event /\ publisher.waits = "isolated"
  /\ t.via \in {"main", "worker"} =>
       \/ t.event \in publisher.late
       \/ t.event = publisher.event /\ publisher.waits = t.via

(* A broadcast sends to opened sockets, and what it found dead stays dead. *)
TargetsFit(t) ==
  /\ \A e, f \in t.todo : e.conn = f.conn => e = f
  /\ \A e \in t.todo : sockets[e.conn] # "new" /\ (e.socket \/ Cold(e.conn))
  /\ t.via # "isolated" => \A c \in t.dead : Cold(c)

TasksFit ==
  /\ IsFiniteSet(tasks)
  /\ \A t \in tasks : t \in TaskType /\ WaitFits(t) /\ TargetsFit(t)
  /\ \A t, u \in tasks :
       t.event = u.event /\ t.via = u.via /\ t.via # "bridge" => t = u

PublisherFits ==
  /\ split \in BOOLEAN
  /\ publisher \in [event : 0 .. MaxEvents, late : SUBSET Events,
                    waits : {"nothing", "main", "isolated", "worker"}]
  /\ \A n \in publisher.late : n <= publisher.event
  /\ publisher.waits \in {"main", "worker"} => publisher.event \notin publisher.late
  /\ publisher.waits = "isolated" => publisher.event \in publisher.late
  /\ publisher.waits = "worker" => split
  /\ publisher.waits \in {"main", "isolated"} => ~split
  /\ publisher.waits # "nothing" => publisher.event \in Events

---------------------------------------------------------------------------
(* No connection is sent an event too often                                *)

(* The broadcast may still bring its event to the connection, itself or by *)
(* way of Redis.                                                           *)
Chance(t, c) ==
  \/ t.phase = "start"
  \/ t.phase = "send" /\ \E e \in t.todo : e.conn = c
  \/ t.phase # "start" /\ t.via # "bridge" /\ (t.phase = "forward" \/ t.sent = 0)

Chances(n, c) == {t \in tasks : t.event = n /\ Chance(t, c)}
PlacesOf(s, n) == {i \in DOMAIN s : s[i] = n}

MayReceive(n, c) ==
  received[c][n] + Cardinality(Chances(n, c)) + Cardinality(PlacesOf(bridge.queue, n))

ReceivedFits ==
  /\ received \in [Connections -> [Events -> Nat]]
  /\ bridge \in [up : BOOLEAN, queue : Seq(Events)]
  /\ \A i \in DOMAIN bridge.queue : bridge.queue[i] <= publisher.event
  /\ \A c \in Connections : \A n \in Events : n > publisher.event => received[c][n] = 0
  /\ \A c \in Connections : \A n \in Events :
       MayReceive(n, c) <= (IF n \in publisher.late THEN 2 ELSE 1)

---------------------------------------------------------------------------
(* Every connection that stays is sent the event                           *)

Mine(c) == [exp |-> Publishing, conn |-> c, socket |-> TRUE]

Awaits(n, c) ==
  /\ n = publisher.event
  /\ sockets[c] = "open" /\ Mine(c) \in channels
  /\ \E t \in tasks :
       /\ t.event = n /\ t.via = "main"
       /\ t.phase = "start" \/ (t.phase = "send" /\ Mine(c) \in t.todo)

PresentFits ==
  /\ present \in [Events -> SUBSET Connections]
  /\ ~split =>
       \A n \in Events : n <= publisher.event /\ n \notin publisher.late =>
         \A c \in present[n] : received[c][n] >= 1 \/ Awaits(n, c)

BoundsFit == moves \in 0 .. MaxMoves /\ faults \in 0 .. MaxFaults

EventInv ==
  /\ ChannelsFit /\ PublisherFits /\ TasksFit /\ ReceivedFits /\ PresentFits
  /\ BoundsFit

---------------------------------------------------------------------------

LEMMA EventInitInv == EventInit => EventInv
<1> SUFFICES ASSUME EventInit PROVE EventInv
  OBVIOUS
<1>1. ChannelsFit
  BY DEF EventInit, ChannelsFit, Nowhere
<1>2. PublisherFits
  BY EventAssumption DEF EventInit, PublisherFits, Events
<1>3. TasksFit
  BY FS_EmptySet DEF EventInit, TasksFit
<1>4. ReceivedFits
  <2>1. \A n, c : Chances(n, c) = {}
    BY DEF EventInit, Chances
  <2>2. \A n : PlacesOf(bridge.queue, n) = {}
    BY DEF EventInit, PlacesOf
  <2>3. bridge = [up |-> TRUE, queue |-> <<>>] /\ <<>> \in Seq(Events)
    BY EmptySeq DEF EventInit
  <2>4. \A c \in Connections : \A n \in Events : received[c][n] = 0
    BY DEF EventInit
  <2>5. ASSUME NEW c \in Connections, NEW n \in Events
        PROVE  MayReceive(n, c) = 0
    <3>1. Cardinality(Chances(n, c)) = 0 /\ Cardinality(PlacesOf(bridge.queue, n)) = 0
      BY <2>1, <2>2, FS_EmptySet
    <3>2. received[c][n] = 0
      BY <2>4
    <3>. QED
      BY <3>1, <3>2 DEF MayReceive
  <2>6. received \in [Connections -> [Events -> Nat]]
    BY DEF EventInit
  <2>7. QED
    BY <2>3, <2>4, <2>5, <2>6 DEF ReceivedFits
<1>5. PresentFits
  BY DEF EventInit, PresentFits
<1>6. BoundsFit
  BY EventAssumption DEF EventInit, BoundsFit
<1>7. QED
  BY <1>1, <1>2, <1>3, <1>4, <1>5, <1>6 DEF EventInv

---------------------------------------------------------------------------
(* What a step does to the tables                                          *)

(* Sockets open once, and only a socket that is opened is entered.         *)
Opens ==
  /\ \A c \in Connections :
       sockets[c] # "new" => /\ sockets'[c] # "new"
                             /\ sockets'[c] = "open" => sockets[c] = "open"
  /\ \A e \in channels' : e \in channels \/ ~e.socket \/ sockets[e.conn] = "new"

LEMMA DropFits ==
  ASSUME ChannelsFit, NEW gone \in SUBSET Connections, Drop(gone),
         sockets' \in [Connections -> {"new", "open", "gone", "noticed"}],
         \A c \in Connections : sockets'[c] = "new" => sockets[c] = "new"
  PROVE  /\ ChannelsFit'
         /\ channels' = {e \in channels : e.conn \notin gone}
<1>1. channels' = {e \in channels : e.conn \notin gone}
  BY DEF ChannelsFit, Drop, Without
<1>2. owner' = [c \in Connections |-> IF c \in gone THEN Nowhere ELSE owner[c]]
  BY DEF Drop, Disowned
<1>3. \A e \in channels : e.conn \in Connections
  BY DEF ChannelsFit, Entry
<1>4. QED
  BY <1>1, <1>2, <1>3 DEF ChannelsFit

LEMMA ConnectFits ==
  ASSUME ChannelsFit, NEW c \in Connections, Connect(c)
  PROVE  ChannelsFit' /\ Opens
<1>1. PICK e \in Experiments :
        /\ channels' = channels \cup {[exp |-> e, conn |-> c, socket |-> TRUE]}
        /\ owner' = [owner EXCEPT ![c] = e]
  BY DEF Connect
<1> DEFINE new == [exp |-> e, conn |-> c, socket |-> TRUE]
<1>2. new \in Entry /\ new.conn = c /\ new.exp = e
  BY DEF Entry
<1> HIDE DEF new
<1>3. channels' = channels \cup {new}
  BY <1>1 DEF new
<1>4. sockets[c] = "new" /\ sockets' = [sockets EXCEPT ![c] = "open"]
  BY DEF Connect
<1>5. \A f \in channels : f.conn # c
  BY <1>4, EventAssumption DEF ChannelsFit, Entry
<1>6. e # Nowhere
  BY EventAssumption
<1>7. ChannelsFit'
  BY <1>1, <1>2, <1>3, <1>4, <1>5, <1>6 DEF ChannelsFit
<1>8. Opens
  BY <1>2, <1>3, <1>4 DEF Opens, ChannelsFit
<1>9. QED
  BY <1>7, <1>8

LEMMA SubscribeFits ==
  ASSUME ChannelsFit, NEW c \in Connections, Subscribe(c)
  PROVE  /\ ChannelsFit' /\ Opens
         /\ \A f \in channels : f.conn # c => f \in channels'
<1>1. PICK e \in Experiments :
        /\ channels' = Without({c}) \cup {[exp |-> e, conn |-> c, socket |-> FALSE]}
        /\ owner' = [owner EXCEPT ![c] = e]
  BY DEF Subscribe
<1> DEFINE new == [exp |-> e, conn |-> c, socket |-> FALSE]
<1>2. new \in Entry /\ new.conn = c /\ new.exp = e /\ ~new.socket
  BY DEF Entry
<1> HIDE DEF new
<1>3. Without({c}) = {f \in channels : f.conn # c}
  BY DEF ChannelsFit, Without
<1>4. channels' = {f \in channels : f.conn # c} \cup {new}
  BY <1>1, <1>3 DEF new
<1>5. sockets[c] = "open" /\ sockets' = sockets
  BY DEF Subscribe
<1>6. ChannelsFit'
  <2>1. owner' \in [Connections -> Experiments \cup {Nowhere}]
        /\ owner'[c] = e /\ \A d \in Connections : d # c => owner'[d] = owner[d]
    BY <1>1 DEF ChannelsFit
  <2>2. \A f \in channels : f.conn \in Connections
    BY DEF ChannelsFit, Entry
  <2>3. /\ channels' \subseteq Entry
        /\ \A f \in channels' : owner'[f.conn] = f.exp
        /\ \A f, g \in channels' : f.conn = g.conn => f = g
    BY <1>2, <1>4, <2>1, <2>2 DEF ChannelsFit
  <2>4. ASSUME NEW d \in Connections, owner'[d] # Nowhere
        PROVE  \E f \in channels' : f.conn = d
    BY <1>2, <1>4, <2>1, <2>4 DEF ChannelsFit
  <2>5. \A d \in Connections : sockets'[d] = "new" => owner'[d] = Nowhere
    BY <1>5, <2>1 DEF ChannelsFit
  <2>6. QED
    BY <1>5, <2>1, <2>3, <2>4, <2>5 DEF ChannelsFit
<1>7. Opens
  BY <1>2, <1>4, <1>5 DEF Opens, ChannelsFit
<1>8. QED
  BY <1>4, <1>6, <1>7

LEMMA ChannelsNext ==
  ASSUME EventInv, [EventNext]_eventVars
  PROVE  ChannelsFit' /\ Opens
<1> USE DEF EventInv
<1>s. ASSUME UNCHANGED <<channels, owner, sockets>>
      PROVE  ChannelsFit' /\ Opens
  BY <1>s DEF ChannelsFit, Opens
<1>d. ASSUME NEW gone \in SUBSET Connections, Drop(gone), sockets' = sockets
      PROVE  ChannelsFit' /\ Opens
  <2>1. ChannelsFit' /\ channels' \subseteq channels
    BY <1>d, DropFits DEF ChannelsFit
  <2>2. Opens
    BY <1>d, <2>1 DEF Opens
  <2>3. QED
    BY <2>1, <2>2
<1>1. ASSUME NEW c \in Connections, ConnectRoot(c)
      PROVE  ChannelsFit' /\ Opens
  BY <1>1 DEF ConnectRoot, ChannelsFit, Opens
<1>2. ASSUME NEW c \in Connections, Leave(c)
      PROVE  ChannelsFit' /\ Opens
  BY <1>2 DEF Leave, ChannelsFit, Opens
<1>3. ASSUME NEW c \in Connections, Notice(c)
      PROVE  ChannelsFit' /\ Opens
  <2>1. /\ sockets[c] = "gone" /\ sockets' = [sockets EXCEPT ![c] = "noticed"]
        /\ Drop({c})
    BY <1>3 DEF Notice
  <2>2. sockets' \in [Connections -> {"new", "open", "gone", "noticed"}]
        /\ \A d \in Connections : sockets'[d] = "new" => sockets[d] = "new"
    BY <2>1 DEF ChannelsFit
  <2>3. ChannelsFit' /\ channels' \subseteq channels
    BY <2>1, <2>2, DropFits
  <2>4. Opens
    BY <2>1, <2>3 DEF Opens, ChannelsFit
  <2>5. QED
    BY <2>3, <2>4
<1>4. ASSUME Shutdown PROVE ChannelsFit' /\ Opens
  BY <1>4 DEF Shutdown, ChannelsFit, Opens
<1>5. ASSUME NEW t \in tasks, Broadcast(t) PROVE ChannelsFit' /\ Opens
  <2>1. CASE Cleanup(t)
    <3>1. t.dead \in SUBSET Connections
      BY DEF TasksFit, TaskType
    <3>2. QED
      BY <2>1, <3>1, <1>d DEF Cleanup
  <2>2. CASE Snapshot(t) \/ Send(t) \/ Forward(t)
    BY <2>2, <1>s DEF Snapshot, Send, Forward
  <2>3. QED
    BY <1>5, <2>1, <2>2 DEF Broadcast
<1>6. ASSUME NEW c \in Connections, Unsubscribe(c) PROVE ChannelsFit' /\ Opens
  BY <1>6, <1>d DEF Unsubscribe
<1>7. CASE PublishSync \/ GiveUp \/ BridgeHears \/ BridgeDrops \/ BridgeReconnects
  BY <1>7, <1>s DEF PublishSync, GiveUp, BridgeHears, BridgeDrops, BridgeReconnects
<1>8. CASE UNCHANGED eventVars
  BY <1>8, <1>s DEF eventVars
<1>9. QED
  BY <1>1, <1>2, <1>3, <1>4, <1>5, <1>6, <1>7, <1>8, ConnectFits, SubscribeFits
     DEF EventNext

(* What a broadcast goes by survives every step.                           *)
LEMMA TargetsKeep ==
  ASSUME ChannelsFit, Opens, NEW t \in TaskType, TargetsFit(t)
  PROVE  TargetsFit(t)'
<1>1. ASSUME NEW c \in Connections, Cold(c) PROVE Cold(c)'
  BY <1>1 DEF Cold, Opens
<1>2. t.todo \subseteq Entry /\ t.dead \subseteq Connections
  BY DEF TaskType
<1>3. \A e \in t.todo : e.conn \in Connections
  BY <1>2 DEF Entry
<1>4. \A e \in t.todo : sockets'[e.conn] # "new" /\ (e.socket \/ Cold(e.conn)')
  BY <1>1, <1>3 DEF TargetsFit, Opens
<1>5. t.via # "isolated" => \A c \in t.dead : Cold(c)'
  BY <1>1, <1>2 DEF TargetsFit
<1>6. QED
  BY <1>4, <1>5 DEF TargetsFit

---------------------------------------------------------------------------
(* What a step does to the publisher and the broadcasts                    *)

(* A broadcast that is replaced or removed, one that is added.             *)
LEMMA ReplacedFits ==
  ASSUME TasksFit, NEW t \in tasks, NEW u,
         \/ Step(t, u) /\ u.event = t.event /\ u.via = t.via
         \/ tasks' = tasks \ {t}
  PROVE  /\ IsFiniteSet(tasks')
         /\ \A v, w \in tasks' :
              v.event = w.event /\ v.via = w.via /\ v.via # "bridge" => v = w
<1>1. IsFiniteSet(tasks \ {t})
  BY FS_RemoveElement DEF TasksFit
<1>2. IsFiniteSet((tasks \ {t}) \cup {u})
  BY <1>1, FS_AddElement
<1>3. QED
  BY <1>1, <1>2 DEF TasksFit, Step

LEMMA AddedFits ==
  ASSUME TasksFit, NEW u, tasks' = tasks \cup {u},
         u.via = "bridge" \/ \A t \in tasks : t.event # u.event \/ t.via # u.via
  PROVE  /\ IsFiniteSet(tasks')
         /\ \A v, w \in tasks' :
              v.event = w.event /\ v.via = w.via /\ v.via # "bridge" => v = w
<1>1. IsFiniteSet(tasks \cup {u})
  BY FS_AddElement DEF TasksFit
<1>2. QED
  BY <1>1 DEF TasksFit

(* A new broadcast has no targets yet.                                     *)
LEMMA TaskFacts ==
  ASSUME NEW n \in Events, NEW via \in {"main", "worker", "isolated", "bridge"}
  PROVE  /\ Task(n, via) \in TaskType /\ TargetsFit(Task(n, via))'
         /\ Task(n, via).event = n /\ Task(n, via).via = via
         /\ Task(n, via).phase = "start"
BY DEF Task, TaskType, TargetsFit

LEMMA PublishFits ==
  ASSUME EventInv, ChannelsFit', Opens, PublishSync
  PROVE  PublisherFits' /\ TasksFit'
<1> USE DEF EventInv
<1>2. publisher.event \in 0 .. MaxEvents /\ split \in BOOLEAN /\ MaxEvents \in Nat
  BY EventAssumption DEF PublisherFits
<1>a. publisher.event < MaxEvents
  BY DEF PublishSync
<1>b. PICK n \in Events : n = publisher.event + 1
  BY <1>2, <1>a DEF Events
<1>c. PICK via \in {"main", "worker"} : via = IF split THEN "worker" ELSE "main"
  BY <1>2
<1>d. PICK u : u = Task(n, via)
  OBVIOUS
<1>1. /\ publisher' = [publisher EXCEPT !.event = n, !.waits = via]
      /\ tasks' = tasks \cup {u} /\ split' = split
      /\ publisher.waits = "nothing"
  BY <1>b, <1>c, <1>d DEF PublishSync
<1>3. n \in 0 .. MaxEvents /\ via \in {"main", "worker"}
  BY <1>b, <1>2 DEF Events
<1>4. u \in TaskType /\ TargetsFit(u)' /\ u.event = n /\ u.via = via
  BY <1>d, TaskFacts
<1>5. \A t \in tasks : t.event \in Events /\ t.event <= publisher.event
  BY DEF TasksFit, TaskType, WaitFits
<1>6. \A t \in tasks : t.event # n
  BY <1>2, <1>5, <1>b DEF Events
<1>7. /\ publisher'.event = n /\ publisher'.waits = via /\ publisher'.late = publisher.late
      /\ publisher' \in [event : 0 .. MaxEvents, late : SUBSET Events,
                         waits : {"nothing", "main", "isolated", "worker"}]
  BY <1>1, <1>3 DEF PublisherFits
<1>8. \A m \in publisher.late : m \in Events /\ m <= publisher.event
  BY DEF PublisherFits
<1>9. PublisherFits'
  <2>1. \A m \in publisher.late : m <= n /\ m # n
    BY <1>2, <1>8, <1>b DEF Events
  <2>2. QED
    BY <1>1, <1>2, <1>c, <1>7, <2>1 DEF PublisherFits
<1>10. ASSUME NEW t \in tasks PROVE WaitFits(t)' /\ TargetsFit(t)'
  <2>1. WaitFits(t) /\ TargetsFit(t) /\ t \in TaskType
    BY DEF TasksFit
  <2>2. TargetsFit(t)'
    BY <2>1, TargetsKeep
  <2>3. t.event <= n
    BY <1>2, <1>5, <1>b DEF Events
  <2>4. t.via # "isolated" /\ (t.via \in {"main", "worker"} => t.event \in publisher.late)
    BY <1>1, <2>1 DEF WaitFits, TaskType
  <2>5. WaitFits(t)'
    BY <1>1, <1>7, <2>1, <2>3, <2>4 DEF WaitFits
  <2>6. QED
    BY <2>2, <2>5
<1>11. WaitFits(u)'
  <2>1. n <= n
    BY <1>2, <1>b
  <2>2. QED
    BY <1>1, <1>2, <1>4, <1>7, <1>c, <2>1 DEF WaitFits
<1>12. /\ IsFiniteSet(tasks')
       /\ \A v, w \in tasks' :
            v.event = w.event /\ v.via = w.via /\ v.via # "bridge" => v = w
  BY <1>1, <1>4, <1>6, AddedFits
<1>13. TasksFit'
  BY <1>1, <1>4, <1>10, <1>11, <1>12 DEF TasksFit
<1>14. QED
  BY <1>9, <1>13

LEMMA GiveUpFits ==
  ASSUME EventInv, ChannelsFit', Opens, GiveUp
  PROVE  PublisherFits' /\ TasksFit'
<1> USE DEF EventInv
<1>a. PICK n \in Events : n = publisher.event
  BY DEF GiveUp, PublisherFits
<1>b. PICK u : u = Task(n, "isolated")
  OBVIOUS
<1>1. /\ publisher' = [publisher EXCEPT !.waits = "isolated", !.late = @ \cup {n}]
      /\ tasks' = tasks \cup {u} /\ split' = split /\ publisher.waits = "main"
  BY <1>a, <1>b DEF GiveUp
<1>2. n \in Events /\ ~split /\ split \in BOOLEAN
  BY <1>1 DEF PublisherFits
<1>3. u \in TaskType /\ TargetsFit(u)' /\ u.event = n /\ u.via = "isolated"
  BY <1>b, TaskFacts
<1>4. /\ publisher'.event = n /\ publisher'.waits = "isolated"
      /\ publisher'.late = publisher.late \cup {n}
      /\ publisher' \in [event : 0 .. MaxEvents, late : SUBSET Events,
                         waits : {"nothing", "main", "isolated", "worker"}]
  BY <1>1, <1>2, <1>a DEF PublisherFits
<1>5. n <= n
  BY <1>2 DEF Events
<1>6. PublisherFits'
  BY <1>1, <1>2, <1>4, <1>5, <1>a DEF PublisherFits
<1>7. \A t \in tasks : t.via # "isolated"
  BY <1>1 DEF TasksFit, WaitFits
<1>8. ASSUME NEW t \in tasks PROVE WaitFits(t)' /\ TargetsFit(t)'
  <2>1. WaitFits(t) /\ TargetsFit(t) /\ t \in TaskType
    BY DEF TasksFit
  <2>2. TargetsFit(t)'
    BY <2>1, TargetsKeep
  <2>3. WaitFits(t)'
    BY <1>1, <1>4, <1>7, <1>a, <2>1 DEF WaitFits
  <2>4. QED
    BY <2>2, <2>3
<1>9. WaitFits(u)'
  BY <1>1, <1>2, <1>3, <1>4, <1>5 DEF WaitFits
<1>10. /\ IsFiniteSet(tasks')
       /\ \A v, w \in tasks' :
            v.event = w.event /\ v.via = w.via /\ v.via # "bridge" => v = w
  <2>1. \A t \in tasks : t.via # u.via
    BY <1>3, <1>7
  <2>2. QED
    BY <1>1, <2>1, AddedFits
<1>11. TasksFit'
  BY <1>1, <1>3, <1>8, <1>9, <1>10 DEF TasksFit
<1>12. QED
  BY <1>6, <1>11

(* The others go on as they were when a broadcast takes a step.            *)
LEMMA StepFits ==
  ASSUME EventInv, ChannelsFit', Opens, NEW t \in tasks, NEW u \in TaskType,
         Step(t, u), UNCHANGED <<split, publisher>>,
         u.event = t.event, u.via = t.via, TargetsFit(u)'
  PROVE  PublisherFits' /\ TasksFit'
<1> USE DEF EventInv
<1>1. PublisherFits'
  BY DEF PublisherFits
<1>2. \A v \in tasks : v \in TaskType /\ WaitFits(v) /\ TargetsFit(v)'
  BY TargetsKeep DEF TasksFit
<1>3. \A v \in tasks : WaitFits(v)'
  BY <1>2 DEF WaitFits
<1>4. WaitFits(u)'
  BY <1>2 DEF WaitFits
<1>5. /\ IsFiniteSet(tasks')
      /\ \A v, w \in tasks' :
           v.event = w.event /\ v.via = w.via /\ v.via # "bridge" => v = w
  BY ReplacedFits
<1>6. QED
  BY <1>1, <1>2, <1>3, <1>4, <1>5 DEF TasksFit, Step

(* A broadcast that is over lets the thread go that waits for it; no other *)
(* one is waited for.                                                      *)
LEMMA ReturnFits ==
  ASSUME EventInv, ChannelsFit', Opens, NEW t \in tasks, Return(t), split' = split
  PROVE  PublisherFits' /\ TasksFit'
<1> USE DEF EventInv
<1> DEFINE mine == publisher.event = t.event /\ publisher.waits = t.via
<1>1. /\ publisher' = IF mine THEN [publisher EXCEPT !.waits = "nothing"] ELSE publisher
      /\ tasks' = tasks \ {t}
  BY DEF Return
<1>2. /\ publisher'.event = publisher.event /\ publisher'.late = publisher.late
      /\ publisher'.waits = IF mine THEN "nothing" ELSE publisher.waits
      /\ publisher' \in [event : 0 .. MaxEvents, late : SUBSET Events,
                         waits : {"nothing", "main", "isolated", "worker"}]
  BY <1>1 DEF PublisherFits
<1>3. PublisherFits'
  BY <1>2 DEF PublisherFits
<1>4. ASSUME NEW v \in tasks, v # t PROVE WaitFits(v)' /\ TargetsFit(v)'
  <2>1. v \in TaskType /\ WaitFits(v) /\ TargetsFit(v)'
    BY TargetsKeep DEF TasksFit
  <2>2. v.event = t.event /\ v.via = t.via => v.via = "bridge"
    BY <1>4 DEF TasksFit
  <2>3. WaitFits(v)'
    BY <1>2, <2>1, <2>2 DEF WaitFits
  <2>4. QED
    BY <2>1, <2>3
<1>5. /\ IsFiniteSet(tasks')
      /\ \A v, w \in tasks' :
           v.event = w.event /\ v.via = w.via /\ v.via # "bridge" => v = w
  BY <1>1, ReplacedFits
<1>6. QED
  BY <1>1, <1>3, <1>4, <1>5 DEF TasksFit

(* What a broadcast becomes in its next step.                              *)
LEMMA SnapshotStep ==
  ASSUME ChannelsFit, NEW t \in TaskType, TargetsFit(t), Snapshot(t)
  PROVE  \E u \in TaskType :
           /\ Step(t, u) /\ TargetsFit(u)
           /\ u.event = t.event /\ u.via = t.via /\ t.phase = "start" /\ u.phase # "start"
           /\ t.via = "main" => u.todo = {e \in channels : e.exp = Publishing}
           /\ u.phase = IF u.todo = {} THEN "forward" ELSE "send"
<1> DEFINE here == IF t.via = "worker" THEN {} ELSE {e \in channels : e.exp = Publishing}
           u == [t EXCEPT !.phase = IF here = {} THEN "forward" ELSE "send", !.todo = here]
<1>1. Step(t, u) /\ t.phase = "start"
  BY DEF Snapshot
<1>2. here \subseteq channels /\ channels \subseteq Entry
  BY DEF ChannelsFit
<1> HIDE DEF here
<1>3. /\ u \in TaskType /\ u.event = t.event /\ u.via = t.via /\ u.todo = here
      /\ u.phase = IF here = {} THEN "forward" ELSE "send"
      /\ u.dead = t.dead
  BY <1>2 DEF TaskType
<1> HIDE DEF u
<1>4. t.via = "main" => here = {e \in channels : e.exp = Publishing}
  BY DEF here
<1>5. TargetsFit(u)
  <2>1. \A e \in here : sockets[e.conn] # "new"
    BY <1>2, EventAssumption DEF ChannelsFit, Entry
  <2>2. \A e \in here : e.socket \/ Cold(e.conn)
    BY <1>2, <2>1 DEF ChannelsFit, Cold
  <2>3. \A e, f \in here : e.conn = f.conn => e = f
    BY <1>2 DEF ChannelsFit
  <2>4. QED
    BY <1>3, <2>1, <2>2, <2>3 DEF TargetsFit
<1>6. QED
  BY <1>1, <1>3, <1>4, <1>5

LEMMA SendStep ==
  ASSUME ChannelsFit, NEW t \in TaskType, TargetsFit(t), Send(t)
  PROVE  \E u \in TaskType, e \in t.todo :
           /\ Step(t, u) /\ TargetsFit(u)
           /\ u.event = t.event /\ u.via = t.via /\ t.phase = "send" /\ u.phase = "send"
           /\ u.todo = t.todo \ {e}
           /\ \/ /\ received' = [received EXCEPT ![e.conn][t.event] = @ + 1]
                 /\ u.sent = t.sent + 1
              \/ /\ ~(e.socket /\ sockets[e.conn] = "open") \/ t.via = "isolated"
                 /\ u.sent = t.sent /\ received' = received
<1>1. PICK e \in t.todo :
       \/ /\ e.socket /\ sockets[e.conn] = "open"
          /\ received' = [received EXCEPT ![e.conn][t.event] = @ + 1]
          /\ Step(t, [t EXCEPT !.todo = @ \ {e}, !.sent = @ + 1])
       \/ /\ ~(e.socket /\ sockets[e.conn] = "open") \/ t.via = "isolated"
          /\ Step(t, [t EXCEPT !.todo = @ \ {e}, !.dead = @ \cup {e.conn}])
          /\ UNCHANGED received
  BY DEF Send
<1>2. e.conn \in Connections /\ t.phase = "send"
  BY DEF TaskType, Entry, Send
<1>3. CASE /\ received' = [received EXCEPT ![e.conn][t.event] = @ + 1]
           /\ Step(t, [t EXCEPT !.todo = @ \ {e}, !.sent = @ + 1])
  <2> DEFINE left == t.todo \ {e}
             more == t.sent + 1
             u == [t EXCEPT !.todo = left, !.sent = more]
  <2>1. /\ u \in TaskType /\ u.event = t.event /\ u.via = t.via /\ u.phase = t.phase
        /\ u.todo = left /\ u.dead = t.dead /\ u.sent = more
    <3>1. left \subseteq Entry /\ more \in Nat
      BY DEF TaskType
    <3> HIDE DEF left, more
    <3>2. QED
      BY <3>1 DEF TaskType
  <2>2. Step(t, u)
    BY <1>3
  <2> HIDE DEF u
  <2>3. TargetsFit(u)
    BY <2>1 DEF TargetsFit
  <2>4. QED
    BY <1>2, <1>3, <2>1, <2>2, <2>3
<1>4. CASE /\ ~(e.socket /\ sockets[e.conn] = "open") \/ t.via = "isolated"
           /\ Step(t, [t EXCEPT !.todo = @ \ {e}, !.dead = @ \cup {e.conn}])
           /\ UNCHANGED received
  <2> DEFINE u == [t EXCEPT !.todo = @ \ {e}, !.dead = @ \cup {e.conn}]
  <2>1. /\ u \in TaskType /\ u.event = t.event /\ u.via = t.via /\ u.phase = t.phase
        /\ u.todo = t.todo \ {e} /\ u.dead = t.dead \cup {e.conn} /\ u.sent = t.sent
    BY <1>2 DEF TaskType
  <2>2. Step(t, u)
    BY <1>4
  <2> HIDE DEF u
  <2>3. t.via # "isolated" => Cold(e.conn)
    <3>1. sockets[e.conn] # "new" /\ (e.socket \/ Cold(e.conn))
      BY DEF TargetsFit
    <3>2. QED
      BY <1>4, <3>1 DEF Cold
  <2>4. TargetsFit(u)
    BY <2>1, <2>3 DEF TargetsFit
  <2>5. QED
    BY <1>2, <1>4, <2>1, <2>2, <2>4
<1>5. QED
  BY <1>1, <1>3, <1>4

LEMMA CleanupStep ==
  ASSUME NEW t \in TaskType, TargetsFit(t), Cleanup(t)
  PROVE  /\ t.phase = "send" /\ t.todo = {}
         /\ \/ Return(t)
            \/ \E u \in TaskType :
                 /\ Step(t, u) /\ TargetsFit(u) /\ UNCHANGED publisher
                 /\ u.event = t.event /\ u.via = t.via
                 /\ t.via # "bridge" /\ t.sent = 0 /\ u.phase = "forward"
<1>1. CASE t.sent = 0 /\ t.via # "bridge"
  <2> DEFINE u == [t EXCEPT !.phase = "forward"]
  <2>1. Step(t, u) /\ UNCHANGED publisher /\ t.phase = "send" /\ t.todo = {}
    BY <1>1 DEF Cleanup
  <2>2. /\ u \in TaskType /\ u.event = t.event /\ u.via = t.via /\ u.phase = "forward"
        /\ u.todo = t.todo /\ u.dead = t.dead
    BY DEF TaskType
  <2> HIDE DEF u
  <2>3. TargetsFit(u)
    BY <2>2 DEF TargetsFit
  <2>4. QED
    BY <1>1, <2>1, <2>2, <2>3
<1>2. CASE ~(t.sent = 0 /\ t.via # "bridge")
  BY <1>2 DEF Cleanup
<1>3. QED
  BY <1>1, <1>2

LEMMA TasksNext ==
  ASSUME EventInv, ChannelsFit', Opens, [EventNext]_eventVars
  PROVE  PublisherFits' /\ TasksFit'
<1> USE DEF EventInv
<1>1. ASSUME UNCHANGED <<split, publisher, tasks>>
      PROVE  PublisherFits' /\ TasksFit'
  <2>1. PublisherFits'
    BY <1>1 DEF PublisherFits
  <2>2. \A t \in tasks : TargetsFit(t)'
    BY TargetsKeep DEF TasksFit
  <2>3. TasksFit'
    BY <1>1, <2>2 DEF TasksFit, WaitFits
  <2>4. QED
    BY <2>1, <2>3
<1>2. ASSUME NEW t \in tasks, Broadcast(t) PROVE PublisherFits' /\ TasksFit'
  <2>1. t \in TaskType /\ TargetsFit(t)
    BY DEF TasksFit
  <2>2. ASSUME NEW u \in TaskType, Step(t, u), TargetsFit(u), UNCHANGED <<split, publisher>>,
               u.event = t.event, u.via = t.via
        PROVE  PublisherFits' /\ TasksFit'
    BY <2>2, TargetsKeep, StepFits
  <2>3. CASE Snapshot(t)
    BY <2>1, <2>2, <2>3, SnapshotStep DEF Snapshot
  <2>4. CASE Send(t)
    BY <2>1, <2>2, <2>4, SendStep DEF Send
  <2>5. CASE Cleanup(t)
    BY <2>1, <2>2, <2>5, CleanupStep, ReturnFits DEF Cleanup
  <2>6. CASE Forward(t)
    BY <2>6, ReturnFits DEF Forward
  <2>7. QED
    BY <1>2, <2>3, <2>4, <2>5, <2>6 DEF Broadcast
<1>3. CASE BridgeHears
  <2>1. PICK n \in Events : n = Head(bridge.queue) /\ n <= publisher.event
    <3>1. bridge.queue \in Seq(Events) /\ bridge.queue # <<>>
      BY <1>3 DEF BridgeHears, ReceivedFits
    <3>2. Head(bridge.queue) = bridge.queue[1] /\ 1 \in DOMAIN bridge.queue
      BY <3>1, HeadTailProperties, LenProperties, EmptySeq
    <3>3. Head(bridge.queue) \in Events
      BY <3>1, HeadTailProperties
    <3>4. QED
      BY <3>2, <3>3 DEF ReceivedFits
  <2>2. PICK u : u = Task(n, "bridge")
    OBVIOUS
  <2>3. tasks' = tasks \cup {u} /\ UNCHANGED <<split, publisher>>
    BY <1>3, <2>1, <2>2 DEF BridgeHears
  <2>4. u \in TaskType /\ TargetsFit(u)' /\ u.event = n /\ u.via = "bridge"
    BY <2>2, TaskFacts
  <2>5. WaitFits(u)' /\ PublisherFits'
    BY <2>1, <2>3, <2>4 DEF WaitFits, PublisherFits
  <2>6. \A t \in tasks : t \in TaskType /\ WaitFits(t)' /\ TargetsFit(t)'
    BY <2>3, TargetsKeep DEF TasksFit, WaitFits
  <2>7. /\ IsFiniteSet(tasks')
        /\ \A v, w \in tasks' :
             v.event = w.event /\ v.via = w.via /\ v.via # "bridge" => v = w
    BY <2>3, <2>4, AddedFits
  <2>8. QED
    BY <2>3, <2>4, <2>5, <2>6, <2>7 DEF TasksFit
<1>4. CASE BridgeDrops \/ BridgeReconnects \/ Shutdown
  BY <1>1, <1>4 DEF BridgeDrops, BridgeReconnects, Shutdown
<1>5. ASSUME NEW c \in Connections,
             \/ Connect(c) \/ ConnectRoot(c) \/ Subscribe(c)
             \/ Unsubscribe(c) \/ Leave(c) \/ Notice(c)
      PROVE  PublisherFits' /\ TasksFit'
  BY <1>1, <1>5 DEF Connect, ConnectRoot, Subscribe, Unsubscribe, Leave, Notice
<1>6. CASE UNCHANGED eventVars
  BY <1>1, <1>6 DEF eventVars
<1>7. QED
  BY <1>2, <1>3, <1>4, <1>5, <1>6, PublishFits, GiveUpFits DEF EventNext

---------------------------------------------------------------------------
(* Counting the chances                                                    *)

LEMMA PlacesFinite ==
  ASSUME NEW s \in Seq(Events), NEW n
  PROVE  IsFiniteSet(PlacesOf(s, n)) /\ Cardinality(PlacesOf(s, n)) \in Nat
<1>1. DOMAIN s = 1 .. Len(s) /\ Len(s) \in Nat
  BY LenProperties
<1>2. IsFiniteSet(1 .. Len(s))
  BY <1>1, FS_Interval
<1>3. PlacesOf(s, n) \subseteq 1 .. Len(s)
  BY <1>1 DEF PlacesOf
<1>4. IsFiniteSet(PlacesOf(s, n))
  BY <1>2, <1>3, FS_Subset
<1>5. QED
  BY <1>4, FS_CardinalityType

LEMMA PlacesAppend ==
  ASSUME NEW s \in Seq(Events), NEW m \in Events, NEW n
  PROVE  Cardinality(PlacesOf(Append(s, m), n)) =
           Cardinality(PlacesOf(s, n)) + (IF m = n THEN 1 ELSE 0)
<1>1. /\ DOMAIN s = 1 .. Len(s) /\ Len(s) \in Nat
      /\ DOMAIN Append(s, m) = 1 .. Len(s) + 1
      /\ \A i \in 1 .. Len(s) : Append(s, m)[i] = s[i]
      /\ Append(s, m)[Len(s) + 1] = m
  BY LenProperties, AppendProperties
<1>2. IsFiniteSet(PlacesOf(s, n)) /\ Cardinality(PlacesOf(s, n)) \in Nat
  BY PlacesFinite
<1>3. Len(s) + 1 \notin PlacesOf(s, n)
  BY <1>1 DEF PlacesOf
<1>4. CASE m = n
  <2>1. PlacesOf(Append(s, m), n) = PlacesOf(s, n) \cup {Len(s) + 1}
    BY <1>1, <1>4 DEF PlacesOf
  <2>2. QED
    BY <1>2, <1>3, <1>4, <2>1, FS_AddElement
<1>5. CASE m # n
  <2>1. PlacesOf(Append(s, m), n) = PlacesOf(s, n)
    BY <1>1, <1>5 DEF PlacesOf
  <2>2. QED
    BY <1>2, <1>5, <2>1
<1>6. QED
  BY <1>4, <1>5

LEMMA PlacesTail ==
  ASSUME NEW s \in Seq(Events), s # <<>>, NEW n
  PROVE  Cardinality(PlacesOf(Tail(s), n)) + (IF Head(s) = n THEN 1 ELSE 0)
           <= Cardinality(PlacesOf(s, n))
<1>1. /\ DOMAIN s = 1 .. Len(s) /\ Len(s) \in Nat \ {0}
      /\ DOMAIN Tail(s) = 1 .. Len(s) - 1
      /\ \A i \in 1 .. Len(s) - 1 : Tail(s)[i] = s[i + 1]
      /\ Head(s) = s[1]
  BY LenProperties, HeadTailProperties, EmptySeq
<1> DEFINE old == PlacesOf(s, n)
           rest == old \ {1}
           new == PlacesOf(Tail(s), n)
           shift == [i \in new |-> i + 1]
<1>2. IsFiniteSet(old) /\ Cardinality(old) \in Nat
  BY PlacesFinite
<1>3. IsFiniteSet(rest) /\ Cardinality(rest) = IF 1 \in old THEN Cardinality(old) - 1
                                               ELSE Cardinality(old)
  BY <1>2, FS_RemoveElement
<1>4. 1 \in old <=> Head(s) = n
  BY <1>1 DEF PlacesOf
<1>5. \A i \in new : i \in Nat /\ i + 1 \in rest
  BY <1>1 DEF PlacesOf
<1> HIDE DEF rest, new
<1>6. shift \in Injection(new, rest)
  BY <1>5 DEF Injection, IsInjective
<1>7. Cardinality(new) <= Cardinality(rest) /\ IsFiniteSet(new)
  BY <1>3, <1>6, FS_Injection
<1>8. Cardinality(new) \in Nat
  BY <1>7, FS_CardinalityType
<1>9. QED
  BY <1>2, <1>3, <1>4, <1>7, <1>8 DEF new

LEMMA ChancesFinite ==
  ASSUME TasksFit, NEW n, NEW c
  PROVE  IsFiniteSet(Chances(n, c)) /\ Cardinality(Chances(n, c)) \in Nat
<1>1. IsFiniteSet(Chances(n, c))
  BY FS_Subset DEF TasksFit, Chances
<1>2. QED
  BY <1>1, FS_CardinalityType

(* The chances a broadcast has left.                                       *)
Left(t, n, c) == IF t.event = n /\ Chance(t, c) THEN 1 ELSE 0

LEMMA ChancesAdd ==
  ASSUME TasksFit, NEW u, tasks' = tasks \cup {u}, NEW n, NEW c
  PROVE  Cardinality(Chances(n, c)') <= Cardinality(Chances(n, c)) + Left(u, n, c)
<1>1. IsFiniteSet(Chances(n, c)) /\ Cardinality(Chances(n, c)) \in Nat
  BY ChancesFinite
<1>2. CASE u.event = n /\ Chance(u, c)
  <2> DEFINE old == Chances(n, c)
  <2>1. Chances(n, c)' = old \cup {u} /\ Left(u, n, c) = 1
    BY <1>2 DEF Chances, Left
  <2>2. IsFiniteSet(old) /\ Cardinality(old) \in Nat
    BY <1>1
  <2> HIDE DEF old
  <2>3. Cardinality(old \cup {u}) <= Cardinality(old) + 1
    BY <2>2, FS_AddElement
  <2>4. QED
    BY <2>1, <2>3 DEF old
<1>3. CASE ~(u.event = n /\ Chance(u, c))
  <2>1. Chances(n, c)' = Chances(n, c)
    BY <1>3 DEF Chances
  <2>2. QED
    BY <1>1, <1>3, <2>1 DEF Left
<1>4. QED
  BY <1>2, <1>3

LEMMA ChancesRemove ==
  ASSUME TasksFit, NEW t \in tasks, tasks' = tasks \ {t}, NEW n, NEW c
  PROVE  Cardinality(Chances(n, c)') = Cardinality(Chances(n, c)) - Left(t, n, c)
<1>1. IsFiniteSet(Chances(n, c)) /\ Cardinality(Chances(n, c)) \in Nat
  BY ChancesFinite
<1>2. CASE t.event = n /\ Chance(t, c)
  <2>1. Chances(n, c)' = Chances(n, c) \ {t} /\ t \in Chances(n, c)
    BY <1>2 DEF Chances
  <2>2. QED
    BY <1>1, <1>2, <2>1, FS_RemoveElement DEF Left
<1>3. CASE ~(t.event = n /\ Chance(t, c))
  <2>1. Chances(n, c)' = Chances(n, c)
    BY <1>3 DEF Chances
  <2>2. QED
    BY <1>1, <1>3, <2>1 DEF Left
<1>4. QED
  BY <1>2, <1>3

LEMMA ChancesStep ==
  ASSUME TasksFit, NEW t \in tasks, NEW u, Step(t, u), NEW n, NEW c
  PROVE  Cardinality(Chances(n, c)') <= Cardinality(Chances(n, c)) - Left(t, n, c)
                                          + Left(u, n, c)
<1> DEFINE old == Chances(n, c)
           gone == IF t.event = n /\ Chance(t, c) THEN {t} ELSE {}
           come == IF u.event = n /\ Chance(u, c) THEN {u} ELSE {}
<1>1. IsFiniteSet(old) /\ Cardinality(old) \in Nat
  BY ChancesFinite
<1>2. Chances(n, c)' = (old \ gone) \cup come /\ gone \subseteq old
  BY DEF Chances, Step
<1>3. IsFiniteSet(old \ gone) /\ Cardinality(old \ gone) = Cardinality(old) - Left(t, n, c)
  <2>1. CASE t.event = n /\ Chance(t, c)
    BY <1>1, <1>2, <2>1, FS_RemoveElement DEF Left
  <2>2. CASE ~(t.event = n /\ Chance(t, c))
    <3>1. old \ gone = old /\ Left(t, n, c) = 0
      BY <2>2 DEF Left
    <3> HIDE DEF old, gone
    <3>2. QED
      BY <1>1, <3>1
  <2>3. QED
    BY <2>1, <2>2
<1>4. Cardinality(old \ gone) \in Nat
  BY <1>3, FS_CardinalityType
<1> HIDE DEF old, gone
<1>5. Cardinality((old \ gone) \cup come) <= Cardinality(old \ gone) + Left(u, n, c)
  <2>1. CASE u.event = n /\ Chance(u, c)
    BY <1>3, <1>4, <2>1, FS_AddElement DEF Left
  <2>2. CASE ~(u.event = n /\ Chance(u, c))
    <3>1. (old \ gone) \cup come = old \ gone
      BY <2>2
    <3>2. QED
      BY <1>4, <2>2, <3>1 DEF Left
  <2>3. QED
    BY <2>1, <2>2
<1>6. QED
  BY <1>2, <1>3, <1>5 DEF old

---------------------------------------------------------------------------
(* No connection is sent an event too often                                *)

LEMMA ChancesFiniteNext ==
  ASSUME TasksFit', NEW n, NEW c
  PROVE  Cardinality(Chances(n, c)') \in Nat
<1>1. Chances(n, c)' \in SUBSET tasks' /\ IsFiniteSet(tasks')
  BY DEF TasksFit, Chances
<1>2. IsFiniteSet(Chances(n, c)')
  BY <1>1, FS_Subset
<1>3. QED
  BY <1>2, FS_CardinalityType

(* The parts of the count, now and after a step.                           *)
LEMMA CountTypes ==
  ASSUME EventInv, TasksFit', bridge' \in [up : BOOLEAN, queue : Seq(Events)],
         NEW n \in Events, NEW c \in Connections
  PROVE  /\ received[c][n] \in Nat
         /\ Cardinality(Chances(n, c)) \in Nat
         /\ Cardinality(Chances(n, c)') \in Nat
         /\ Cardinality(PlacesOf(bridge.queue, n)) \in Nat
         /\ Cardinality(PlacesOf(bridge'.queue, n)) \in Nat
<1>1. bridge.queue \in Seq(Events) /\ bridge'.queue \in Seq(Events) /\ TasksFit
  BY DEF EventInv, ReceivedFits
<1>2. received[c][n] \in Nat
  BY DEF EventInv, ReceivedFits
<1>3. QED
  BY <1>1, <1>2, PlacesFinite, ChancesFinite, ChancesFiniteNext

(* A step that gives nobody a new chance.                                  *)
LEMMA ReceivedKeeps ==
  ASSUME EventInv, TasksFit',
         received' \in [Connections -> [Events -> Nat]],
         bridge' \in [up : BOOLEAN, queue : Seq(Events)],
         publisher'.late = publisher.late, publisher'.event = publisher.event,
         \A i \in DOMAIN bridge'.queue : bridge'.queue[i] <= publisher.event,
         \A c \in Connections : \A n \in Events :
           /\ n > publisher.event => received'[c][n] = 0
           /\ received'[c][n] + Cardinality(Chances(n, c)')
                + Cardinality(PlacesOf(bridge'.queue, n)) <= MayReceive(n, c)
  PROVE  ReceivedFits'
<1>1. ASSUME NEW c \in Connections, NEW n \in Events
      PROVE  MayReceive(n, c)' <= (IF n \in publisher.late THEN 2 ELSE 1)
  <2> DEFINE may == received'[c][n] + Cardinality(Chances(n, c)')
                      + Cardinality(PlacesOf(bridge'.queue, n))
             might == MayReceive(n, c)
  <2>1. may \in Nat /\ might \in Nat
    BY CountTypes, SMTT(30) DEF MayReceive
  <2>2. may <= might
    OBVIOUS
  <2>3. might <= (IF n \in publisher.late THEN 2 ELSE 1)
    BY DEF EventInv, ReceivedFits
  <2>4. MayReceive(n, c)' = may
    BY DEF MayReceive
  <2> HIDE DEF may, might
  <2>5. QED
    BY <2>1, <2>2, <2>3, <2>4
<1>2. QED
  BY <1>1 DEF ReceivedFits

LEMMA ReceivedPublish ==
  ASSUME EventInv, TasksFit', PublisherFits', PublishSync
  PROVE  ReceivedFits'
<1> USE DEF EventInv
<1>1. PICK n, via, u :
        /\ n \in Events /\ via \in {"main", "worker"}
        /\ n = publisher.event + 1 /\ u = Task(n, via)
        /\ publisher' = [publisher EXCEPT !.event = n, !.waits = via]
        /\ tasks' = tasks \cup {u}
  <2>1. publisher.event \in 0 .. MaxEvents /\ MaxEvents \in Nat /\ split \in BOOLEAN
    BY EventAssumption DEF PublisherFits
  <2>2. publisher.event + 1 \in Events
    BY <2>1 DEF PublishSync, Events
  <2>3. QED
    BY <2>1, <2>2 DEF PublishSync
<1>2. /\ publisher'.event = n /\ publisher'.late = publisher.late
      /\ publisher.event \in Nat
  BY <1>1 DEF PublisherFits
<1>3. UNCHANGED <<received, bridge>>
  BY DEF PublishSync
<1>4. u.event = n
  BY <1>1 DEF Task
<1>5. \A m \in publisher.late : m # n
  BY <1>1, <1>2 DEF PublisherFits, Events
<1>6. /\ bridge \in [up : BOOLEAN, queue : Seq(Events)]
      /\ received \in [Connections -> [Events -> Nat]]
  BY DEF ReceivedFits
<1>7. \A i \in DOMAIN bridge.queue : bridge.queue[i] \in Events
  BY <1>6, LenProperties
<1>8. \A i \in DOMAIN bridge.queue : bridge.queue[i] <= n /\ bridge.queue[i] # n
  BY <1>1, <1>2, <1>7 DEF ReceivedFits, Events
<1>9. ASSUME NEW c \in Connections, NEW m \in Events
      PROVE  MayReceive(m, c)' <= (IF m \in publisher.late THEN 2 ELSE 1)
  <2> DEFINE old == Cardinality(Chances(m, c))
             new == Cardinality(Chances(m, c)')
             queued == Cardinality(PlacesOf(bridge.queue, m))
  <2>1. old \in Nat /\ new \in Nat /\ queued \in Nat /\ received[c][m] \in Nat
    BY <1>3, <1>6, CountTypes
  <2>2. new <= old + Left(u, m, c)
    BY <1>1, ChancesAdd
  <2>3. MayReceive(m, c)' = received[c][m] + new + queued
    BY <1>3 DEF MayReceive
  <2>4. MayReceive(m, c) = received[c][m] + old + queued
    BY DEF MayReceive
  <2>5. CASE m = n
    <3>1. received[c][n] = 0
      BY <1>1, <1>2 DEF ReceivedFits, Events
    <3>2. \A t \in tasks : t.event # n
      BY <1>1, <1>2 DEF TasksFit, WaitFits, TaskType, Events
    <3>3. Chances(n, c) = {} /\ PlacesOf(bridge.queue, n) = {}
      BY <1>8, <3>2 DEF Chances, PlacesOf
    <3>4. old = 0 /\ queued = 0
      BY <2>5, <3>3, FS_EmptySet
    <3>5. Left(u, m, c) <= 1 /\ Left(u, m, c) \in Nat
      BY DEF Left
    <3> HIDE DEF old, new, queued
    <3>6. received[c][m] + new + queued <= 1
      BY <2>1, <2>2, <2>5, <3>1, <3>4, <3>5
    <3>7. QED
      BY <1>5, <2>3, <2>5, <3>6
  <2>6. CASE m # n
    <3>1. Left(u, m, c) = 0
      BY <1>4, <2>6 DEF Left
    <3>2. MayReceive(m, c) <= (IF m \in publisher.late THEN 2 ELSE 1)
      BY DEF ReceivedFits
    <3> HIDE DEF old, new, queued
    <3>3. received[c][m] + new + queued <= received[c][m] + old + queued
      BY <2>1, <2>2, <3>1
    <3>4. QED
      BY <2>1, <2>3, <2>4, <3>2, <3>3
  <2>7. QED
    BY <2>5, <2>6
<1>10. \A m \in Events : m > n => m > publisher.event
  BY <1>1, <1>2 DEF Events
<1>11. QED
  BY <1>2, <1>3, <1>6, <1>8, <1>9, <1>10 DEF ReceivedFits

LEMMA ReceivedGiveUp ==
  ASSUME EventInv, TasksFit', PublisherFits', GiveUp
  PROVE  ReceivedFits'
<1> USE DEF EventInv
<1>1. PICK n, u :
        /\ n \in Events
        /\ n = publisher.event /\ u = Task(n, "isolated")
        /\ publisher' = [publisher EXCEPT !.waits = "isolated", !.late = @ \cup {n}]
        /\ tasks' = tasks \cup {u}
  BY DEF GiveUp, PublisherFits
<1>2. /\ publisher'.event = n /\ publisher'.late = publisher.late \cup {n}
      /\ n \notin publisher.late
  BY <1>1 DEF PublisherFits, GiveUp
<1>3. UNCHANGED <<received, bridge>>
  BY DEF GiveUp
<1>4. u.event = n
  BY <1>1 DEF Task
<1>5. /\ bridge \in [up : BOOLEAN, queue : Seq(Events)]
      /\ received \in [Connections -> [Events -> Nat]]
  BY DEF ReceivedFits
<1>6. ASSUME NEW c \in Connections, NEW m \in Events
      PROVE  MayReceive(m, c)' <= (IF m \in publisher.late \cup {n} THEN 2 ELSE 1)
  <2> DEFINE old == Cardinality(Chances(m, c))
             new == Cardinality(Chances(m, c)')
             queued == Cardinality(PlacesOf(bridge.queue, m))
  <2>1. old \in Nat /\ new \in Nat /\ queued \in Nat /\ received[c][m] \in Nat
    BY <1>3, <1>5, CountTypes
  <2>2. new <= old + Left(u, m, c)
    BY <1>1, ChancesAdd
  <2>3. MayReceive(m, c)' = received[c][m] + new + queued
    BY <1>3 DEF MayReceive
  <2>4. received[c][m] + old + queued <= (IF m \in publisher.late THEN 2 ELSE 1)
    BY DEF MayReceive, ReceivedFits
  <2>5. Left(u, m, c) \in {0, 1} /\ (m # n => Left(u, m, c) = 0)
    BY <1>4 DEF Left
  <2> HIDE DEF old, new, queued
  <2>6. QED
    BY <1>2, <2>1, <2>2, <2>3, <2>4, <2>5
<1>7. QED
  BY <1>1, <1>2, <1>3, <1>5, <1>6 DEF ReceivedFits

(* A broadcast that goes on has no more chances than it had.               *)
LEMMA ReceivedStep ==
  ASSUME EventInv, TasksFit', NEW t \in tasks, NEW u, Step(t, u),
         UNCHANGED <<publisher, bridge, received>>,
         u.event = t.event, \A c \in Connections : Chance(u, c) => Chance(t, c)
  PROVE  ReceivedFits'
<1> USE DEF EventInv
<1>1. ASSUME NEW c \in Connections, NEW n \in Events
      PROVE  received'[c][n] + Cardinality(Chances(n, c)')
               + Cardinality(PlacesOf(bridge'.queue, n)) <= MayReceive(n, c)
  <2> DEFINE old == Cardinality(Chances(n, c))
             new == Cardinality(Chances(n, c)')
             queued == Cardinality(PlacesOf(bridge.queue, n))
  <2>1. old \in Nat /\ new \in Nat /\ queued \in Nat /\ received[c][n] \in Nat
    BY CountTypes DEF ReceivedFits
  <2>2. new <= old - Left(t, n, c) + Left(u, n, c)
    BY ChancesStep
  <2>3. Left(u, n, c) <= Left(t, n, c) /\ Left(u, n, c) \in Nat /\ Left(t, n, c) \in Nat
    BY DEF Left
  <2>4. MayReceive(n, c) = received[c][n] + old + queued
    BY DEF MayReceive
  <2> HIDE DEF old, new
  <2>5. new <= old
    BY <2>1, <2>2, <2>3
  <2>6. received[c][n] + new + queued <= received[c][n] + old + queued
    BY <2>1, <2>5
  <2>7. QED
    BY <2>4, <2>6 DEF new
<1>2. QED
  BY <1>1, ReceivedKeeps DEF ReceivedFits

LEMMA ReceivedSend ==
  ASSUME EventInv, TasksFit', NEW t \in tasks, Send(t)
  PROVE  ReceivedFits'
<1> USE DEF EventInv
<1>1. t \in TaskType /\ TargetsFit(t) /\ UNCHANGED <<publisher, bridge>>
  BY DEF TasksFit, Send
<1>2. PICK u \in TaskType, e \in t.todo :
        /\ Step(t, u) /\ TargetsFit(u)
        /\ u.event = t.event /\ u.via = t.via /\ t.phase = "send" /\ u.phase = "send"
        /\ u.todo = t.todo \ {e}
        /\ \/ /\ received' = [received EXCEPT ![e.conn][t.event] = @ + 1]
              /\ u.sent = t.sent + 1
           \/ /\ ~(e.socket /\ sockets[e.conn] = "open") \/ t.via = "isolated"
              /\ u.sent = t.sent /\ received' = received
  BY <1>1, SendStep
<1>3. t.sent \in Nat /\ t.event \in Events /\ e.conn \in Connections
  BY <1>1 DEF TaskType, Entry
<1>4. CASE u.sent = t.sent /\ received' = received
  BY <1>1, <1>2, <1>4, ReceivedStep DEF Chance
<1>5. CASE /\ received' = [received EXCEPT ![e.conn][t.event] = @ + 1]
           /\ u.sent = t.sent + 1
  <2>1. received \in [Connections -> [Events -> Nat]]
    BY DEF ReceivedFits
  <2>2. /\ received' \in [Connections -> [Events -> Nat]]
        /\ \A c \in Connections : \A n \in Events :
             received'[c][n] = IF c = e.conn /\ n = t.event THEN received[c][n] + 1
                               ELSE received[c][n]
    <3>1. received[e.conn][t.event] + 1 \in Nat
      BY <1>3, <2>1
    <3>2. QED
      BY <1>3, <1>5, <2>1, <3>1
  <2>3. Chance(t, e.conn) /\ ~Chance(u, e.conn)
    <3>1. u.sent # 0
      BY <1>3, <1>5
    <3>2. \A f \in t.todo : f.conn = e.conn => f = e
      BY <1>1 DEF TargetsFit
    <3>3. QED
      BY <1>2, <3>1, <3>2 DEF Chance
  <2>4. \A c \in Connections : Chance(u, c) => Chance(t, c)
    BY <1>2, <1>3, <1>5 DEF Chance
  <2>5. t.event <= publisher.event
    BY DEF TasksFit, WaitFits
  <2>6. ASSUME NEW c \in Connections, NEW n \in Events
        PROVE  /\ received'[c][n] + Cardinality(Chances(n, c)')
                    + Cardinality(PlacesOf(bridge'.queue, n)) <= MayReceive(n, c)
               /\ n > publisher.event => received'[c][n] = 0
    <3> DEFINE old == Cardinality(Chances(n, c))
               new == Cardinality(Chances(n, c)')
               queued == Cardinality(PlacesOf(bridge.queue, n))
    <3>1. old \in Nat /\ new \in Nat /\ queued \in Nat /\ received[c][n] \in Nat
      BY <1>1, CountTypes DEF ReceivedFits
    <3>2. new <= old - Left(t, n, c) + Left(u, n, c)
      BY <1>2, ChancesStep
    <3>3. MayReceive(n, c) = received[c][n] + old + queued
      BY DEF MayReceive
    <3>4. /\ Left(t, n, c) \in Nat /\ Left(u, n, c) \in Nat
          /\ Left(u, n, c) <= Left(t, n, c)
          /\ c = e.conn /\ n = t.event => Left(t, n, c) = 1 /\ Left(u, n, c) = 0
      BY <1>2, <2>3, <2>4 DEF Left
    <3>5. n > publisher.event => n # t.event
      BY <1>3, <2>5 DEF PublisherFits, Events
    <3>6. n > publisher.event => received'[c][n] = 0
      BY <2>2, <3>5 DEF ReceivedFits
    <3> HIDE DEF old, new
    <3>7. received'[c][n] + new + queued <= received[c][n] + old + queued
      BY <2>2, <3>1, <3>2, <3>4
    <3>8. QED
      BY <1>1, <3>3, <3>6, <3>7 DEF new
  <2>7. QED
    BY <1>1, <2>2, <2>6, ReceivedKeeps DEF ReceivedFits
<1>6. QED
  BY <1>2, <1>4, <1>5

(* A broadcast that is over leaves its chance to the queue, at the most.   *)
LEMMA ReceivedReturn ==
  ASSUME EventInv, TasksFit', NEW t \in tasks, Return(t), UNCHANGED received,
         \/ bridge' = bridge
         \/ /\ bridge' = [bridge EXCEPT !.queue = Append(@, t.event)]
            /\ \A c \in Connections : Chance(t, c)
  PROVE  ReceivedFits'
<1> USE DEF EventInv
<1>1. /\ t \in TaskType /\ t.event \in Events /\ t.event <= publisher.event
      /\ tasks' = tasks \ {t}
  BY DEF TasksFit, TaskType, WaitFits, Return
<1>2. publisher'.late = publisher.late /\ publisher'.event = publisher.event
  BY DEF Return, PublisherFits
<1>3. bridge \in [up : BOOLEAN, queue : Seq(Events)]
  BY DEF ReceivedFits
<1> DEFINE longer == Append(bridge.queue, t.event)
<1>4. /\ DOMAIN bridge.queue = 1 .. Len(bridge.queue) /\ Len(bridge.queue) \in Nat
      /\ longer \in Seq(Events)
      /\ DOMAIN longer = 1 .. Len(bridge.queue) + 1
      /\ \A i \in 1 .. Len(bridge.queue) : longer[i] = bridge.queue[i]
      /\ longer[Len(bridge.queue) + 1] = t.event
  BY <1>1, <1>3, LenProperties, AppendProperties
<1>5. \A n : Cardinality(PlacesOf(longer, n)) =
               Cardinality(PlacesOf(bridge.queue, n)) + (IF t.event = n THEN 1 ELSE 0)
  BY <1>1, <1>3, PlacesAppend
<1>6. \A i \in DOMAIN longer : longer[i] <= publisher.event
  BY <1>1, <1>4 DEF ReceivedFits
<1> HIDE DEF longer
<1>7. /\ bridge' \in [up : BOOLEAN, queue : Seq(Events)]
      /\ \A i \in DOMAIN bridge'.queue : bridge'.queue[i] <= publisher.event
      /\ \/ bridge'.queue = bridge.queue
         \/ bridge'.queue = longer /\ \A c \in Connections : Chance(t, c)
  <2>1. CASE bridge' = bridge
    BY <1>3, <2>1 DEF ReceivedFits
  <2>2. CASE /\ bridge' = [bridge EXCEPT !.queue = Append(@, t.event)]
             /\ \A c \in Connections : Chance(t, c)
    <3>1. bridge' = [bridge EXCEPT !.queue = longer]
      BY <2>2 DEF longer
    <3>2. QED
      BY <1>3, <1>4, <1>6, <2>2, <3>1
  <2>3. QED
    BY <2>1, <2>2
<1>8. ASSUME NEW c \in Connections, NEW n \in Events
      PROVE  received'[c][n] + Cardinality(Chances(n, c)')
               + Cardinality(PlacesOf(bridge'.queue, n)) <= MayReceive(n, c)
  <2> DEFINE old == Cardinality(Chances(n, c))
             new == Cardinality(Chances(n, c)')
             queued == Cardinality(PlacesOf(bridge.queue, n))
             then == Cardinality(PlacesOf(bridge'.queue, n))
  <2>1. old \in Nat /\ new \in Nat /\ queued \in Nat /\ then \in Nat
        /\ received[c][n] \in Nat
    BY <1>7, CountTypes
  <2>2. new = old - Left(t, n, c)
    BY <1>1, ChancesRemove
  <2>3. MayReceive(n, c) = received[c][n] + old + queued
    BY DEF MayReceive
  <2>4. then <= queued + Left(t, n, c) /\ Left(t, n, c) \in Nat
    BY <1>5, <1>7, <2>1 DEF Left
  <2> HIDE DEF old, new, then, queued
  <2>5. received[c][n] + new + then <= received[c][n] + old + queued
    BY <2>1, <2>2, <2>4, SMTT(30)
  <2>6. QED
    BY <2>3, <2>5 DEF new, then
<1>9. QED
  BY <1>2, <1>7, <1>8, ReceivedKeeps DEF ReceivedFits

LEMMA ReceivedHears ==
  ASSUME EventInv, TasksFit', BridgeHears
  PROVE  ReceivedFits'
<1> USE DEF EventInv
<1>1. bridge.queue \in Seq(Events) /\ bridge.queue # <<>>
      /\ bridge \in [up : BOOLEAN, queue : Seq(Events)]
  BY DEF BridgeHears, ReceivedFits
<1>2. /\ DOMAIN bridge.queue = 1 .. Len(bridge.queue) /\ Len(bridge.queue) \in Nat \ {0}
      /\ Tail(bridge.queue) \in Seq(Events)
      /\ DOMAIN Tail(bridge.queue) = 1 .. Len(bridge.queue) - 1
      /\ \A i \in 1 .. Len(bridge.queue) - 1 : Tail(bridge.queue)[i] = bridge.queue[i + 1]
      /\ Head(bridge.queue) \in Events
  BY <1>1, LenProperties, HeadTailProperties, EmptySeq
<1>3. PICK n, u :
        /\ n \in Events
        /\ n = Head(bridge.queue) /\ u = Task(n, "bridge")
        /\ tasks' = tasks \cup {u}
  BY <1>2 DEF BridgeHears
<1>4. u.event = n
  BY <1>3 DEF Task
<1> DEFINE rest == Tail(bridge.queue)
<1>5. \A i \in DOMAIN rest : rest[i] <= publisher.event
  BY <1>2, SMTT(30) DEF ReceivedFits
<1>6. \A m : Cardinality(PlacesOf(rest, m)) + (IF n = m THEN 1 ELSE 0)
               <= Cardinality(PlacesOf(bridge.queue, m))
  BY <1>1, <1>3, PlacesTail
<1>7. rest \in Seq(Events) /\ bridge' = [bridge EXCEPT !.queue = rest]
      /\ UNCHANGED <<publisher, received>>
  BY <1>2 DEF BridgeHears
<1> HIDE DEF rest
<1>8. bridge' \in [up : BOOLEAN, queue : Seq(Events)] /\ bridge'.queue = rest
  BY <1>1, <1>7
<1>9. ASSUME NEW c \in Connections, NEW m \in Events
      PROVE  received'[c][m] + Cardinality(Chances(m, c)')
               + Cardinality(PlacesOf(bridge'.queue, m)) <= MayReceive(m, c)
  <2> DEFINE old == Cardinality(Chances(m, c))
             new == Cardinality(Chances(m, c)')
             queued == Cardinality(PlacesOf(bridge.queue, m))
             then == Cardinality(PlacesOf(bridge'.queue, m))
  <2>1. old \in Nat /\ new \in Nat /\ queued \in Nat /\ then \in Nat
        /\ received[c][m] \in Nat
    BY <1>8, CountTypes
  <2>2. new <= old + Left(u, m, c)
    BY <1>3, ChancesAdd
  <2>3. MayReceive(m, c) = received[c][m] + old + queued
    BY DEF MayReceive
  <2>4. then + (IF n = m THEN 1 ELSE 0) <= queued
    BY <1>6, <1>8
  <2>5. Left(u, m, c) <= (IF n = m THEN 1 ELSE 0) /\ Left(u, m, c) \in Nat
    BY <1>4 DEF Left
  <2> HIDE DEF old, new, then, queued
  <2>6. received[c][m] + new + then <= received[c][m] + old + queued
    BY <2>1, <2>2, <2>4, <2>5
  <2>7. QED
    BY <1>7, <2>3, <2>6 DEF new, then
<1>10. QED
  BY <1>5, <1>7, <1>8, <1>9, ReceivedKeeps DEF ReceivedFits

LEMMA ReceivedNext ==
  ASSUME EventInv, TasksFit', PublisherFits', [EventNext]_eventVars
  PROVE  ReceivedFits'
<1> USE DEF EventInv
<1>1. ASSUME UNCHANGED <<publisher, tasks, bridge, received>> PROVE ReceivedFits'
  BY <1>1 DEF ReceivedFits, MayReceive, Chances
<1>2. CASE BridgeDrops
  <2>1. bridge' = [up |-> FALSE, queue |-> <<>>] /\ UNCHANGED <<publisher, tasks, received>>
    BY <1>2 DEF BridgeDrops
  <2>2. <<>> \in Seq(Events) /\ \A n : PlacesOf(<<>>, n) = {}
    BY EmptySeq DEF PlacesOf
  <2>3. bridge' \in [up : BOOLEAN, queue : Seq(Events)] /\ bridge'.queue = <<>>
    BY <2>1, <2>2
  <2>4. ASSUME NEW c \in Connections, NEW n \in Events
        PROVE  received'[c][n] + Cardinality(Chances(n, c)')
                 + Cardinality(PlacesOf(bridge'.queue, n)) <= MayReceive(n, c)
    <3>1. Cardinality(PlacesOf(bridge'.queue, n)) = 0
      BY <2>2, <2>3, FS_EmptySet
    <3>2. Chances(n, c)' = Chances(n, c)
      BY <2>1 DEF Chances
    <3>3. /\ Cardinality(Chances(n, c)) \in Nat /\ received[c][n] \in Nat
          /\ Cardinality(PlacesOf(bridge.queue, n)) \in Nat
      BY <2>3, CountTypes
    <3>4. QED
      BY <2>1, <3>1, <3>2, <3>3 DEF MayReceive
  <2>5. QED
    BY <2>1, <2>3, <2>4, ReceivedKeeps DEF ReceivedFits
<1>3. CASE BridgeReconnects
  <2>1. bridge' = [bridge EXCEPT !.up = TRUE] /\ UNCHANGED <<publisher, tasks, received>>
    BY <1>3 DEF BridgeReconnects
  <2>2. bridge' \in [up : BOOLEAN, queue : Seq(Events)] /\ bridge'.queue = bridge.queue
    BY <2>1 DEF ReceivedFits
  <2>3. QED
    BY <2>1, <2>2 DEF ReceivedFits, MayReceive, Chances
<1>4. ASSUME NEW t \in tasks, Broadcast(t) PROVE ReceivedFits'
  <2>1. t \in TaskType /\ TargetsFit(t)
    BY DEF TasksFit
  <2>2. CASE Snapshot(t)
    <3>1. PICK u \in TaskType :
            Step(t, u) /\ u.event = t.event /\ t.phase = "start"
      BY <2>1, <2>2, SnapshotStep
    <3>2. QED
      BY <2>2, <3>1, ReceivedStep DEF Snapshot, Chance
  <2>3. CASE Cleanup(t)
    <3>1. UNCHANGED <<bridge, received>>
      BY <2>3 DEF Cleanup
    <3>2. CASE Return(t)
      BY <3>1, <3>2, ReceivedReturn
    <3>3. CASE \E u \in TaskType :
                 /\ Step(t, u) /\ TargetsFit(u) /\ UNCHANGED publisher
                 /\ u.event = t.event /\ u.via = t.via
                 /\ t.via # "bridge" /\ t.sent = 0 /\ u.phase = "forward"
               /\ t.phase = "send"
      BY <3>1, <3>3, ReceivedStep DEF Chance
    <3>4. QED
      BY <2>1, <2>3, <3>2, <3>3, CleanupStep
  <2>4. CASE Forward(t)
    <3>1. t.phase = "forward" /\ Return(t) /\ UNCHANGED received
      BY <2>4 DEF Forward
    <3>2. PICK reachable \in BOOLEAN :
            bridge' = [bridge EXCEPT !.queue =
                         IF reachable /\ bridge.up /\ t.via # "bridge"
                         THEN Append(@, t.event) ELSE @]
      BY <2>4 DEF Forward
    <3>3. CASE reachable /\ bridge.up /\ t.via # "bridge"
      <4>1. bridge' = [bridge EXCEPT !.queue = Append(@, t.event)]
        BY <3>2, <3>3
      <4>2. \A c \in Connections : Chance(t, c)
        BY <3>1, <3>3 DEF Chance
      <4>3. QED
        BY <3>1, <4>1, <4>2, ReceivedReturn
    <3>4. CASE ~(reachable /\ bridge.up /\ t.via # "bridge")
      <4>1. bridge' = bridge
        BY <3>2, <3>4 DEF ReceivedFits
      <4>2. QED
        BY <3>1, <4>1, ReceivedReturn
    <3>5. QED
      BY <3>3, <3>4
  <2>5. QED
    BY <1>4, <2>2, <2>3, <2>4, ReceivedSend DEF Broadcast
<1>5. ASSUME NEW c \in Connections,
             \/ Connect(c) \/ ConnectRoot(c) \/ Subscribe(c)
             \/ Unsubscribe(c) \/ Leave(c) \/ Notice(c)
      PROVE  ReceivedFits'
  BY <1>1, <1>5 DEF Connect, ConnectRoot, Subscribe, Unsubscribe, Leave, Notice
<1>6. CASE Shutdown \/ UNCHANGED eventVars
  BY <1>1, <1>6 DEF Shutdown, eventVars
<1>7. QED
  BY <1>2, <1>3, <1>4, <1>5, <1>6, ReceivedPublish, ReceivedGiveUp, ReceivedHears
     DEF EventNext

---------------------------------------------------------------------------
(* Whoever stays is sent the event                                         *)

(* A step that takes from nobody who stays what he waits for.              *)
LEMMA PresentKeeps ==
  ASSUME EventInv, split' = split,
         publisher'.event = publisher.event, publisher.late \subseteq publisher'.late,
         present' \in [Events -> SUBSET Connections],
         \A n \in Events : present'[n] \subseteq present[n],
         \A n \in Events : \A c \in present'[n] :
           received[c][n] >= 1 => received'[c][n] >= 1,
         \A n \in Events : \A c \in present'[n] :
           n \notin publisher'.late /\ ~split /\ Awaits(n, c)
             => Awaits(n, c)' \/ received'[c][n] >= 1
  PROVE  PresentFits'
<1>1. ASSUME ~split, NEW n \in Events, n <= publisher.event, n \notin publisher'.late,
             NEW c \in present'[n]
      PROVE  received'[c][n] >= 1 \/ Awaits(n, c)'
  <2>1. c \in present[n] /\ n \notin publisher.late
    BY <1>1
  <2>2. received[c][n] >= 1 \/ Awaits(n, c)
    BY <1>1, <2>1 DEF EventInv, PresentFits
  <2>3. QED
    BY <1>1, <2>2
<1>2. QED
  BY <1>1 DEF PresentFits

LEMMA PresentPublish ==
  ASSUME EventInv, PublishSync
  PROVE  PresentFits'
<1> USE DEF EventInv
<1>1. PICK n, via, u :
        /\ n \in Events /\ via \in {"main", "worker"}
        /\ n = publisher.event + 1 /\ u = Task(n, via) /\ (~split => via = "main")
        /\ publisher' = [publisher EXCEPT !.event = n, !.waits = via]
        /\ tasks' = tasks \cup {u}
  <2>1. publisher.event \in 0 .. MaxEvents /\ MaxEvents \in Nat /\ split \in BOOLEAN
    BY EventAssumption DEF PublisherFits
  <2>2. publisher.event + 1 \in Events
    BY <2>1 DEF PublishSync, Events
  <2>3. QED
    BY <2>1, <2>2 DEF PublishSync
<1>2. /\ publisher'.event = n /\ publisher'.late = publisher.late
      /\ publisher.event \in Nat
  BY <1>1 DEF PublisherFits
<1>3. /\ UNCHANGED <<split, channels, sockets, received>> /\ publisher.waits = "nothing"
  BY DEF PublishSync
<1> DEFINE there == {e.conn : e \in {f \in channels : f.exp = Publishing /\ f.socket}}
                      \cap {c \in Connections : sockets[c] = "open"}
<1>4. present' = [present EXCEPT ![n] = there] /\ there \subseteq Connections
  BY <1>1, <1>2 DEF PublishSync
<1>5. \A c \in there : sockets[c] = "open" /\ Mine(c) \in channels
  <2> SUFFICES ASSUME NEW e \in channels, e.exp = Publishing, e.socket,
                      sockets[e.conn] = "open"
               PROVE  Mine(e.conn) \in channels
    OBVIOUS
  <2>1. e \in Entry
    BY DEF ChannelsFit
  <2>2. e = Mine(e.conn)
    BY <2>1 DEF Entry, Mine
  <2>3. QED
    BY <2>2
<1> HIDE DEF there
<1>6. u.event = n /\ u.via = via /\ u.phase = "start"
  BY <1>1 DEF Task
<1>7. /\ present' \in [Events -> SUBSET Connections] /\ present'[n] = there
      /\ \A m \in Events : m # n => present'[m] = present[m]
  BY <1>1, <1>4 DEF PresentFits
<1>8. ASSUME ~split, NEW c \in present'[n] PROVE Awaits(n, c)'
  BY <1>1, <1>2, <1>3, <1>5, <1>6, <1>7, <1>8 DEF Awaits, Mine
<1>9. ASSUME ~split, NEW m \in Events, m <= n, m # n, m \notin publisher.late,
             NEW c \in present'[m]
      PROVE  received'[c][m] >= 1
  <2>1. m <= publisher.event /\ c \in present[m]
    BY <1>1, <1>2, <1>7, <1>9 DEF Events
  <2>2. ~Awaits(m, c)
    <3> SUFFICES ASSUME NEW t \in tasks, m = publisher.event, t.event = m, t.via = "main"
                 PROVE  FALSE
      BY DEF Awaits
    <3>1. WaitFits(t)
      BY DEF TasksFit
    <3>2. QED
      BY <1>3, <1>9, <3>1 DEF WaitFits
  <2>3. QED
    BY <1>3, <1>9, <2>1, <2>2 DEF PresentFits
<1>10. QED
  BY <1>2, <1>3, <1>7, <1>8, <1>9 DEF PresentFits

(* The broadcasts take the promise one step further.                       *)
LEMMA PresentBroadcast ==
  ASSUME EventInv, Opens, NEW t \in tasks, Broadcast(t)
  PROVE  PresentFits'
<1> USE DEF EventInv
<1>1. t \in TaskType /\ TargetsFit(t) /\ WaitFits(t)
  BY DEF TasksFit
<1>2. UNCHANGED <<split, sockets, present>>
      /\ publisher'.event = publisher.event /\ publisher'.late = publisher.late
  <2>1. UNCHANGED <<split, sockets, present>>
    BY DEF Broadcast, Snapshot, Send, Cleanup, Forward
  <2>2. UNCHANGED publisher \/ Return(t)
    BY DEF Broadcast, Snapshot, Send, Cleanup, Forward
  <2>3. QED
    BY <2>1, <2>2 DEF Return, PublisherFits
<1>3. present' \in [Events -> SUBSET Connections]
  BY <1>2 DEF PresentFits
<1>4. received \in [Connections -> [Events -> Nat]]
  BY DEF ReceivedFits
<1>5. ASSUME UNCHANGED received,
             \A n \in Events : \A c \in present[n] :
               n \notin publisher.late /\ ~split /\ Awaits(n, c) => Awaits(n, c)'
      PROVE  PresentFits'
  BY <1>2, <1>3, <1>5, PresentKeeps
<1>6. CASE Snapshot(t)
  <2>1. PICK u \in TaskType :
           /\ Step(t, u) /\ u.event = t.event /\ u.via = t.via
           /\ t.via = "main" => u.todo = {e \in channels : e.exp = Publishing}
           /\ u.phase = IF u.todo = {} THEN "forward" ELSE "send"
    BY <1>1, <1>6, SnapshotStep
  <2>2. UNCHANGED <<channels, received>>
    BY <1>6 DEF Snapshot
  <2>3. ASSUME NEW n \in Events, NEW c \in Connections, Awaits(n, c) PROVE Awaits(n, c)'
    <3>1. PICK v \in tasks :
            /\ v.event = n /\ v.via = "main"
            /\ v.phase = "start" \/ (v.phase = "send" /\ Mine(c) \in v.todo)
      BY <2>3 DEF Awaits
    <3>2. /\ n = publisher.event /\ sockets[c] = "open" /\ Mine(c) \in channels
      BY <2>3 DEF Awaits
    <3>3. CASE v # t
      BY <1>2, <2>1, <2>2, <3>1, <3>2, <3>3 DEF Awaits, Step, Mine
    <3>4. CASE v = t
      <4>1. Mine(c) \in u.todo
        BY <2>1, <3>1, <3>2, <3>4 DEF Mine
      <4>2. u.phase = "send" /\ u \in tasks'
        BY <2>1, <4>1 DEF Step
      <4>3. QED
        BY <1>2, <2>1, <2>2, <3>1, <3>2, <3>4, <4>1, <4>2 DEF Awaits, Mine
    <3>5. QED
      BY <3>3, <3>4
  <2>4. QED
    BY <1>5, <2>2, <2>3 DEF PresentFits
<1>7. CASE Send(t)
  <2>1. PICK u \in TaskType, e \in t.todo :
          /\ Step(t, u)
          /\ u.event = t.event /\ u.via = t.via /\ t.phase = "send" /\ u.phase = "send"
          /\ u.todo = t.todo \ {e}
          /\ \/ received' = [received EXCEPT ![e.conn][t.event] = @ + 1]
             \/ /\ ~(e.socket /\ sockets[e.conn] = "open") \/ t.via = "isolated"
                /\ received' = received
    BY <1>1, <1>7, SendStep, ZenonT(30)
  <2>2. channels' = channels /\ t.event \in Events
    BY <1>1, <1>7 DEF Send, TaskType
  <2>3. \A c \in Connections : \A n \in Events :
          received[c][n] >= 1 => received'[c][n] >= 1
    BY <1>4, <2>1, <2>2
  <2>4. ASSUME NEW n \in Events, NEW c \in Connections, Awaits(n, c)
        PROVE  Awaits(n, c)' \/ received'[c][n] >= 1
    <3>1. PICK v \in tasks :
            /\ v.event = n /\ v.via = "main"
            /\ v.phase = "start" \/ (v.phase = "send" /\ Mine(c) \in v.todo)
      BY <2>4 DEF Awaits
    <3>2. /\ n = publisher.event /\ sockets[c] = "open" /\ Mine(c) \in channels
      BY <2>4 DEF Awaits
    <3>3. CASE v # t
      BY <1>2, <2>1, <2>2, <3>1, <3>2, <3>3 DEF Awaits, Step, Mine
    <3>4. CASE v = t /\ e # Mine(c)
      <4>1. Mine(c) \in u.todo /\ u \in tasks'
        BY <2>1, <3>1, <3>4 DEF Step
      <4>2. QED
        BY <1>2, <2>1, <2>2, <3>1, <3>2, <3>4, <4>1 DEF Awaits, Mine
    <3>5. CASE v = t /\ e = Mine(c)
      <4>1. e.socket /\ e.conn = c
        BY <3>5 DEF Mine
      <4>2. received' = [received EXCEPT ![c][n] = @ + 1]
        BY <2>1, <3>1, <3>2, <3>5, <4>1
      <4>3. QED
        BY <1>4, <4>2
    <3>6. QED
      BY <3>3, <3>4, <3>5
  <2>5. QED
    BY <1>2, <1>3, <2>3, <2>4, PresentKeeps DEF PresentFits
<1>8. CASE Cleanup(t) \/ Forward(t)
  <2>1. /\ UNCHANGED received /\ t.phase \in {"send", "forward"}
        /\ t.phase = "send" => t.todo = {}
    BY <1>8 DEF Cleanup, Forward
  <2>2. \A v \in tasks : v # t => v \in tasks'
    BY <1>8 DEF Cleanup, Forward, Return, Step
  <2>3. t.dead \in SUBSET Connections
    BY <1>1 DEF TaskType
  <2>4. channels' = channels \/ channels' = {e \in channels : e.conn \notin t.dead}
    BY <1>2, <1>8, <2>3, DropFits DEF Cleanup, Forward, ChannelsFit
  <2>5. ASSUME NEW n \in Events, NEW c \in Connections, Awaits(n, c),
               n \notin publisher.late
        PROVE  Awaits(n, c)'
    <3>1. PICK v \in tasks :
            /\ v.event = n /\ v.via = "main"
            /\ v.phase = "start" \/ (v.phase = "send" /\ Mine(c) \in v.todo)
      BY <2>5 DEF Awaits
    <3>2. /\ n = publisher.event /\ sockets[c] = "open" /\ Mine(c) \in channels
      BY <2>5 DEF Awaits
    <3>3. v # t
      BY <2>1, <3>1
    <3>4. t.via # "isolated"
      BY <1>1, <2>5, <3>2 DEF WaitFits, PublisherFits
    <3>5. c \notin t.dead
      BY <1>1, <3>2, <3>4 DEF TargetsFit, Cold, Mine
    <3>6. Mine(c) \in channels'
      BY <2>4, <3>2, <3>5 DEF Mine
    <3>7. QED
      BY <1>2, <2>2, <3>1, <3>2, <3>3, <3>6 DEF Awaits, Mine
  <2>6. QED
    BY <1>5, <2>1, <2>5 DEF PresentFits
<1>9. QED
  BY <1>6, <1>7, <1>8 DEF Broadcast

LEMMA PresentNext ==
  ASSUME EventInv, Opens, PublisherFits', [EventNext]_eventVars
  PROVE  PresentFits'
<1> USE DEF EventInv
<1>1. ASSUME UNCHANGED <<split, publisher, tasks, received>>,
             present' \in [Events -> SUBSET Connections],
             \A n \in Events : present'[n] \subseteq present[n],
             \A n \in Events : \A c \in present'[n] :
               /\ sockets[c] = "open" => sockets'[c] = "open"
               /\ Mine(c) \in channels => Mine(c) \in channels'
      PROVE  PresentFits'
  <2>1. ASSUME NEW n \in Events, NEW c \in present'[n], Awaits(n, c)
        PROVE  Awaits(n, c)'
    BY <1>1, <2>1 DEF Awaits, Mine
  <2>2. QED
    BY <1>1, <2>1, PresentKeeps
<1>2. ASSUME UNCHANGED <<split, publisher, tasks, received, present, channels, sockets>>
      PROVE  PresentFits'
  BY <1>1, <1>2 DEF PresentFits
<1>3. ASSUME NEW c \in Connections, Away(c), UNCHANGED <<split, publisher, tasks, received>>,
             \A d \in Connections : d # c => sockets'[d] = sockets[d],
             \A e \in channels : e.conn # c => e \in channels'
      PROVE  PresentFits'
  <2>1. /\ present' \in [Events -> SUBSET Connections]
        /\ \A n \in Events : present'[n] = present[n] \ {c}
    BY <1>3 DEF Away, PresentFits
  <2>2. \A d : Mine(d).conn = d
    BY DEF Mine
  <2>3. QED
    BY <1>1, <1>3, <2>1, <2>2 DEF PresentFits
<1>4. ASSUME NEW c \in Connections, Connect(c) \/ ConnectRoot(c) PROVE PresentFits'
  <2>1. /\ UNCHANGED <<split, publisher, tasks, received, present>>
        /\ channels \subseteq channels'
        /\ sockets' = [sockets EXCEPT ![c] = "open"]
    BY <1>4 DEF Connect, ConnectRoot
  <2>2. \A d \in Connections : sockets[d] = "open" => sockets'[d] = "open"
    BY <2>1 DEF ChannelsFit
  <2>3. QED
    BY <1>1, <2>1, <2>2 DEF PresentFits
<1>5. ASSUME NEW c \in Connections, Subscribe(c) PROVE PresentFits'
  <2>1. /\ UNCHANGED <<split, publisher, tasks, received, sockets>> /\ Away(c)
    BY <1>5 DEF Subscribe
  <2>2. QED
    BY <1>3, <1>5, <2>1, SubscribeFits
<1>6. ASSUME NEW c \in Connections, Unsubscribe(c) PROVE PresentFits'
  <2>1. /\ UNCHANGED <<split, publisher, tasks, received, sockets>> /\ Away(c)
        /\ Drop({c})
    BY <1>6 DEF Unsubscribe
  <2>2. \A e \in channels : e.conn # c => e \in channels'
    BY <2>1 DEF Drop, Without
  <2>3. QED
    BY <1>3, <2>1, <2>2
<1>7. ASSUME NEW c \in Connections, Leave(c) PROVE PresentFits'
  <2>1. /\ UNCHANGED <<split, publisher, tasks, received, channels>> /\ Away(c)
        /\ sockets' = [sockets EXCEPT ![c] = "gone"]
    BY <1>7 DEF Leave
  <2>2. \A d \in Connections : d # c => sockets'[d] = sockets[d]
    BY <2>1 DEF ChannelsFit
  <2>3. QED
    BY <1>3, <2>1, <2>2
<1>8. ASSUME NEW c \in Connections, Notice(c) PROVE PresentFits'
  <2>1. /\ UNCHANGED <<split, publisher, tasks, received, present>> /\ Drop({c})
        /\ sockets[c] = "gone" /\ sockets' = [sockets EXCEPT ![c] = "noticed"]
    BY <1>8 DEF Notice
  <2>2. \A d \in Connections : sockets[d] = "open" => sockets'[d] = "open" /\ d # c
    BY <2>1 DEF ChannelsFit
  <2>3. \A e \in channels : e.conn # c => e \in channels'
    BY <2>1 DEF Drop, Without
  <2>4. ASSUME NEW n \in Events, NEW d \in present[n], Awaits(n, d) PROVE Awaits(n, d)'
    <3>1. sockets[d] = "open" /\ Mine(d) \in channels /\ d \in Connections
      BY <2>4 DEF Awaits, PresentFits
    <3>2. sockets'[d] = "open" /\ Mine(d) \in channels'
      BY <2>2, <2>3, <3>1 DEF Mine
    <3>3. QED
      BY <2>1, <2>4, <3>2 DEF Awaits, Mine
  <2>5. QED
    BY <2>1, <2>4, PresentKeeps DEF PresentFits
<1>9. CASE Shutdown
  <2>1. /\ UNCHANGED <<split, publisher, tasks, received>>
        /\ present' = [n \in Events |-> {}]
    BY <1>9 DEF Shutdown
  <2>2. QED
    BY <1>1, <2>1
<1>10. CASE GiveUp
  <2>1. /\ publisher' = [publisher EXCEPT !.waits = "isolated", !.late = @ \cup {publisher.event}]
        /\ tasks \subseteq tasks'
        /\ UNCHANGED <<split, channels, sockets, received, present>>
    BY <1>10 DEF GiveUp
  <2>2. publisher'.event = publisher.event /\ publisher.late \subseteq publisher'.late
    BY <2>1 DEF PublisherFits
  <2>3. ASSUME NEW n \in Events, NEW c \in present[n], Awaits(n, c) PROVE Awaits(n, c)'
    BY <2>1, <2>2, <2>3 DEF Awaits, Mine
  <2>4. QED
    BY <2>1, <2>2, <2>3, PresentKeeps DEF PresentFits
<1>11. CASE BridgeHears
  <2>1. /\ tasks \subseteq tasks'
        /\ UNCHANGED <<split, publisher, channels, sockets, received, present>>
    BY <1>11 DEF BridgeHears
  <2>2. ASSUME NEW n \in Events, NEW c \in present[n], Awaits(n, c) PROVE Awaits(n, c)'
    BY <2>1, <2>2 DEF Awaits, Mine
  <2>3. QED
    BY <2>1, <2>2, PresentKeeps DEF PresentFits
<1>12. CASE BridgeDrops \/ BridgeReconnects \/ UNCHANGED eventVars
  BY <1>2, <1>12 DEF BridgeDrops, BridgeReconnects, eventVars
<1>13. QED
  BY <1>4, <1>5, <1>6, <1>7, <1>8, <1>9, <1>10, <1>11, <1>12,
     PresentPublish, PresentBroadcast DEF EventNext

LEMMA BoundsNext ==
  ASSUME EventInv, [EventNext]_eventVars
  PROVE  BoundsFit'
<1>1. /\ moves' = moves \/ (moves < MaxMoves /\ moves' = moves + 1)
      /\ faults' = faults \/ (faults < MaxFaults /\ faults' = faults + 1)
  BY DEF EventNext, Broadcast, Connect, ConnectRoot, Subscribe, Unsubscribe, Leave, Notice,
         Shutdown, PublishSync, GiveUp, Snapshot, Send, Cleanup, Forward, BridgeHears,
         BridgeDrops, BridgeReconnects, ClientMoves, eventVars
<1>2. QED
  BY <1>1, EventAssumption DEF EventInv, BoundsFit

---------------------------------------------------------------------------

LEMMA EventNextInv == EventInv /\ [EventNext]_eventVars => EventInv'
  BY ChannelsNext, TasksNext, ReceivedNext, PresentNext, BoundsNext DEF EventInv

LEMMA EventInvHolds == EventSpec => []EventInv
  BY EventInitInv, EventNextInv, PTL DEF EventSpec

(* The tables of the manager, the broadcasts and the bridge stay well      *)
(* formed (services/websocket_manager.py).                                 *)
THEOREM EventTypes == EventSpec => []EventTypeOK
<1>1. EventInv => EventTypeOK
  BY DEF EventInv, ChannelsFit, PublisherFits, TasksFit, TaskType, ReceivedFits, BoundsFit,
         EventTypeOK
<1>2. QED
  BY <1>1, EventInvHolds, PTL

(* Whoever joins, switches, leaves or dies during a broadcast, a           *)
(* connection is in the channel it is said to own and in no other          *)
(* (services/websocket_manager.py).                                        *)
THEOREM TablesAgree == EventSpec => []ChannelsMatchOwners
<1>1. EventInv => ChannelsMatchOwners
  <2> SUFFICES ASSUME EventInv, NEW c \in Connections, owner[c] # Nowhere
               PROVE  Cardinality({e \in channels : e.conn = c}) = 1
    BY DEF EventInv, ChannelsFit, ChannelsMatchOwners
  <2>1. PICK e \in channels : e.conn = c
    BY DEF EventInv, ChannelsFit
  <2>2. {f \in channels : f.conn = c} = {e}
    BY <2>1 DEF EventInv, ChannelsFit
  <2>3. QED
    BY <2>2, FS_Singleton
<1>2. QED
  BY <1>1, EventInvHolds, PTL

(* An event reaches a connection once, or twice when the publisher gave up *)
(* waiting, and whoever stayed got it, whatever other connections failed   *)
(* (services/event_publisher.py, services/websocket_manager.py).           *)
THEOREM DeliveredOnce == EventSpec => []DeliveredOnceToAll
<1>1. EventInv => DeliveredOnceToAll
  <2> SUFFICES ASSUME EventInv, NEW n \in 1 .. publisher.event
               PROVE  /\ \A c \in Connections :
                           received[c][n] <= (IF n \in publisher.late THEN 2 ELSE 1)
                      /\ /\ publisher.waits = "nothing" /\ \A t \in tasks : t.event # n
                         /\ ~split /\ n \notin publisher.late
                         => \A c \in present[n] : received[c][n] = 1
    BY DEF DeliveredOnceToAll
  <2> USE DEF EventInv
  <2>1. n \in Events /\ n <= publisher.event
    BY EventAssumption DEF PublisherFits, Events
  <2>2. ASSUME NEW c \in Connections
        PROVE  /\ received[c][n] \in Nat
               /\ received[c][n] <= (IF n \in publisher.late THEN 2 ELSE 1)
    <3> DEFINE chances == Cardinality(Chances(n, c))
               queued == Cardinality(PlacesOf(bridge.queue, n))
    <3>1. chances \in Nat /\ queued \in Nat /\ received[c][n] \in Nat
      BY <2>1, ChancesFinite, PlacesFinite DEF ReceivedFits
    <3>2. received[c][n] + chances + queued <= (IF n \in publisher.late THEN 2 ELSE 1)
      BY <2>1 DEF ReceivedFits, MayReceive
    <3> HIDE DEF chances, queued
    <3>3. QED
      BY <3>1, <3>2
  <2>3. ASSUME \A t \in tasks : t.event # n, ~split, n \notin publisher.late,
               NEW c \in present[n]
        PROVE  received[c][n] = 1
    <3>1. c \in Connections
      BY <2>1 DEF PresentFits
    <3>2. received[c][n] >= 1
      BY <2>1, <2>3 DEF PresentFits, Awaits
    <3>3. QED
      BY <2>2, <2>3, <3>1, <3>2
  <2>4. QED
    BY <2>2, <2>3
<1>2. QED
  BY <1>1, EventInvHolds, PTL

=============================================================================
