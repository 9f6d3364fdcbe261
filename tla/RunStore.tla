------------------------------ MODULE RunStore ------------------------------
(***************************************************************************)
(* The run store of the browser (frontend/src/store/store.tsx): which run  *)
(* is shown, the poller, the WebSocket with its generations, and requests  *)
(* whose answers arrive in any order.  Rows change on the server           *)
(* meanwhile.  An effect of React runs with the step that changed what it  *)
(* depends on.                                                             *)
(***************************************************************************)
EXTENDS Naturals, FiniteSets

CONSTANTS
  Runs,         \* the runs of the user
  MaxRequests,  \* bound: requests other than polls under way at a time
  MaxActs,      \* bound: what the user does
  MaxFailures   \* bound: requests that fail

VARIABLES
  rows,      \* what the server has
  ui,        \* what the store holds
  requests,  \* requests under way
  acts, failures

storeVars == <<rows, ui, requests, acts, failures>>

(* QUEUED, RUNNING and RETRYING are "active"; whether a run in another     *)
(* status may be started or cancelled is the server's matter.              *)
Statuses == {"active", "over"}

NoRun == "none"

ASSUME RunsAssumption ==
  /\ Runs # {} /\ NoRun \notin Runs
  /\ {MaxActs, MaxFailures} \subseteq Nat

NoSocket == [run |-> NoRun]

(* A request; answer is empty until the server answers: with the status of *)
(* the row, with all of them, or refused.                                  *)
Asked(kind, run) == [kind |-> kind, run |-> run, answer |-> {}]

---------------------------------------------------------------------------
(* The store's helpers, as functions of what it holds                      *)

ShownStatus(u) == IF u.active = NoRun THEN "absent" ELSE u.shown[u.active]

(* closeWs: the token a socket waits for will come too late, its           *)
(* generation is over.  A socket that is closed before it opened is tried  *)
(* once more by its onclose, while its run is the active one.              *)
CloseWs(u) ==
  [u EXCEPT !.socket = NoSocket,
            !.opening = {},
            !.retries = IF /\ u.socket # NoSocket /\ u.socket.run = u.active
                           /\ ~u.socket.opened /\ ~u.socket.retried
                        THEN @ \cup {u.active} ELSE @]

ConnectWs(u, run, retried) ==
  [CloseWs(u) EXCEPT !.opening = {[run |-> run, retried |-> retried]}]

StartPolling(u, run) == [u EXCEPT !.poller = run]
StopPolling(u) == [u EXCEPT !.poller = NoRun]

ApplyRaw(u, run, status) == [u EXCEPT !.shown[run] = status]

(* A mutant of Effect: it depends on the status only.                      *)
EffectOnStatus(before, u) ==
  IF ShownStatus(before) = ShownStatus(u) THEN u
  ELSE IF ShownStatus(u) = "active"
       THEN StartPolling(ConnectWs(u, u.active, FALSE), u.active)
       ELSE IF ShownStatus(u) = "absent" THEN StopPolling(u)
            ELSE CloseWs(StopPolling(u))

(* The effect on the active run and its status.                            *)
Effect(before, u) ==
  IF before.active = u.active /\ ShownStatus(before) = ShownStatus(u) THEN u
  ELSE IF ShownStatus(u) = "active"
       THEN StartPolling(ConnectWs(u, u.active, FALSE), u.active)
       ELSE IF ShownStatus(u) = "absent" THEN StopPolling(u)
            ELSE CloseWs(StopPolling(u))

Renders(u) == ui' = Effect(ui, u)

(* What the handlers of a vanished run do.                                 *)
Forget(u, run) ==
  [CloseWs(StopPolling(u)) EXCEPT
     !.shown[run] = "absent", !.active = IF @ = run THEN NoRun ELSE @]

(* The page has loaded: the first run of the list is active.               *)
StoreInit ==
  /\ rows \in [Runs -> Statuses]
  /\ ui = LET empty == [shown |-> rows, active |-> NoRun, poller |-> NoRun,
                        opening |-> {}, socket |-> NoSocket, retries |-> {},
                        cutOff |-> FALSE]
          IN Effect(empty, [empty EXCEPT !.active = CHOOSE r \in Runs : TRUE])
  /\ requests = {}
  /\ acts = 0 /\ failures = 0

---------------------------------------------------------------------------
(* The user                                                                *)

Acts == acts < MaxActs /\ acts' = acts + 1

Ask(kind, run) ==
  /\ IF kind = "poll" THEN \A q \in requests : ~(q.kind = kind /\ q.run = run)
     ELSE Cardinality({q \in requests : q.kind # "poll"}) < MaxRequests
  /\ requests' = requests \cup {Asked(kind, run)}

OpenExperiment(r) ==
  /\ ui.shown[r] # "absent" /\ ui.active # r
  /\ Acts
  /\ Renders([ui EXCEPT !.active = r])
  /\ UNCHANGED <<rows, requests, failures>>

Run(r) ==
  /\ ui.shown[r] = "over"
  /\ Acts
  /\ Ask("start", r)
  /\ UNCHANGED <<rows, ui, failures>>

Stop(r) ==
  /\ ui.shown[r] = "active"
  /\ Acts
  /\ Ask("cancel", r)
  /\ UNCHANGED <<rows, ui, failures>>

Logout ==
  /\ ui.active # NoRun
  /\ Acts
  /\ Renders(CloseWs(StopPolling(
       [ui EXCEPT !.shown = [r \in Runs |-> "absent"], !.active = NoRun])))
  /\ UNCHANGED <<rows, requests, failures>>

---------------------------------------------------------------------------
(* The server                                                              *)

RunEnds(r) ==
  /\ rows[r] = "active"
  /\ rows' = [rows EXCEPT ![r] = "over"]
  /\ UNCHANGED <<ui, requests, acts, failures>>

Vanishes(r) ==
  /\ rows[r] # "absent"
  /\ Acts
  /\ rows' = [rows EXCEPT ![r] = "absent"]
  /\ UNCHANGED <<ui, requests, failures>>

(* The server answers in its own time: with the row as it is then.  It may *)
(* refuse to start or to cancel the run in the status it is in.            *)
Answer(q) ==
  /\ q \in requests /\ q.answer = {}
  /\ LET Answers(a) == requests' = (requests \ {q}) \cup {[q EXCEPT !.answer = {a}]}
     IN \/ q.kind = "list" /\ Answers(rows) /\ UNCHANGED rows
        \/ q.kind # "list" /\ rows[q.run] = "absent" /\ Answers("absent") /\ UNCHANGED rows
        \/ q.kind \in {"poll", "event"} /\ rows[q.run] # "absent"
           /\ Answers(rows[q.run]) /\ UNCHANGED rows
        \/ q.kind \in {"start", "cancel"} /\ Answers("refused") /\ UNCHANGED rows
        \/ /\ q.kind = "start" /\ rows[q.run] = "over"
           /\ Answers("active") /\ rows' = [rows EXCEPT ![q.run] = "active"]
        \/ /\ q.kind = "cancel" /\ rows[q.run] # "absent"
           /\ Answers("over") /\ rows' = [rows EXCEPT ![q.run] = "over"]
  /\ UNCHANGED <<ui, acts, failures>>

(* A request that fails changes nothing; a list that fails is reported.    *)
Fails(q) ==
  /\ failures < MaxFailures
  /\ failures' = failures + 1
  /\ requests' = requests \ {q}
  /\ ui' = [ui EXCEPT !.cutOff = @ \/ q.kind = "list"]
  /\ UNCHANGED <<rows, acts>>

---------------------------------------------------------------------------
(* What the store does with an answer                                      *)

Answered(q, kind) == q \in requests /\ q.kind = kind /\ q.answer # {}

What(q) == CHOOSE a \in q.answer : TRUE

Done(q) == requests' = requests \ {q}
ThenRefresh(q) == requests' = (requests \ {q}) \cup {Asked("list", NoRun)}

(* Whether stopping the poller now stops that of another run.              *)
CutsOff(run) == ui.poller \notin {NoRun, run}

(* refreshExperiments: the list replaces what is shown, and the first of   *)
(* it becomes active when the active one is not in it.                     *)
ListArrives(q) ==
  /\ Answered(q, "list")
  /\ LET shown == What(q)
         present == {r \in Runs : shown[r] # "absent"}
     IN \E first \in IF present = {} THEN {NoRun} ELSE present :
          Renders([ui EXCEPT !.shown = shown,
                     !.active = IF @ \in present THEN @ ELSE first])
  /\ Done(q)
  /\ UNCHANGED <<rows, acts, failures>>

(* A mutant of PollArrives: the poller stops on any answer.                *)
PollArrivesOnce(q) ==
  /\ Answered(q, "poll")
  /\ Renders(StopPolling(ApplyRaw(ui, q.run, What(q))))
  /\ Done(q)
  /\ UNCHANGED <<rows, acts, failures>>

(* An answer for a run that is over stops the poller and the socket,       *)
(* whichever run these are for by now; a run that is gone is dropped, if   *)
(* it is the active one.                                                   *)
PollArrives(q) ==
  /\ Answered(q, "poll")
  /\ CASE What(q) = "absent" ->
               IF q.run = ui.active
               THEN Renders(Forget(ui, q.run)) /\ ThenRefresh(q)
               ELSE UNCHANGED ui /\ Done(q)
          [] What(q) = "active" -> Renders(ApplyRaw(ui, q.run, What(q))) /\ Done(q)
          [] OTHER ->
               /\ Renders([CloseWs(StopPolling(ApplyRaw(ui, q.run, What(q))))
                             EXCEPT !.cutOff = @ \/ CutsOff(q.run)])
               /\ ThenRefresh(q)
  /\ UNCHANGED <<rows, acts, failures>>

(* The row fetched because of an event is shown, nothing else.             *)
EventRowArrives(q) ==
  /\ Answered(q, "event")
  /\ IF What(q) = "absent" THEN UNCHANGED ui
        ELSE Renders(ApplyRaw(ui, q.run, What(q)))
  /\ Done(q)
  /\ UNCHANGED <<rows, acts, failures>>

(* A run that was started becomes the active one, with its own socket and  *)
(* poller whatever the effect does.                                        *)
StartArrives(q) ==
  /\ Answered(q, "start")
  /\ CASE What(q) = "refused" -> UNCHANGED ui /\ Done(q)
          [] What(q) = "absent" ->
               /\ Renders([Forget(ui, q.run) EXCEPT !.cutOff = @ \/ CutsOff(q.run)])
               /\ ThenRefresh(q)
          [] OTHER ->
               LET u == [ApplyRaw(ui, q.run, What(q)) EXCEPT !.active = q.run]
               IN /\ Renders(StartPolling(ConnectWs(u, q.run, FALSE), q.run))
                  /\ ThenRefresh(q)
  /\ UNCHANGED <<rows, acts, failures>>

CancelArrives(q) ==
  /\ Answered(q, "cancel")
  /\ IF What(q) \in {"refused", "absent"}
        THEN UNCHANGED ui /\ Done(q)
        ELSE /\ Renders([CloseWs(StopPolling(ApplyRaw(ui, q.run, What(q))))
                           EXCEPT !.cutOff = @ \/ CutsOff(q.run)])
             /\ ThenRefresh(q)
  /\ UNCHANGED <<rows, acts, failures>>

---------------------------------------------------------------------------
(* The timers and the socket                                               *)

PollTick ==
  /\ ui.poller # NoRun
  /\ Ask("poll", ui.poller)
  /\ UNCHANGED <<rows, ui, acts, failures>>

(* The token arrives, and the socket is opened.                            *)
TokenArrives(o) ==
  /\ ui' = [ui EXCEPT !.opening = {},
              !.socket = IF o.run = ui.active
                         THEN [run |-> o.run, retried |-> o.retried, opened |-> FALSE]
                         ELSE @]
  /\ UNCHANGED <<rows, requests, acts, failures>>

TokenFails(o) ==
  /\ failures < MaxFailures
  /\ failures' = failures + 1
  /\ ui' = [ui EXCEPT !.opening = {}]
  /\ UNCHANGED <<rows, requests, acts>>

SocketOpens ==
  /\ ui.socket # NoSocket /\ ~ui.socket.opened
  /\ ui' = [ui EXCEPT !.socket.opened = TRUE]
  /\ UNCHANGED <<rows, requests, acts, failures>>

(* The server or the network closes it.                                    *)
SocketCloses ==
  /\ ui.socket # NoSocket /\ failures < MaxFailures
  /\ failures' = failures + 1
  /\ ui' = LET closed == CloseWs(ui)
           IN [closed EXCEPT !.opening = ui.opening]
  /\ UNCHANGED <<rows, requests, acts>>

RetryFires(r) ==
  /\ r \in ui.retries
  /\ LET u == [ui EXCEPT !.retries = @ \ {r}]
     IN ui' = IF ui.active = r THEN ConnectWs(u, r, TRUE) ELSE u
  /\ UNCHANGED <<rows, requests, acts, failures>>

(* The event that a run is over: its row is fetched.                       *)
EventArrives ==
  /\ ui.socket # NoSocket /\ ui.socket.opened
  /\ LET r == ui.socket.run
     IN rows[r] = "over" /\ ui.shown[r] = "active" /\ Ask("event", r)
  /\ UNCHANGED <<rows, ui, acts, failures>>

Arrives(q) ==
  \/ ListArrives(q) \/ PollArrives(q) \/ EventRowArrives(q)
  \/ StartArrives(q) \/ CancelArrives(q)

StoreNext ==
  \/ \E r \in Runs :
       OpenExperiment(r) \/ Run(r) \/ Stop(r) \/ RunEnds(r) \/ Vanishes(r) \/ RetryFires(r)
  \/ Logout \/ PollTick \/ SocketOpens \/ SocketCloses \/ EventArrives
  \/ \E q \in requests : Answer(q) \/ Fails(q) \/ Arrives(q)
  \/ \E o \in ui.opening : TokenArrives(o) \/ TokenFails(o)

(* The server answers what it is asked, the answer arrives, and the        *)
(* interval fires.                                                         *)
StoreFairness ==
  LET Handled(kind, run) ==
        \E q \in requests : q.kind = kind /\ q.run = run /\ (Answer(q) \/ Arrives(q))
  IN /\ WF_storeVars(PollTick)
     /\ \A run \in Runs : WF_storeVars(Handled("poll", run))
     /\ WF_storeVars(Handled("list", NoRun))

---------------------------------------------------------------------------

StoreTypeOK ==
  /\ rows \in [Runs -> Statuses \cup {"absent"}]
  /\ ui.shown \in [Runs -> Statuses \cup {"absent"}]
  /\ {ui.active, ui.poller, ui.socket.run} \subseteq Runs \cup {NoRun}
  /\ \A o \in ui.opening : o.run \in Runs
  /\ acts \in 0 .. MaxActs /\ failures \in 0 .. MaxFailures

(* The run that is polled and the one that is streamed are the one that is *)
(* shown, however late a token, a timer or an answer comes (the comment at *)
(* store.tsx:701, "otherwise the UI shows one experiment while another is  *)
(* polled").                                                               *)
OneRunIsFollowed ==
  /\ ui.poller \in {NoRun, ui.active}
  /\ ui.active # NoRun => ui.socket.run \in {NoRun, ui.active}

(* "Polling remains the fallback": whatever events are lost and in         *)
(* whatever order answers arrive, a run that is over is not shown as       *)
(* running for ever, unless an answer about another run stopped the poller *)
(* or the list could not be read (store.tsx).                              *)
Stuck ==
  /\ ui.active # NoRun /\ ~ui.cutOff
  /\ ui.shown[ui.active] = "active" /\ rows[ui.active] # "active"

NeverStuckRunning == Stuck ~> ~Stuck

=============================================================================
