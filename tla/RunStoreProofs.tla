--------------------------- MODULE RunStoreProofs ---------------------------
(***************************************************************************)
(* The run store follows one run, for any runs and any number of requests  *)
(* under way, acts of the user and failures.                               *)
(***************************************************************************)
EXTENDS RunStore, TLAPS

StoreSpec == StoreInit /\ [][StoreNext]_storeVars

---------------------------------------------------------------------------
(* The inductive invariant                                                 *)

Rows == Statuses \cup {"absent"}
Attempt == [run : Runs, retried : BOOLEAN]
Socket == [run : Runs, retried : BOOLEAN, opened : BOOLEAN]

Store ==
  [shown : [Runs -> Rows], active : Runs \cup {NoRun}, poller : Runs \cup {NoRun},
   opening : SUBSET Attempt, socket : Socket \cup {NoSocket},
   retries : SUBSET Runs, cutOff : BOOLEAN]

(* Only a run that is shown is active.                                     *)
ActiveIsShown(u) == u.active # NoRun => u.shown[u.active] # "absent"

Follows(u) ==
  /\ u.poller \in {NoRun, u.active}
  /\ u.active # NoRun => u.socket.run \in {NoRun, u.active}

(* What each kind of request may be answered with.                         *)
AnswersTo(kind) ==
  CASE kind = "list" -> [Runs -> Rows]
    [] kind \in {"poll", "event"} -> Rows
    [] kind = "start" -> {"absent", "refused", "active"}
    [] kind = "cancel" -> {"absent", "refused", "over"}

RequestType ==
  [kind : {"list", "poll", "event", "start", "cancel"}, run : Runs \cup {NoRun},
   answer : SUBSET (Rows \cup {"refused"} \cup [Runs -> Rows])]

RequestFits(q) ==
  /\ q \in RequestType
  /\ q.kind # "list" => q.run \in Runs
  /\ q.answer = {} \/ \E a \in AnswersTo(q.kind) : q.answer = {a}

StoreFits(u) == u \in Store /\ ActiveIsShown(u) /\ Follows(u)

StoreInv ==
  /\ rows \in [Runs -> Rows]
  /\ StoreFits(ui)
  /\ \A q \in requests : RequestFits(q)
  /\ acts \in 0 .. MaxActs /\ failures \in 0 .. MaxFailures

---------------------------------------------------------------------------
(* The helpers of the store                                                *)

LEMMA CloseWsFacts ==
  ASSUME NEW u \in Store
  PROVE  /\ CloseWs(u) \in Store
         /\ CloseWs(u).socket = NoSocket
         /\ CloseWs(u).shown = u.shown /\ CloseWs(u).active = u.active
         /\ CloseWs(u).poller = u.poller
BY RunsAssumption DEF CloseWs, Store, Socket, NoSocket, Attempt

LEMMA StopPollingFacts ==
  ASSUME NEW u \in Store
  PROVE  /\ StopPolling(u) \in Store
         /\ StopPolling(u).poller = NoRun
         /\ StopPolling(u).shown = u.shown /\ StopPolling(u).active = u.active
         /\ StopPolling(u).socket = u.socket
BY DEF StopPolling, Store

LEMMA StartPollingFacts ==
  ASSUME NEW u \in Store, NEW r \in Runs
  PROVE  /\ StartPolling(u, r) \in Store
         /\ StartPolling(u, r).poller = r
         /\ StartPolling(u, r).shown = u.shown /\ StartPolling(u, r).active = u.active
         /\ StartPolling(u, r).socket = u.socket
BY DEF StartPolling, Store

LEMMA ConnectWsFacts ==
  ASSUME NEW u \in Store, NEW r \in Runs, NEW retried \in BOOLEAN
  PROVE  /\ ConnectWs(u, r, retried) \in Store
         /\ ConnectWs(u, r, retried).socket = NoSocket
         /\ ConnectWs(u, r, retried).shown = u.shown
         /\ ConnectWs(u, r, retried).active = u.active
         /\ ConnectWs(u, r, retried).poller = u.poller
<1> DEFINE v == CloseWs(u)
<1>1. v \in Store /\ v.socket = NoSocket /\ v.shown = u.shown /\ v.active = u.active
      /\ v.poller = u.poller
  BY CloseWsFacts
<1> HIDE DEF v
<1>2. /\ [v EXCEPT !.opening = {[run |-> r, retried |-> retried]}] \in Store
      /\ [v EXCEPT !.opening = {[run |-> r, retried |-> retried]}].socket = v.socket
      /\ [v EXCEPT !.opening = {[run |-> r, retried |-> retried]}].shown = v.shown
      /\ [v EXCEPT !.opening = {[run |-> r, retried |-> retried]}].active = v.active
      /\ [v EXCEPT !.opening = {[run |-> r, retried |-> retried]}].poller = v.poller
  BY <1>1 DEF Store, Attempt
<1>3. QED
  BY <1>1, <1>2 DEF ConnectWs, v

LEMMA ApplyRawFacts ==
  ASSUME NEW u \in Store, NEW r \in Runs, NEW status \in Rows
  PROVE  /\ ApplyRaw(u, r, status) \in Store
         /\ ApplyRaw(u, r, status).shown = [u.shown EXCEPT ![r] = status]
         /\ ApplyRaw(u, r, status).active = u.active
         /\ ApplyRaw(u, r, status).poller = u.poller
         /\ ApplyRaw(u, r, status).socket = u.socket
BY DEF ApplyRaw, Store

(* The poller and the socket are stopped whatever run they are for.        *)
LEMMA StoppedFollows ==
  ASSUME NEW u \in Store
  PROVE  LET v == CloseWs(StopPolling(u))
         IN /\ v \in Store /\ Follows(v)
            /\ v.shown = u.shown /\ v.active = u.active
            /\ v.poller = NoRun /\ v.socket = NoSocket
BY StopPollingFacts, CloseWsFacts DEF Follows, NoSocket

LEMMA CutOffKeeps ==
  ASSUME NEW u, StoreFits(u), NEW b \in BOOLEAN
  PROVE  StoreFits([u EXCEPT !.cutOff = b])
BY DEF StoreFits, Store, ActiveIsShown, Follows

(* The effect makes the active run the one that is followed, when it       *)
(* changed; what hands it the store must not break it otherwise.           *)
LEMMA EffectFits ==
  ASSUME NEW u \in Store, ActiveIsShown(u), Follows(u) \/ u.active # ui.active
  PROVE  StoreFits(Effect(ui, u))
<1>1. CASE ui.active = u.active /\ ShownStatus(ui) = ShownStatus(u)
  BY <1>1 DEF Effect, StoreFits
<1>2. CASE ~(ui.active = u.active /\ ShownStatus(ui) = ShownStatus(u))
           /\ ShownStatus(u) = "active"
  <2>1. u.active \in Runs
    BY <1>2 DEF ShownStatus, Store
  <2> DEFINE v == ConnectWs(u, u.active, FALSE)
             w == StartPolling(v, u.active)
  <2>2. v \in Store /\ v.socket = NoSocket /\ v.shown = u.shown /\ v.active = u.active
    BY <2>1, ConnectWsFacts
  <2>3. w \in Store /\ w.poller = u.active /\ w.shown = u.shown /\ w.active = u.active
        /\ w.socket = NoSocket
    BY <2>1, <2>2, StartPollingFacts
  <2>4. Effect(ui, u) = w
    BY <1>2 DEF Effect
  <2> HIDE DEF w
  <2>5. QED
    BY <2>3, <2>4 DEF StoreFits, ActiveIsShown, Follows, NoSocket
<1>3. CASE ~(ui.active = u.active /\ ShownStatus(ui) = ShownStatus(u))
           /\ ShownStatus(u) = "absent"
  <2>1. u.active = NoRun
    BY <1>3 DEF ShownStatus, ActiveIsShown
  <2>2. Effect(ui, u) = StopPolling(u)
    BY <1>3 DEF Effect
  <2>3. QED
    BY <2>1, <2>2, StopPollingFacts DEF StoreFits, ActiveIsShown, Follows
<1>4. CASE ~(ui.active = u.active /\ ShownStatus(ui) = ShownStatus(u))
           /\ ShownStatus(u) \notin {"active", "absent"}
  <2>1. Effect(ui, u) = CloseWs(StopPolling(u))
    BY <1>4 DEF Effect
  <2>2. QED
    BY <2>1, StoppedFollows DEF StoreFits, ActiveIsShown
<1>5. QED
  BY <1>1, <1>2, <1>3, <1>4

---------------------------------------------------------------------------

LEMMA StoreInitInv == StoreInit => StoreInv
<1> SUFFICES ASSUME StoreInit PROVE StoreInv
  OBVIOUS
<1> DEFINE first == CHOOSE r \in Runs : TRUE
           empty == [shown |-> rows, active |-> NoRun, poller |-> NoRun, opening |-> {},
                     socket |-> NoSocket, retries |-> {}, cutOff |-> FALSE]
           u == [empty EXCEPT !.active = first]
<1>1. first \in Runs /\ first # NoRun
  BY RunsAssumption
<1>2. rows \in [Runs -> Statuses] /\ rows \in [Runs -> Rows]
  BY DEF StoreInit, Rows
<1>3. \A r \in Runs : rows[r] \in {"active", "over"}
  BY <1>2 DEF Statuses
<1>4. ui = Effect(empty, u)
  BY DEF StoreInit
<1>5. ShownStatus(empty) = "absent" /\ empty.active # u.active
  BY <1>1 DEF ShownStatus
<1> HIDE DEF first
<1>6. empty \in Store /\ empty.shown = rows
  BY <1>2 DEF Store
<1> HIDE DEF empty
<1>7. u \in Store /\ u.active = first /\ u.shown = rows
  BY <1>1, <1>6 DEF Store
<1>8. ShownStatus(u) = rows[first]
  BY <1>1, <1>7 DEF ShownStatus
<1> HIDE DEF u
<1>9. StoreFits(ui)
  <2>1. CASE rows[first] = "active"
    <3> DEFINE v == ConnectWs(u, first, FALSE)
               w == StartPolling(v, first)
    <3>1. v \in Store /\ v.socket = NoSocket /\ v.shown = rows /\ v.active = first
      BY <1>1, <1>7, <1>8, ConnectWsFacts
    <3>2. w \in Store /\ w.poller = first /\ w.shown = rows /\ w.active = first
          /\ w.socket = NoSocket
      BY <1>1, <3>1, StartPollingFacts
    <3>3. ui = w
      BY <1>4, <1>5, <1>7, <1>8, <2>1 DEF Effect
    <3> HIDE DEF w
    <3>4. QED
      BY <1>1, <1>3, <3>2, <3>3 DEF StoreFits, ActiveIsShown, Follows, NoSocket
  <2>2. CASE rows[first] = "over"
    <3>1. ui = CloseWs(StopPolling(u))
      BY <1>4, <1>5, <1>8, <2>2 DEF Effect
    <3>2. QED
      BY <1>7, <1>8, <2>2, <3>1, StoppedFollows DEF StoreFits, ActiveIsShown
  <2>3. QED
    BY <1>1, <1>3, <2>1, <2>2
<1>10. QED
  BY <1>2, <1>9, RunsAssumption DEF StoreInit, StoreInv

(* Asking adds a request that fits.                                        *)
LEMMA AskFits ==
  ASSUME StoreInv, NEW kind \in {"poll", "event", "start", "cancel"}, NEW r \in Runs,
         Ask(kind, r)
  PROVE  \A q \in requests' : RequestFits(q)
BY DEF StoreInv, Ask, Asked, RequestFits, RequestType

(* So does following up an answer with a list.                             *)
LEMMA RefreshFits ==
  ASSUME StoreInv, NEW q, ThenRefresh(q) \/ Done(q)
  PROVE  \A p \in requests' : RequestFits(p)
BY DEF StoreInv, ThenRefresh, Done, Asked, RequestFits, RequestType

LEMMA WhatFits ==
  ASSUME StoreInv, NEW q, NEW kind, Answered(q, kind)
  PROVE  /\ q.kind = kind /\ What(q) \in AnswersTo(kind)
         /\ kind # "list" => q.run \in Runs
<1>1. RequestFits(q) /\ q.kind = kind /\ q.answer # {}
  BY DEF StoreInv, Answered
<1>2. PICK a \in AnswersTo(kind) : q.answer = {a}
  BY <1>1 DEF RequestFits
<1>3. What(q) = a
  BY <1>2 DEF What
<1>4. QED
  BY <1>1, <1>2, <1>3 DEF RequestFits

LEMMA StoreActsInv ==
  ASSUME StoreInv,
         \/ \E r \in Runs :
              OpenExperiment(r) \/ Run(r) \/ Stop(r) \/ RunEnds(r) \/ Vanishes(r)
         \/ Logout
  PROVE  StoreInv'
<1> USE DEF StoreInv
<1>1. ASSUME NEW r \in Runs, OpenExperiment(r) PROVE StoreInv'
  <2> DEFINE u == [ui EXCEPT !.active = r]
  <2>1. ui' = Effect(ui, u) /\ ui.shown[r] # "absent" /\ ui.active # r
    BY <1>1 DEF OpenExperiment, Renders
  <2>2. u \in Store /\ u.active = r /\ u.shown = ui.shown
    BY DEF StoreFits, Store
  <2> HIDE DEF u
  <2>3. StoreFits(ui')
    BY <2>1, <2>2, EffectFits DEF ActiveIsShown
  <2>4. QED
    BY <1>1, <2>3, RunsAssumption DEF OpenExperiment, Acts
<1>2. ASSUME NEW r \in Runs, Run(r) \/ Stop(r) PROVE StoreInv'
  <2>1. \A q \in requests' : RequestFits(q)
    BY <1>2, AskFits DEF Run, Stop
  <2>2. QED
    BY <1>2, <2>1, RunsAssumption DEF Run, Stop, Acts
<1>3. ASSUME NEW r \in Runs, RunEnds(r) \/ Vanishes(r) PROVE StoreInv'
  BY <1>3, RunsAssumption DEF RunEnds, Vanishes, Acts, Rows, Statuses
<1>4. ASSUME Logout PROVE StoreInv'
  <2> DEFINE none == [ui EXCEPT !.shown = [r \in Runs |-> "absent"], !.active = NoRun]
             u == CloseWs(StopPolling(none))
  <2>1. none \in Store /\ none.active = NoRun
    BY DEF StoreFits, Store, Rows
  <2> HIDE DEF none
  <2>2. u \in Store /\ Follows(u) /\ u.active = NoRun
    BY <2>1, StoppedFollows
  <2>3. ui' = Effect(ui, u)
    BY <1>4 DEF Logout, Renders, none
  <2>4. StoreFits(ui')
    BY <2>2, <2>3, EffectFits DEF ActiveIsShown
  <2>5. QED
    BY <1>4, <2>4, RunsAssumption DEF Logout, Acts
<1>5. QED
  BY <1>1, <1>2, <1>3, <1>4

LEMMA StoreServerInv ==
  ASSUME StoreInv, NEW q \in requests, Answer(q) \/ Fails(q)
  PROVE  StoreInv'
<1> USE DEF StoreInv
<1>1. CASE Answer(q)
  <2>1. RequestFits(q) /\ q.answer = {}
    BY <1>1 DEF Answer
  <2>2. PICK a \in AnswersTo(q.kind) :
          requests' = (requests \ {q}) \cup {[q EXCEPT !.answer = {a}]}
    <3>1. q.kind # "list" => q.run \in Runs /\ rows[q.run] \in Rows
      BY <2>1 DEF RequestFits
    <3>2. q.kind \in {"list", "poll", "event", "start", "cancel"}
      BY <2>1 DEF RequestFits, RequestType
    <3>3. QED
      BY <1>1, <3>1, <3>2 DEF Answer, AnswersTo, Rows
  <2>3. RequestFits([q EXCEPT !.answer = {a}])
    <3>1. a \in Rows \cup {"refused"} \cup [Runs -> Rows]
      BY <2>1, <2>2 DEF RequestFits, RequestType, AnswersTo, Rows, Statuses
    <3>2. QED
      BY <2>1, <2>2, <3>1 DEF RequestFits, RequestType
  <2>4. rows' \in [Runs -> Rows]
    BY <1>1 DEF Answer, Rows, Statuses
  <2>5. QED
    BY <1>1, <2>2, <2>3, <2>4 DEF Answer
<1>2. CASE Fails(q)
  <2>1. StoreFits(ui')
    <3>1. (ui.cutOff \/ q.kind = "list") \in BOOLEAN
      OBVIOUS
    <3>2. ui' = [ui EXCEPT !.cutOff = ui.cutOff \/ q.kind = "list"]
      BY <1>2 DEF Fails
    <3>3. QED
      BY <3>1, <3>2, CutOffKeeps
  <2>2. QED
    BY <1>2, <2>1, RunsAssumption DEF Fails
<1>3. QED
  BY <1>1, <1>2

(* A row is shown, and the run it is of is still the one that is followed. *)
LEMMA AppliedFits ==
  ASSUME StoreInv, NEW r \in Runs, NEW status \in Statuses
  PROVE  LET u == ApplyRaw(ui, r, status)
         IN u \in Store /\ ActiveIsShown(u) /\ Follows(u)
<1> DEFINE u == ApplyRaw(ui, r, status)
<1>1. status \in Rows /\ status # "absent" /\ ui \in Store
  BY DEF Rows, Statuses, StoreInv, StoreFits
<1>2. /\ u \in Store /\ u.shown = [ui.shown EXCEPT ![r] = status]
      /\ u.active = ui.active /\ u.poller = ui.poller /\ u.socket = ui.socket
  BY <1>1, ApplyRawFacts
<1> HIDE DEF u
<1>3. ui.shown \in [Runs -> Rows] /\ ui.active \in Runs \cup {NoRun}
  BY <1>1 DEF Store
<1>4. ActiveIsShown(u)
  BY <1>1, <1>2, <1>3 DEF StoreInv, StoreFits, ActiveIsShown
<1>5. Follows(u)
  BY <1>2 DEF StoreInv, StoreFits, Follows
<1>6. QED
  BY <1>2, <1>4, <1>5 DEF u

(* What an answer does that ends the poller and the socket.                *)
LEMMA OverFits ==
  ASSUME StoreInv, NEW r \in Runs, NEW status \in Statuses, NEW b \in BOOLEAN
  PROVE  StoreFits(Effect(ui, [CloseWs(StopPolling(ApplyRaw(ui, r, status)))
                                 EXCEPT !.cutOff = b]))
<1> DEFINE u == ApplyRaw(ui, r, status)
           v == CloseWs(StopPolling(u))
           w == [v EXCEPT !.cutOff = b]
<1>1. u \in Store /\ ActiveIsShown(u)
  BY AppliedFits
<1> HIDE DEF u
<1>2. v \in Store /\ Follows(v) /\ v.shown = u.shown /\ v.active = u.active
  BY <1>1, StoppedFollows
<1> HIDE DEF v
<1>3. StoreFits(v)
  BY <1>1, <1>2 DEF StoreFits, ActiveIsShown
<1>4. StoreFits(w)
  BY <1>3, CutOffKeeps
<1> HIDE DEF w
<1>5. StoreFits(Effect(ui, w))
  BY <1>4, EffectFits DEF StoreFits
<1>6. QED
  BY <1>5 DEF w, v, u

LEMMA ForgetFits ==
  ASSUME StoreInv, NEW r \in Runs
  PROVE  StoreFits(Forget(ui, r))
<1> DEFINE v == CloseWs(StopPolling(ui))
<1>1. v \in Store /\ v.shown = ui.shown /\ v.active = ui.active
      /\ v.poller = NoRun /\ v.socket = NoSocket
  BY StoppedFollows DEF StoreInv, StoreFits
<1>2. Forget(ui, r) = [v EXCEPT !.shown[r] = "absent",
                         !.active = IF @ = r THEN NoRun ELSE @]
  BY DEF Forget
<1>3. ActiveIsShown(v)
  BY <1>1 DEF StoreInv, StoreFits, ActiveIsShown
<1> HIDE DEF v
<1> DEFINE shown == [v.shown EXCEPT ![r] = "absent"]
           active == IF v.active = r THEN NoRun ELSE v.active
           w == [v EXCEPT !.shown = shown, !.active = active]
<1>4. v.shown \in [Runs -> Rows] /\ v.active \in Runs \cup {NoRun}
  BY <1>1 DEF Store
<1>5. shown \in [Runs -> Rows] /\ active \in Runs \cup {NoRun}
      /\ (active # NoRun => shown[active] # "absent")
  BY <1>3, <1>4 DEF Rows, ActiveIsShown
<1>6. Forget(ui, r) = w
  BY <1>2
<1> HIDE DEF shown, active
<1>7. w \in Store /\ w.shown = shown /\ w.active = active /\ w.poller = NoRun
      /\ w.socket = NoSocket
  BY <1>1, <1>5 DEF Store
<1> HIDE DEF w
<1>8. QED
  BY <1>5, <1>6, <1>7 DEF StoreFits, ActiveIsShown, Follows, NoSocket

LEMMA StoreArrivesInv ==
  ASSUME StoreInv, NEW q \in requests, Arrives(q)
  PROVE  StoreInv'
<1> SUFFICES StoreFits(ui') /\ (ThenRefresh(q) \/ Done(q))
             /\ UNCHANGED <<rows, acts, failures>>
  BY RefreshFits DEF StoreInv
<1> USE DEF StoreInv
<1>1. CASE ListArrives(q)
  <2> DEFINE shown == What(q)
             present == {r \in Runs : shown[r] # "absent"}
  <2>1. shown \in [Runs -> Rows]
    BY <1>1, WhatFits DEF ListArrives, AnswersTo
  <2>2. PICK first \in IF present = {} THEN {NoRun} ELSE present :
          ui' = Effect(ui, [ui EXCEPT !.shown = shown,
                              !.active = IF @ \in present THEN @ ELSE first])
    BY <1>1 DEF ListArrives, Renders
  <2> DEFINE u == [ui EXCEPT !.shown = shown,
                     !.active = IF ui.active \in present THEN ui.active ELSE first]
  <2>3. ui' = Effect(ui, u)
    BY <2>2
  <2>4. first \in present \cup {NoRun} /\ present \subseteq Runs
    BY <2>2
  <2>5. u.active \in present \cup {NoRun} /\ u.shown = shown /\ u \in Store
    BY <2>1, <2>4 DEF StoreFits, Store
  <2>6. u.active = ui.active => Follows(u)
    BY DEF StoreFits, Follows, Store
  <2>7. ActiveIsShown(u)
    BY <2>5 DEF ActiveIsShown
  <2> HIDE DEF u
  <2>8. StoreFits(ui')
    BY <2>3, <2>5, <2>6, <2>7, EffectFits
  <2>9. QED
    BY <1>1, <2>8 DEF ListArrives
<1>2. CASE PollArrives(q)
  <2>1. q.run \in Runs /\ What(q) \in Rows
    BY <1>2, WhatFits DEF PollArrives, AnswersTo
  <2>2. CASE What(q) = "absent" /\ q.run = ui.active
    <3>1. StoreFits(Forget(ui, q.run))
      BY <2>1, ForgetFits
    <3>2. ui' = Effect(ui, Forget(ui, q.run)) /\ ThenRefresh(q)
      BY <1>2, <2>2 DEF PollArrives, Renders
    <3>3. StoreFits(ui')
      BY <3>1, <3>2, EffectFits DEF StoreFits
    <3>4. QED
      BY <1>2, <3>2, <3>3 DEF PollArrives
  <2>3. CASE What(q) = "absent" /\ q.run # ui.active
    BY <1>2, <2>3 DEF PollArrives
  <2>4. CASE What(q) = "active"
    <3>1. ui' = Effect(ui, ApplyRaw(ui, q.run, What(q))) /\ Done(q)
      BY <1>2, <2>4 DEF PollArrives, Renders
    <3>2. StoreFits(ui')
      BY <2>1, <2>4, <3>1, AppliedFits, EffectFits DEF Statuses
    <3>3. QED
      BY <1>2, <3>1, <3>2 DEF PollArrives
  <2>5. CASE What(q) \notin {"absent", "active"}
    <3> DEFINE u == CloseWs(StopPolling(ApplyRaw(ui, q.run, What(q))))
               b == u.cutOff \/ CutsOff(q.run)
    <3>1. ui' = Effect(ui, [u EXCEPT !.cutOff = b]) /\ ThenRefresh(q)
      BY <1>2, <2>5 DEF PollArrives, Renders
    <3>2. b \in BOOLEAN
      OBVIOUS
    <3>3. What(q) \in Statuses
      BY <2>1, <2>5 DEF Rows
    <3> HIDE DEF b
    <3>4. StoreFits(ui')
      BY <2>1, <3>1, <3>2, <3>3, OverFits
    <3>5. QED
      BY <1>2, <3>1, <3>4 DEF PollArrives
  <2>6. QED
    BY <2>2, <2>3, <2>4, <2>5
<1>3. CASE EventRowArrives(q)
  <2>1. q.run \in Runs /\ What(q) \in Rows
    BY <1>3, WhatFits DEF EventRowArrives, AnswersTo
  <2>2. CASE What(q) = "absent"
    BY <1>3, <2>2 DEF EventRowArrives
  <2>3. CASE What(q) # "absent"
    <3>1. ui' = Effect(ui, ApplyRaw(ui, q.run, What(q))) /\ What(q) \in Statuses
      BY <1>3, <2>1, <2>3 DEF EventRowArrives, Renders, Rows
    <3>2. StoreFits(ui')
      BY <2>1, <3>1, AppliedFits, EffectFits
    <3>3. QED
      BY <1>3, <3>2 DEF EventRowArrives
  <2>4. QED
    BY <2>2, <2>3
<1>4. CASE StartArrives(q)
  <2>1. q.run \in Runs /\ What(q) \in {"absent", "refused", "active"}
    BY <1>4, WhatFits DEF StartArrives, AnswersTo
  <2>2. CASE What(q) = "refused"
    BY <1>4, <2>2 DEF StartArrives
  <2>3. CASE What(q) = "absent"
    <3> DEFINE u == Forget(ui, q.run)
               b == u.cutOff \/ CutsOff(q.run)
               v == [u EXCEPT !.cutOff = b]
    <3>1. ui' = Effect(ui, v) /\ ThenRefresh(q)
      BY <1>4, <2>3 DEF StartArrives, Renders
    <3>2. b \in BOOLEAN
      OBVIOUS
    <3>3. StoreFits(u)
      BY <2>1, ForgetFits
    <3> HIDE DEF b, u
    <3>4. StoreFits(v)
      BY <3>2, <3>3, CutOffKeeps
    <3> HIDE DEF v
    <3>5. StoreFits(ui')
      BY <3>1, <3>4, EffectFits DEF StoreFits
    <3>6. QED
      BY <1>4, <3>1, <3>5 DEF StartArrives
  <2>4. CASE What(q) = "active"
    <3> DEFINE a == ApplyRaw(ui, q.run, What(q))
               u == [a EXCEPT !.active = q.run]
               v == ConnectWs(u, q.run, FALSE)
               w == StartPolling(v, q.run)
    <3>1. ui' = Effect(ui, w) /\ ThenRefresh(q)
      BY <1>4, <2>4 DEF StartArrives, Renders
    <3>2. a \in Store /\ a.shown[q.run] = "active"
      <4>1. "active" \in Rows /\ ui \in Store /\ ui.shown \in [Runs -> Rows]
        BY DEF Rows, Statuses, StoreFits, Store
      <4>2. a \in Store /\ a.shown = [ui.shown EXCEPT ![q.run] = What(q)]
        BY <2>1, <2>4, <4>1, ApplyRawFacts
      <4> HIDE DEF a
      <4>3. QED
        BY <2>1, <2>4, <4>1, <4>2
    <3> HIDE DEF a
    <3>3. u \in Store /\ u.active = q.run /\ u.shown[q.run] = "active"
      BY <2>1, <3>2 DEF Store
    <3> HIDE DEF u
    <3>4. v \in Store /\ v.active = q.run /\ v.shown = u.shown /\ v.socket = NoSocket
      BY <2>1, <3>3, ConnectWsFacts
    <3> HIDE DEF v
    <3>5. w \in Store /\ w.active = q.run /\ w.shown = u.shown /\ w.socket = NoSocket
          /\ w.poller = q.run
      BY <2>1, <3>4, StartPollingFacts
    <3> HIDE DEF w
    <3>6. StoreFits(ui')
      BY <3>1, <3>3, <3>5, EffectFits DEF ActiveIsShown, Follows, NoSocket
    <3>7. QED
      BY <1>4, <3>1, <3>6 DEF StartArrives
  <2>5. QED
    BY <2>1, <2>2, <2>3, <2>4
<1>5. CASE CancelArrives(q)
  <2>1. q.run \in Runs /\ What(q) \in {"absent", "refused", "over"}
    BY <1>5, WhatFits DEF CancelArrives, AnswersTo
  <2>2. CASE What(q) \in {"refused", "absent"}
    BY <1>5, <2>2 DEF CancelArrives
  <2>3. CASE What(q) = "over"
    <3> DEFINE u == CloseWs(StopPolling(ApplyRaw(ui, q.run, What(q))))
               b == u.cutOff \/ CutsOff(q.run)
    <3>1. ui' = Effect(ui, [u EXCEPT !.cutOff = b]) /\ ThenRefresh(q)
      BY <1>5, <2>3 DEF CancelArrives, Renders
    <3>2. b \in BOOLEAN
      OBVIOUS
    <3> HIDE DEF b
    <3>3. StoreFits(ui')
      BY <2>1, <2>3, <3>1, <3>2, OverFits DEF Statuses
    <3>4. QED
      BY <1>5, <3>1, <3>3 DEF CancelArrives
  <2>4. QED
    BY <2>1, <2>2, <2>3
<1>6. QED
  BY <1>1, <1>2, <1>3, <1>4, <1>5 DEF Arrives

LEMMA StoreTimersInv ==
  ASSUME StoreInv,
         \/ PollTick \/ SocketOpens \/ SocketCloses \/ EventArrives
         \/ \E r \in Runs : RetryFires(r)
         \/ \E o \in ui.opening : TokenArrives(o) \/ TokenFails(o)
  PROVE  StoreInv'
<1> USE DEF StoreInv
<1>1. CASE PollTick
  <2>1. ui.poller \in Runs
    BY <1>1 DEF PollTick, StoreFits, Store
  <2>2. \A q \in requests' : RequestFits(q)
    BY <1>1, <2>1, AskFits DEF PollTick
  <2>3. QED
    BY <1>1, <2>2 DEF PollTick
<1>2. CASE SocketOpens
  <2>1. ui.socket \in Socket
    BY <1>2 DEF SocketOpens, StoreFits, Store
  <2>2. StoreFits(ui')
    BY <1>2, <2>1 DEF SocketOpens, StoreFits, Store, Socket, ActiveIsShown, Follows
  <2>3. QED
    BY <1>2, <2>2 DEF SocketOpens
<1>3. CASE SocketCloses
  <2> DEFINE v == CloseWs(ui)
  <2>1. v \in Store /\ v.socket = NoSocket /\ v.active = ui.active /\ v.shown = ui.shown
        /\ v.poller = ui.poller
    BY CloseWsFacts DEF StoreFits
  <2>2. ui' = [v EXCEPT !.opening = ui.opening]
    BY <1>3 DEF SocketCloses
  <2> HIDE DEF v
  <2>3. StoreFits(ui')
    BY <2>1, <2>2 DEF StoreFits, Store, ActiveIsShown, Follows, NoSocket
  <2>4. QED
    BY <1>3, <2>3, RunsAssumption DEF SocketCloses
<1>4. CASE EventArrives
  <2>1. ui.socket.run \in Runs
    BY <1>4 DEF EventArrives, StoreFits, Store, Socket
  <2>2. \A q \in requests' : RequestFits(q)
    BY <1>4, <2>1, AskFits DEF EventArrives
  <2>3. QED
    BY <1>4, <2>2 DEF EventArrives
<1>5. ASSUME NEW r \in Runs, RetryFires(r) PROVE StoreInv'
  <2> DEFINE u == [ui EXCEPT !.retries = @ \ {r}]
             v == ConnectWs(u, r, TRUE)
  <2>1. StoreFits(u) /\ u.active = ui.active
    BY DEF StoreFits, Store, ActiveIsShown, Follows
  <2>2. ui' = IF ui.active = r THEN v ELSE u
    BY <1>5 DEF RetryFires
  <2> HIDE DEF u
  <2>3. v \in Store /\ v.socket = NoSocket /\ v.shown = u.shown /\ v.active = u.active
        /\ v.poller = u.poller
    BY <2>1, ConnectWsFacts DEF StoreFits
  <2> HIDE DEF v
  <2>4. StoreFits(ui')
    BY <2>1, <2>2, <2>3 DEF StoreFits, ActiveIsShown, Follows, NoSocket
  <2>5. QED
    BY <1>5, <2>4 DEF RetryFires
<1>6. ASSUME NEW o \in ui.opening, TokenArrives(o) \/ TokenFails(o) PROVE StoreInv'
  <2>1. o \in Attempt
    BY DEF StoreFits, Store
  <2>2. StoreFits(ui')
    <3>1. CASE TokenArrives(o)
      <4> DEFINE s == IF o.run = ui.active
                      THEN [run |-> o.run, retried |-> o.retried, opened |-> FALSE]
                      ELSE ui.socket
      <4>1. ui' = [ui EXCEPT !.opening = {}, !.socket = s]
        BY <3>1 DEF TokenArrives
      <4>2. s \in Socket \cup {NoSocket}
        BY <2>1 DEF StoreFits, Store, Socket, Attempt
      <4>3. ui.active # NoRun => s.run \in {NoRun, ui.active}
        BY DEF StoreFits, Follows
      <4> HIDE DEF s
      <4>4. QED
        BY <4>1, <4>2, <4>3 DEF StoreFits, Store, ActiveIsShown, Follows
    <3>2. CASE TokenFails(o)
      BY <3>2 DEF TokenFails, StoreFits, Store, ActiveIsShown, Follows
    <3>3. QED
      BY <1>6, <3>1, <3>2
  <2>3. /\ failures' = failures \/ (failures < MaxFailures /\ failures' = failures + 1)
        /\ UNCHANGED <<rows, requests, acts>>
    <3>1. TokenArrives(o) => UNCHANGED <<rows, requests, acts, failures>>
      BY DEF TokenArrives
    <3>2. TokenFails(o) => /\ failures < MaxFailures /\ failures' = failures + 1
                           /\ UNCHANGED <<rows, requests, acts>>
      BY DEF TokenFails
    <3>3. QED
      BY <1>6, <3>1, <3>2
  <2>4. QED
    BY <2>2, <2>3, RunsAssumption
<1>7. QED
  BY <1>1, <1>2, <1>3, <1>4, <1>5, <1>6

LEMMA StoreNextInv == StoreInv /\ [StoreNext]_storeVars => StoreInv'
<1> SUFFICES ASSUME StoreInv, [StoreNext]_storeVars PROVE StoreInv'
  OBVIOUS
<1>1. CASE UNCHANGED storeVars
  BY <1>1 DEF StoreInv, storeVars
<1>2. CASE StoreNext
  BY <1>2, StoreActsInv, StoreServerInv, StoreArrivesInv, StoreTimersInv DEF StoreNext
<1>3. QED
  BY <1>1, <1>2

LEMMA StoreInvHolds == StoreSpec => []StoreInv
  BY StoreInitInv, StoreNextInv, PTL DEF StoreSpec

(* The store's tables stay well formed, whatever arrives when              *)
(* (frontend/src/store/store.tsx).                                         *)
THEOREM StoreTypes == StoreSpec => []StoreTypeOK
<1>1. StoreInv => StoreTypeOK
  BY DEF StoreInv, StoreFits, Store, StoreTypeOK, Rows, Attempt, Socket, NoSocket
<1>2. QED
  BY <1>1, StoreInvHolds, PTL

(* The run that is polled and the one that is streamed are the one that is *)
(* shown, however late a token, a timer or an answer comes (store.tsx:701).*)
THEOREM OneRunFollowed == StoreSpec => []OneRunIsFollowed
<1>1. StoreInv => OneRunIsFollowed
  BY DEF StoreInv, StoreFits, Follows, OneRunIsFollowed
<1>2. QED
  BY <1>1, StoreInvHolds, PTL

=============================================================================
