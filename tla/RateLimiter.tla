----------------------------- MODULE RateLimiter -----------------------------
(***************************************************************************)
(* The in-memory rate limiter of the API (backend/app/core/ratelimit.py),  *)
(* for one client key, in half-second ticks: a minute of MinuteTicks and   *)
(* an hour of HourTicks.                                                   *)
(***************************************************************************)
EXTENDS Naturals, FiniteSets

CONSTANTS
  MinuteTicks, HourTicks,
  MinuteLimit,  \* requests_per_minute + burst_allowance
  HourLimit,    \* requests_per_hour
  MaxTicks      \* bound: ticks the clock makes

ASSUME RateAssumption ==
  /\ {MinuteTicks, HourTicks, MinuteLimit, HourLimit} \subseteq Nat \ {0}
  /\ MaxTicks \in Nat

VARIABLES
  now,     \* time.time()
  entry,   \* the key's record in _memory_store
  grants,  \* history: the requests let through, as [at, nth at that time]
  told     \* history: for each window, the last refusal and its Retry-After

limiterVars == <<now, entry, grants, told>>

Windows == {"minute", "hour"}

TicksOf == [w \in Windows |-> IF w = "minute" THEN MinuteTicks ELSE HourTicks]
LimitOf == [w \in Windows |-> IF w = "minute" THEN MinuteLimit ELSE HourLimit]

(* The clock reads far more than an hour; an empty record starts at 0.     *)
RateInit ==
  /\ now = HourTicks + MinuteTicks
  /\ entry = [start |-> [w \in Windows |-> 0], count |-> [w \in Windows |-> 0]]
  /\ grants = {}
  /\ told = [w \in Windows |-> {}]

(* Time passes, as much as may until the next request.                     *)
Tick ==
  /\ now' \in now + 1 .. HourTicks + MinuteTicks + MaxTicks
  /\ UNCHANGED <<entry, grants, told>>

---------------------------------------------------------------------------

(* A window whose time is over starts anew with the request that finds it. *)
Rolled(e) ==
  LET over(w) == now - e.start[w] >= TicksOf[w]
  IN [start |-> [w \in Windows |-> IF over(w) THEN now ELSE e.start[w]],
      count |-> [w \in Windows |-> IF over(w) THEN 0 ELSE e.count[w]]]

(* A mutant of RetryAfter: the second that int() drops is not added.       *)
RetryAfterTruncated(w, start) == (TicksOf[w] - (now - start)) \div 2

(* The header, in seconds: int(window - elapsed) + 1.                      *)
RetryAfter(w, start) == (TicksOf[w] - (now - start)) \div 2 + 1

Full(e, w) == e.count[w] >= LimitOf[w]

Refuse(e, w) ==
  /\ Full(e, w)
  /\ entry' = e
  /\ told' = [told EXCEPT ![w] =
                {[at |-> now, until |-> now + 2 * RetryAfter(w, e.start[w])]}]
  /\ UNCHANGED grants

(* A mutant of Grant: the hour is not counted.                             *)
GrantByMinute(e) ==
  /\ ~Full(e, "minute") /\ ~Full(e, "hour")
  /\ entry' = [e EXCEPT !.count["minute"] = @ + 1]
  /\ grants' = {g \in grants : now - g.at < HourTicks}
                 \cup {[at |-> now, nth |-> Cardinality({g \in grants : g.at = now})]}
  /\ UNCHANGED told

Grant(e) ==
  /\ ~Full(e, "minute") /\ ~Full(e, "hour")
  /\ entry' = [e EXCEPT !.count = [w \in Windows |-> @[w] + 1]]
  /\ grants' = {g \in grants : now - g.at < HourTicks}
                 \cup {[at |-> now, nth |-> Cardinality({g \in grants : g.at = now})]}
  /\ UNCHANGED told

(* _check_memory: the minute is looked at before the hour, and a window is *)
(* restarted even when the other one refuses.                              *)
Request ==
  /\ LET e == Rolled(entry)
     IN \/ Refuse(e, "minute")
        \/ ~Full(e, "minute") /\ Refuse(e, "hour")
        \/ Grant(e)
  /\ UNCHANGED now

RateNext == Tick \/ Request

RateSpec == RateInit /\ [][RateNext]_limiterVars

---------------------------------------------------------------------------

RateTypeOK ==
  /\ now \in Nat
  /\ entry \in [start : [Windows -> Nat], count : [Windows -> Nat]]
  /\ \A w \in Windows : \A t \in told[w] : t.at \in Nat /\ t.until \in Nat

(* A client that is refused and comes back when Retry-After is over does   *)
(* not find the same window still full: that window is over by then, or    *)
(* has been restarted since (ratelimit.py, _check_memory).                 *)
RetryAfterIsEnough ==
  \A w \in Windows : \A t \in told[w] :
    now >= t.until => \/ now - entry.start[w] >= TicksOf[w]
                      \/ entry.start[w] > t.at

(* Whenever the requests come, no stretch of time as long as a window lets *)
(* through more than two windows' worth: the windows are fixed, so one and *)
(* a half can meet at a boundary, but the limit of the hour holds while    *)
(* minutes are restarted and the other way round (ratelimit.py).           *)
GrantsAreBounded ==
  \A w \in Windows :
    Cardinality({g \in grants : now - g.at < TicksOf[w]}) <= 2 * LimitOf[w]

=============================================================================
