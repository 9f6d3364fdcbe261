---------------------------- MODULE ProcessProofs ----------------------------
(***************************************************************************)
(* What one process keeps for all who call it: the rate limiter's records, *)
(* the engine of the database and the clients of the language models, for  *)
(* any limits, callers and loops.                                          *)
(***************************************************************************)
EXTENDS RateLimiter, EngineRegistry, LLMClient, FiniteSetTheorems, TLAPS

---------------------------------------------------------------------------
(* The rate limiter                                                        *)

(* A refusal was told no less than what is left of the window it is about, *)
(* unless that window has been restarted since.                            *)
Covered(t, w, e) ==
  \/ e.start[w] > t.at
  \/ t.at - e.start[w] < TicksOf[w] /\ t.until >= e.start[w] + TicksOf[w]

RateInv ==
  /\ RateTypeOK
  /\ told \in [Windows -> SUBSET [at : Nat, until : Nat]]
  /\ \A w \in Windows : entry.start[w] <= now
  /\ \A w \in Windows : \A t \in told[w] : t.at <= now /\ Covered(t, w, entry)

LEMMA WindowTicks ==
  \A w \in Windows : TicksOf[w] \in Nat /\ TicksOf[w] >= 1
BY RateAssumption DEF TicksOf, Windows

LEMMA RateInitInv == RateInit => RateInv
BY RateAssumption DEF RateInit, RateInv, RateTypeOK, Windows

(* Rolling the windows keeps every refusal covered, and leaves no window   *)
(* that is over.                                                           *)
LEMMA RolledCovers ==
  ASSUME RateInv
  PROVE  LET e == Rolled(entry)
         IN /\ e \in [start : [Windows -> Nat], count : [Windows -> Nat]]
            /\ \A w \in Windows : e.start[w] <= now /\ now - e.start[w] < TicksOf[w]
            /\ \A w \in Windows : \A t \in told[w] : Covered(t, w, e)
<1> DEFINE e == Rolled(entry)
           over(w) == now - entry.start[w] >= TicksOf[w]
<1>1. e.start = [w \in Windows |-> IF over(w) THEN now ELSE entry.start[w]]
      /\ e.count = [w \in Windows |-> IF over(w) THEN 0 ELSE entry.count[w]]
      /\ e = [start |-> e.start, count |-> e.count]
  BY DEF Rolled
<1>2. now \in Nat /\ entry.start \in [Windows -> Nat] /\ entry.count \in [Windows -> Nat]
  BY DEF RateInv, RateTypeOK
<1>3. e \in [start : [Windows -> Nat], count : [Windows -> Nat]]
  <2>1. e.start \in [Windows -> Nat] /\ e.count \in [Windows -> Nat]
    BY <1>1, <1>2
  <2> HIDE DEF e
  <2>2. QED
    BY <1>1, <2>1
<1>4. ASSUME NEW w \in Windows
      PROVE  e.start[w] <= now /\ now - e.start[w] < TicksOf[w]
  <2>1. e.start[w] = IF over(w) THEN now ELSE entry.start[w]
    BY <1>1
  <2>2. entry.start[w] \in Nat /\ entry.start[w] <= now
    BY <1>2 DEF RateInv
  <2> HIDE DEF e
  <2>3. QED
    BY <1>2, <2>1, <2>2, WindowTicks
<1>5. ASSUME NEW w \in Windows, NEW t \in told[w]
      PROVE  Covered(t, w, e)
  <2>1. e.start[w] = IF over(w) THEN now ELSE entry.start[w]
    BY <1>1
  <2>2. entry.start[w] \in Nat /\ t.at \in Nat /\ t.until \in Nat
    BY <1>2 DEF RateInv
  <2>3. t.at <= now /\ Covered(t, w, entry)
    BY DEF RateInv
  <2> HIDE DEF e
  <2>4. QED
    BY <1>2, <2>1, <2>2, <2>3, WindowTicks DEF Covered
<1>6. QED
  BY <1>3, <1>4, <1>5

(* What a refusal is told, in ticks, reaches to the end of its window.     *)
LEMMA RefusalIsToldEnough ==
  ASSUME NEW w \in Windows, NEW start \in Nat, now \in Nat,
         start <= now, now - start < TicksOf[w]
  PROVE  /\ now + 2 * RetryAfter(w, start) \in Nat
         /\ now + 2 * RetryAfter(w, start) >= start + TicksOf[w]
<1> DEFINE left == TicksOf[w] - (now - start)
<1>1. left \in Nat
  BY WindowTicks
<1> HIDE DEF left
<1>2. left \div 2 \in Nat /\ 2 * (left \div 2 + 1) >= left
  BY <1>1
<1>3. RetryAfter(w, start) = left \div 2 + 1
  BY DEF RetryAfter, left
<1>4. QED
  BY <1>2, <1>3, WindowTicks DEF left

(* Every step keeps the refusals covered.                                  *)
LEMMA RateStepInv == RateInv /\ [RateNext]_limiterVars => RateInv'
<1> SUFFICES ASSUME RateInv, [RateNext]_limiterVars
             PROVE  RateInv'
  OBVIOUS
<1>1. CASE Tick
  BY <1>1 DEF Tick, RateInv, RateTypeOK, Covered
<1>2. CASE Request
  <2> DEFINE e == Rolled(entry)
  <2>1. /\ e \in [start : [Windows -> Nat], count : [Windows -> Nat]]
        /\ \A w \in Windows : e.start[w] <= now /\ now - e.start[w] < TicksOf[w]
        /\ \A w \in Windows : \A t \in told[w] : Covered(t, w, e)
    BY RolledCovers
  <2>2. now' = now /\ now \in Nat
    BY <1>2 DEF Request, RateInv, RateTypeOK
  <2>3. \/ \E w \in Windows : Refuse(e, w)
        \/ Grant(e)
    BY <1>2 DEF Request, Windows
  <2> HIDE DEF e
  <2>4. ASSUME NEW w \in Windows, Refuse(e, w)
        PROVE  RateInv'
    <3> DEFINE t == [at |-> now, until |-> now + 2 * RetryAfter(w, e.start[w])]
    <3>1. e.start[w] \in Nat
      BY <2>1
    <3>2. t.until \in Nat /\ t.until >= e.start[w] + TicksOf[w]
      BY <2>1, <2>2, <3>1, RefusalIsToldEnough
    <3>3. entry' = e /\ told' = [told EXCEPT ![w] = {t}]
      BY <2>4 DEF Refuse
    <3>4. t \in [at : Nat, until : Nat] /\ Covered(t, w, e) /\ t.at <= now
      BY <2>1, <2>2, <3>2 DEF Covered
    <3> HIDE DEF t
    <3>5. told' \in [Windows -> SUBSET [at : Nat, until : Nat]]
      BY <3>3, <3>4 DEF RateInv
    <3>6. \A v \in Windows : \A u \in told'[v] : u.at <= now /\ Covered(u, v, e)
      BY <2>1, <3>3, <3>4 DEF RateInv
    <3>7. \A v \in Windows : \A u \in told'[v] : Covered(u, v, entry)'
      BY <3>3, <3>6 DEF Covered
    <3>8. RateTypeOK'
      BY <2>1, <2>2, <3>3, <3>5 DEF RateTypeOK
    <3>9. QED
      BY <2>1, <2>2, <3>3, <3>5, <3>6, <3>7, <3>8 DEF RateInv
  <2>5. CASE Grant(e)
    <3> DEFINE counts == [w \in Windows |-> e.count[w] + 1]
    <3>1. entry' = [e EXCEPT !.count = counts] /\ told' = told
      BY <2>5 DEF Grant
    <3>2. counts \in [Windows -> Nat]
      BY <2>1
    <3> HIDE DEF counts
    <3>3. /\ entry' \in [start : [Windows -> Nat], count : [Windows -> Nat]]
          /\ entry'.start = e.start
      BY <2>1, <3>1, <3>2
    <3>4. \A v \in Windows : \A u \in told[v] : Covered(u, v, entry)'
      BY <2>1, <3>1, <3>3 DEF Covered
    <3>5. RateTypeOK'
      BY <2>2, <3>1, <3>3 DEF RateTypeOK, RateInv
    <3>6. QED
      BY <2>1, <2>2, <3>1, <3>3, <3>4, <3>5 DEF RateInv
  <2>6. QED
    BY <2>3, <2>4, <2>5
<1>3. CASE UNCHANGED limiterVars
  BY <1>3 DEF limiterVars, RateInv, RateTypeOK, Covered
<1>4. QED
  BY <1>1, <1>2, <1>3 DEF RateNext

(* The covered refusals are what the property says.                        *)
LEMMA RateInvIsEnough == RateInv => RetryAfterIsEnough
<1> SUFFICES ASSUME RateInv, NEW w \in Windows, NEW t \in told[w], now >= t.until
             PROVE  now - entry.start[w] >= TicksOf[w] \/ entry.start[w] > t.at
  BY DEF RetryAfterIsEnough
<1>1. /\ entry.start[w] \in Nat /\ now \in Nat /\ t.at \in Nat /\ t.until \in Nat
      /\ Covered(t, w, entry)
  BY DEF RateInv, RateTypeOK
<1>2. QED
  BY <1>1, WindowTicks DEF Covered

(* The records of the limiter keep their types (ratelimit.py).             *)
THEOREM RateTypes == RateSpec => []RateTypeOK
<1>1. RateInv => RateTypeOK
  BY DEF RateInv
<1>2. QED
  BY <1>1, RateInitInv, RateStepInv, PTL DEF RateSpec

(* A client that waits for Retry-After does not find the window that       *)
(* refused it still running, for every length of the windows and whatever  *)
(* the other requests of its key do (ratelimit.py, _check_memory).         *)
THEOREM RetryAfterHolds == RateSpec => []RetryAfterIsEnough
<1>1. QED
  BY RateInitInv, RateStepInv, RateInvIsEnough, PTL DEF RateSpec

(* A window counts what it let through since it started.  What was let    *)
(* through before that, as far as it may still be in a stretch of the      *)
(* window's length, was counted by the window before, and no grant lies    *)
(* beyond the end of the window that counted it.                           *)
Since(w, e) == {g \in grants : g.at >= e.start[w]}
Before(w, e) == {g \in grants : g.at < e.start[w] /\ e.start[w] - g.at < TicksOf[w]}

CountedIn(w, e) ==
  /\ e.count[w] <= LimitOf[w]
  /\ Cardinality(Since(w, e)) <= e.count[w]
  /\ Cardinality(Before(w, e)) <= LimitOf[w]
  /\ \A g \in grants : g.at < e.start[w] + TicksOf[w]

GrantInv ==
  /\ RateInv
  /\ IsFiniteSet(grants)
  /\ \A g \in grants : g.at \in Nat /\ g.at <= now
  /\ \A w \in Windows : CountedIn(w, entry)

LEMMA WindowLimits == \A w \in Windows : LimitOf[w] \in Nat /\ LimitOf[w] >= 1
BY RateAssumption DEF LimitOf, Windows

LEMMA GrantInitInv == RateInit => GrantInv
<1> SUFFICES ASSUME RateInit PROVE GrantInv
  OBVIOUS
<1>1. grants = {} /\ entry.count = [w \in Windows |-> 0]
  BY DEF RateInit
<1>2. \A w \in Windows : Since(w, entry) = {} /\ Before(w, entry) = {}
  BY <1>1 DEF Since, Before
<1>3. \A w \in Windows : CountedIn(w, entry)
  BY <1>1, <1>2, FS_EmptySet, WindowLimits DEF CountedIn
<1>4. QED
  BY <1>1, <1>3, RateInitInv, FS_EmptySet DEF GrantInv

(* A window that is rolled over hands what it counted to Before.           *)
LEMMA RolledCounts ==
  ASSUME GrantInv, NEW w \in Windows
  PROVE  CountedIn(w, Rolled(entry))
<1> DEFINE e == Rolled(entry)
           over == now - entry.start[w] >= TicksOf[w]
<1>1. /\ e.start[w] = IF over THEN now ELSE entry.start[w]
      /\ e.count[w] = IF over THEN 0 ELSE entry.count[w]
  BY DEF Rolled
<1>2. /\ now \in Nat /\ entry.start[w] \in Nat /\ entry.count[w] \in Nat
      /\ entry.start[w] <= now
      /\ IsFiniteSet(grants) /\ \A g \in grants : g.at \in Nat /\ g.at <= now
      /\ CountedIn(w, entry)
  BY DEF GrantInv, RateInv, RateTypeOK
<1> HIDE DEF e
<1>3. CASE ~over
  BY <1>1, <1>2, <1>3 DEF CountedIn, Since, Before, e
<1>4. CASE over
  <2>1. \A g \in grants : g.at < now
    BY <1>2, <1>4, WindowTicks DEF CountedIn
  <2>2. Since(w, e) = {}
    BY <1>1, <1>2, <1>4, <2>1 DEF Since
  <2>3. Before(w, e) \subseteq Since(w, entry)
    BY <1>1, <1>2, <1>4, <2>1, WindowTicks DEF Since, Before
  <2>4. Cardinality(Before(w, e)) <= Cardinality(Since(w, entry))
    <3>1. IsFiniteSet(Since(w, entry))
      BY <1>2, FS_Subset DEF Since
    <3>2. QED
      BY <2>3, <3>1, FS_Subset
  <2>5. Cardinality(Before(w, e)) <= LimitOf[w]
    <3>1. IsFiniteSet(Before(w, e)) /\ IsFiniteSet(Since(w, entry))
      BY <1>2, FS_Subset DEF Since, Before
    <3>2. Cardinality(Before(w, e)) \in Nat /\ Cardinality(Since(w, entry)) \in Nat
      BY <3>1, FS_CardinalityType
    <3>3. QED
      BY <1>2, <2>4, <3>2, WindowLimits DEF CountedIn
  <2>6. \A g \in grants : g.at < e.start[w] + TicksOf[w]
    BY <1>1, <1>2, <1>4, <2>1, WindowTicks
  <2>7. e.count[w] = 0 /\ 0 <= LimitOf[w]
    BY <1>1, <1>4, WindowLimits
  <2>8. QED
    BY <2>2, <2>5, <2>6, <2>7, FS_EmptySet DEF CountedIn, e
<1>5. QED
  BY <1>3, <1>4 DEF e

(* A grant is counted by both windows; what the history forgets is not     *)
(* missed.                                                                 *)
LEMMA GrantCounts ==
  ASSUME GrantInv, Grant(Rolled(entry)), now' = now, NEW w \in Windows
  PROVE  CountedIn(w, entry)'
<1> DEFINE e == Rolled(entry)
           new == [at |-> now, nth |-> Cardinality({g \in grants : g.at = now})]
<1>1. /\ e \in [start : [Windows -> Nat], count : [Windows -> Nat]]
      /\ e.start[w] <= now /\ now - e.start[w] < TicksOf[w]
  BY RolledCovers DEF GrantInv
<1>2. CountedIn(w, e)
  BY RolledCounts
<1>3. /\ entry'.start[w] = e.start[w] /\ entry'.count[w] = e.count[w] + 1
      /\ e.count[w] < LimitOf[w]
  <2>1. entry' = [e EXCEPT !.count = [v \in Windows |-> e.count[v] + 1]]
    BY DEF Grant
  <2>2. ~Full(e, w)
    BY DEF Grant, Windows
  <2> HIDE DEF e
  <2>3. QED
    BY <1>1, <2>1, <2>2, WindowLimits DEF Full
<1>4. grants' \subseteq grants \cup {new} /\ new.at = now
  BY DEF Grant
<1>5. /\ now \in Nat /\ IsFiniteSet(grants)
      /\ \A g \in grants : g.at \in Nat /\ g.at <= now
  BY DEF GrantInv, RateInv, RateTypeOK
<1>6. e.start[w] \in Nat /\ e.count[w] \in Nat
  BY <1>1
<1> HIDE DEF e, new
<1>7. Since(w, entry)' \subseteq Since(w, e) \cup {new}
  BY <1>3, <1>4 DEF Since
<1>8. Before(w, entry)' \subseteq Before(w, e)
  BY <1>1, <1>3, <1>4, <1>5, <1>6 DEF Before
<1>9. /\ IsFiniteSet(Since(w, e)) /\ IsFiniteSet(Before(w, e))
      /\ IsFiniteSet(Since(w, e) \cup {new})
      /\ Cardinality(Since(w, e) \cup {new}) <= Cardinality(Since(w, e)) + 1
  <2>1. IsFiniteSet(Since(w, e)) /\ IsFiniteSet(Before(w, e))
    BY <1>5, FS_Subset DEF Since, Before
  <2>2. Cardinality(Since(w, e)) \in Nat
    BY <2>1, FS_CardinalityType
  <2>3. /\ IsFiniteSet(Since(w, e) \cup {new})
        /\ Cardinality(Since(w, e) \cup {new}) =
             IF new \in Since(w, e) THEN Cardinality(Since(w, e)) ELSE Cardinality(Since(w, e)) + 1
    BY <2>1, FS_AddElement
  <2>4. QED
    BY <2>1, <2>2, <2>3
<1>10. /\ Cardinality(Since(w, entry)') <= Cardinality(Since(w, e)) + 1
       /\ Cardinality(Before(w, entry)') <= Cardinality(Before(w, e))
  <2>1. /\ IsFiniteSet(Since(w, entry)')
        /\ Cardinality(Since(w, entry)') <= Cardinality(Since(w, e) \cup {new})
        /\ Cardinality(Before(w, entry)') <= Cardinality(Before(w, e))
    BY <1>7, <1>8, <1>9, FS_Subset
  <2>2. /\ Cardinality(Since(w, entry)') \in Nat /\ Cardinality(Since(w, e)) \in Nat
        /\ Cardinality(Since(w, e) \cup {new}) \in Nat
    BY <1>9, <2>1, FS_CardinalityType
  <2>3. QED
    BY <1>9, <2>1, <2>2
<1>11. /\ Cardinality(Since(w, e)) \in Nat /\ Cardinality(Since(w, entry)') \in Nat
       /\ Cardinality(Before(w, e)) \in Nat /\ Cardinality(Before(w, entry)') \in Nat
  <2>1. IsFiniteSet(Since(w, entry)') /\ IsFiniteSet(Before(w, entry)')
    BY <1>7, <1>8, <1>9, FS_Subset
  <2>2. QED
    BY <1>9, <2>1, FS_CardinalityType
<1>12. \A g \in grants' : g.at < entry'.start[w] + TicksOf[w]
  BY <1>1, <1>2, <1>3, <1>4, <1>5, <1>6, WindowTicks DEF CountedIn
<1>13. /\ entry'.count[w] <= LimitOf[w]
       /\ Cardinality(Since(w, entry)') <= entry'.count[w]
       /\ Cardinality(Before(w, entry)') <= LimitOf[w]
  BY <1>2, <1>3, <1>6, <1>10, <1>11, WindowLimits DEF CountedIn
<1>14. QED
  BY <1>12, <1>13 DEF CountedIn

LEMMA GrantStepInv == GrantInv /\ [RateNext]_limiterVars => GrantInv'
<1> SUFFICES ASSUME GrantInv, [RateNext]_limiterVars
             PROVE  GrantInv'
  OBVIOUS
<1>1. RateInv'
  BY RateStepInv DEF GrantInv
<1>2. now \in Nat /\ now' \in Nat
  BY <1>1 DEF GrantInv, RateInv, RateTypeOK
<1>3. CASE Tick
  <2>1. now' > now /\ entry' = entry /\ grants' = grants
    BY <1>2, <1>3 DEF Tick
  <2>2. \A w \in Windows : CountedIn(w, entry)'
    BY <2>1 DEF GrantInv, CountedIn, Since, Before
  <2>3. QED
    BY <1>1, <1>2, <2>1, <2>2 DEF GrantInv
<1>4. CASE Request
  <2>1. now' = now
    BY <1>4 DEF Request
  <2>2. CASE \E w \in Windows : Refuse(Rolled(entry), w)
    <3>1. entry' = Rolled(entry) /\ grants' = grants
      BY <2>2 DEF Refuse
    <3>2. \A w \in Windows : CountedIn(w, Rolled(entry))
      BY RolledCounts
    <3>3. \A w \in Windows : CountedIn(w, entry)'
      BY <3>1, <3>2 DEF CountedIn, Since, Before
    <3>4. QED
      BY <1>1, <2>1, <3>1, <3>3 DEF GrantInv
  <2>3. CASE Grant(Rolled(entry))
    <3> DEFINE new == [at |-> now, nth |-> Cardinality({g \in grants : g.at = now})]
    <3>1. grants' \subseteq grants \cup {new} /\ new.at = now
      BY <2>3 DEF Grant
    <3> HIDE DEF new
    <3>2. IsFiniteSet(grants')
      BY <3>1, FS_AddElement, FS_Subset DEF GrantInv
    <3>3. \A g \in grants' : g.at \in Nat /\ g.at <= now'
      BY <1>2, <2>1, <3>1 DEF GrantInv
    <3>4. \A w \in Windows : CountedIn(w, entry)'
      BY <2>1, <2>3, GrantCounts
    <3>5. QED
      BY <1>1, <3>2, <3>3, <3>4 DEF GrantInv
  <2>4. QED
    BY <1>4, <2>2, <2>3 DEF Request, Windows
<1>5. CASE UNCHANGED limiterVars
  <2>1. now' = now /\ entry' = entry /\ grants' = grants
    BY <1>5 DEF limiterVars
  <2>2. \A w \in Windows : CountedIn(w, entry)'
    BY <2>1 DEF GrantInv, CountedIn, Since, Before
  <2>3. QED
    BY <1>1, <2>1, <2>2 DEF GrantInv
<1>6. QED
  BY <1>3, <1>4, <1>5 DEF RateNext

LEMMA GrantInvIsEnough == GrantInv => GrantsAreBounded
<1> SUFFICES ASSUME GrantInv, NEW w \in Windows
             PROVE  Cardinality({g \in grants : now - g.at < TicksOf[w]}) <= 2 * LimitOf[w]
  BY DEF GrantsAreBounded
<1> DEFINE recent == {g \in grants : now - g.at < TicksOf[w]}
           S == Since(w, entry)
           B == Before(w, entry)
<1>1. /\ now \in Nat /\ entry.start[w] \in Nat /\ entry.start[w] <= now
      /\ entry.count[w] \in Nat
      /\ IsFiniteSet(grants) /\ \A g \in grants : g.at \in Nat /\ g.at <= now
      /\ CountedIn(w, entry)
  BY DEF GrantInv, RateInv, RateTypeOK
<1>2. recent \subseteq S \cup B
  BY <1>1, WindowTicks DEF Since, Before
<1>3. IsFiniteSet(S) /\ IsFiniteSet(B)
  BY <1>1, FS_Subset DEF Since, Before
<1>4. Cardinality(S) \in Nat /\ Cardinality(B) \in Nat
      /\ Cardinality(S) <= entry.count[w] /\ entry.count[w] <= LimitOf[w]
      /\ Cardinality(B) <= LimitOf[w]
  BY <1>1, <1>3, FS_CardinalityType DEF CountedIn
<1> HIDE DEF recent, S, B
<1>5. /\ IsFiniteSet(S \cup B)
      /\ Cardinality(S \cup B) = Cardinality(S) + Cardinality(B) - Cardinality(S \cap B)
      /\ Cardinality(S \cap B) \in Nat
  <2>1. IsFiniteSet(S \cap B)
    BY <1>3, FS_Intersection
  <2>2. QED
    BY <1>3, <2>1, FS_Union, FS_CardinalityType
<1>6. IsFiniteSet(recent) /\ Cardinality(recent) <= Cardinality(S \cup B)
  BY <1>2, <1>5, FS_Subset
<1>7. Cardinality(recent) \in Nat /\ Cardinality(S \cup B) \in Nat
  BY <1>5, <1>6, FS_CardinalityType
<1>8. Cardinality(recent) <= 2 * LimitOf[w]
  BY <1>1, <1>4, <1>5, <1>6, <1>7, WindowLimits
<1>9. QED
  BY <1>8 DEF recent

(* No stretch of time as long as a window lets through more than twice its *)
(* limit, whatever the lengths, the limits and the times of the requests   *)
(* (ratelimit.py, _check_memory).                                          *)
THEOREM GrantsBounded == RateSpec => []GrantsAreBounded
<1>1. QED
  BY GrantInitInv, GrantStepInv, GrantInvIsEnough, PTL DEF RateSpec

---------------------------------------------------------------------------
(* The engine registry                                                     *)

(* A thread between its check and its session has its own loop's engine    *)
(* before it, unless it was raced; only requests dispose first.           *)
Bound == \A t \in Threads \ raced : at[t] = "bound" =>
           \A e \in registry : e.loop = LoopOf(t)
Closing == \A t \in Threads : at[t] = "closing" => t \in {"task", "tool"}
Disposing == \A t \in Threads : at[t] \in {"disposing", "disposed"} => t \in Requests

EngineInv ==
  /\ at \in [Threads -> Places]
  /\ "api" \in loops
  /\ \A e, f \in registry : e = f
  /\ NoEngineOfDeadLoop /\ SessionsOnOwnLoop
  /\ Bound /\ Closing /\ Disposing

LEMMA EngineInitInv == EngineInit => EngineInv
<1> SUFFICES ASSUME EngineInit PROVE EngineInv
  OBVIOUS
<1>1. at \in [Threads -> Places] /\ \A t \in Threads : at[t] = "idle"
  <2>1. at = [t \in Threads |-> "idle"] /\ "idle" \in Places
    BY DEF EngineInit, Places
  <2>2. QED
    BY <2>1
<1>2. /\ "api" \in loops /\ \A e, f \in registry : e = f
      /\ NoEngineOfDeadLoop /\ SessionsOnOwnLoop
  BY DEF EngineInit, NoEngineOfDeadLoop, SessionsOnOwnLoop
<1>3. Bound /\ Closing /\ Disposing
  BY <1>1 DEF Bound, Closing, Disposing
<1>4. QED
  BY <1>1, <1>2, <1>3 DEF EngineInv

(* A thread that goes on has not been raced yet, and races nobody unless   *)
(* it writes the registry.                                                 *)
LEMMA GoesOn ==
  ASSUME at \in [Threads -> Places], NEW t \in Threads, NEW where \in Places,
         Proceeds(t, where, FALSE)
  PROVE  /\ at' \in [Threads -> Places]
         /\ at'[t] = where /\ t \notin raced'
         /\ \A u \in Threads \ {t} : at'[u] = at[u] /\ (u \in raced => u \in raced')
BY DEF Proceeds

(* init_engine leaves its loop's engine in the registry, and races whoever *)
(* it takes another one from.                                              *)
LEMMA InitEngineBinds ==
  ASSUME EngineInv, NEW t \in Threads, InitEngine(t), LoopOf(t) \in loops,
         loops' = loops, sessions' = sessions
  PROVE  EngineInv'
<1>1. /\ at' \in [Threads -> Places]
      /\ at'[t] = "bound" /\ t \notin raced'
      /\ \A u \in Threads \ {t} :
           /\ at'[u] = at[u]
           /\ u \in raced => u \in raced'
           /\ registry' # registry /\ at[u] # "idle" => u \in raced'
  <2>1. /\ at' = [at EXCEPT ![t] = "bound"]
        /\ raced' = (raced \cup {u \in Threads : registry' # registry /\ at[u] # "idle"}) \ {t}
        /\ at \in [Threads -> Places] /\ "bound" \in Places
    BY DEF InitEngine, Proceeds, EngineInv, Places
  <2>2. QED
    BY <2>1
<1>2. /\ \A e, f \in registry' : e = f
      /\ \A e \in registry' : e.loop = LoopOf(t)
  <2>1. CASE \E e \in registry : e.loop = LoopOf(t)
    BY <2>1 DEF InitEngine, EngineInv
  <2>2. CASE ~\E e \in registry : e.loop = LoopOf(t)
    BY <2>2 DEF InitEngine, Engine
  <2>3. QED
    BY <2>1, <2>2
<1>3. NoEngineOfDeadLoop' /\ SessionsOnOwnLoop'
  BY <1>2 DEF EngineInv, NoEngineOfDeadLoop, SessionsOnOwnLoop
<1>4. Bound'
  BY <1>1, <1>2 DEF EngineInv, Bound
<1>5. Closing' /\ Disposing'
  BY <1>1 DEF EngineInv, Closing, Disposing
<1>6. QED
  BY <1>1, <1>2, <1>3, <1>4, <1>5 DEF EngineInv

(* A step of t alone, after which it is not bound, or is on its own engine.*)
LEMMA WhileRegistryStays ==
  ASSUME EngineInv, NEW t \in Threads, NEW where \in Places,
         Proceeds(t, where, FALSE),
         where = "bound" => \A e \in registry : e.loop = LoopOf(t),
         where = "closing" => t \in {"task", "tool"},
         where \in {"disposing", "disposed"} => t \in Requests,
         registry' = registry, loops' = loops, SessionsOnOwnLoop'
  PROVE  EngineInv'
<1>1. /\ at' \in [Threads -> Places]
      /\ at'[t] = where
      /\ \A u \in Threads \ {t} : at'[u] = at[u] /\ (u \in raced => u \in raced')
  BY GoesOn DEF EngineInv
<1>2. NoEngineOfDeadLoop'
  BY DEF EngineInv, NoEngineOfDeadLoop
<1>3. Bound' /\ Closing' /\ Disposing'
  BY <1>1 DEF EngineInv, Bound, Closing, Disposing
<1>4. QED
  BY <1>1, <1>2, <1>3 DEF EngineInv

LEMMA EngineStepInv == EngineInv /\ [EngineNext]_engineVars => EngineInv'
<1> SUFFICES ASSUME EngineInv, [EngineNext]_engineVars
             PROVE  EngineInv'
  OBVIOUS
<1>s. ASSUME sessions' = sessions
      PROVE  SessionsOnOwnLoop'
  BY <1>s DEF EngineInv, SessionsOnOwnLoop
<1>1. ASSUME NEW t \in Threads, BeginSession(t)
      PROVE  EngineInv'
  BY <1>1, InitEngineBinds DEF BeginSession
<1>2. ASSUME NEW t \in Threads, BeginRequest(t)
      PROVE  EngineInv'
  <2>1. registry' = registry /\ loops' = loops /\ SessionsOnOwnLoop' /\ LoopOf(t) = "api"
    BY <1>2, <1>s DEF BeginRequest, LoopOf
  <2>2. CASE \E e \in registry : e.loop = "api"
    <3>1. Proceeds(t, "bound", FALSE)
      BY <1>2, <2>2 DEF BeginRequest
    <3>2. \A e \in registry : e.loop = LoopOf(t)
      BY <2>1, <2>2 DEF EngineInv
    <3>3. QED
      BY <2>1, <3>1, <3>2, WhileRegistryStays DEF Places
  <2>3. CASE ~\E e \in registry : e.loop = "api"
    <3>1. /\ t \in Requests
          /\ Proceeds(t, "disposed", FALSE) \/ Proceeds(t, "disposing", FALSE)
      BY <1>2, <2>3 DEF BeginRequest
    <3>2. QED
      BY <2>1, <3>1, WhileRegistryStays DEF Places
  <2>4. QED
    BY <2>2, <2>3
<1>3. ASSUME NEW t \in Threads, DisposeReturns(t)
      PROVE  EngineInv'
  BY <1>3, <1>s, WhileRegistryStays DEF DisposeReturns, Places, EngineInv, Disposing
<1>4. ASSUME NEW t \in Threads, BindRequest(t)
      PROVE  EngineInv'
  <2>1. InitEngine(t) /\ loops' = loops /\ sessions' = sessions
    BY <1>4 DEF BindRequest
  <2>2. t \in Requests
    BY <1>4 DEF BindRequest, EngineInv, Disposing
  <2>3. LoopOf(t) \in loops
    BY <2>2 DEF LoopOf, EngineInv
  <2>4. QED
    BY <2>1, <2>3, InitEngineBinds
<1>5. ASSUME NEW t \in Threads, OpenSession(t)
      PROVE  EngineInv'
  <2>1. SessionsOnOwnLoop'
    BY <1>5 DEF OpenSession, EngineInv, Bound, SessionsOnOwnLoop
  <2>2. QED
    BY <1>5, <2>1, WhileRegistryStays DEF OpenSession, Places
<1>6. ASSUME NEW t \in Threads, LoopStarts(t)
      PROVE  EngineInv'
  BY <1>6, <1>s DEF LoopStarts, EngineInv, NoEngineOfDeadLoop, Bound, Closing, Disposing
<1>7. ASSUME NEW t \in Threads, DisposeBegins(t)
      PROVE  EngineInv'
  <2>1. CASE \E e \in registry : e.loop = t
    BY <1>7, <1>s, <2>1, WhileRegistryStays DEF DisposeBegins, Places
  <2>2. CASE ~\E e \in registry : e.loop = t
    <3>1. /\ registry' = registry /\ loops' = loops \ {t}
          /\ at' = at /\ raced' = raced /\ t \in {"task", "tool"}
      BY <1>7, <2>2 DEF DisposeBegins
    <3>2. NoEngineOfDeadLoop'
      BY <2>2, <3>1 DEF EngineInv, NoEngineOfDeadLoop
    <3>3. SessionsOnOwnLoop'
      BY <1>7, <1>s DEF DisposeBegins
    <3>4. QED
      BY <3>1, <3>2, <3>3 DEF EngineInv, Bound, Closing, Disposing
  <2>3. QED
    BY <2>1, <2>2
<1>8. ASSUME NEW t \in Threads, LoopCloses(t)
      PROVE  EngineInv'
  <2>1. /\ registry' = {} /\ loops' = loops \ {t} /\ sessions' = sessions
        /\ at[t] = "closing" /\ t \in {"task", "tool"}
    BY <1>8 DEF LoopCloses, EngineInv, Closing
  <2>2. at' \in [Threads -> Places] /\ \A u \in Threads : at'[u] \in {at[u], "idle"}
    <3>1. at' = [at EXCEPT ![t] = "idle"] /\ at \in [Threads -> Places] /\ "idle" \in Places
      BY <1>8 DEF LoopCloses, Proceeds, EngineInv, Places
    <3>2. QED
      BY <3>1
  <2>3. SessionsOnOwnLoop' /\ NoEngineOfDeadLoop' /\ Bound'
    BY <2>1, <1>s DEF NoEngineOfDeadLoop, Bound
  <2>4. Closing' /\ Disposing'
    BY <2>2 DEF EngineInv, Closing, Disposing
  <2>5. QED
    BY <2>1, <2>2, <2>3, <2>4 DEF EngineInv
<1>9. CASE UNCHANGED engineVars
  BY <1>9, <1>s DEF engineVars, EngineInv, NoEngineOfDeadLoop, Bound, Closing, Disposing
<1>10. QED
  BY <1>1, <1>2, <1>3, <1>4, <1>5, <1>6, <1>7, <1>8, <1>9 DEF EngineNext

(* The other types: every engine was made on a loop of the process.        *)
EngineShape ==
  /\ made \in Nat
  /\ \A e \in registry \cup disposed : e.id \in 1 .. made /\ e.loop \in Loops
  /\ loops \subseteq Loops /\ raced \subseteq Threads

LEMMA EngineStepShape ==
  ASSUME EngineInv, EngineShape, [EngineNext]_engineVars
  PROVE  EngineShape'
<1>1. ASSUME NEW t \in Threads, NEW where, NEW wrote, Proceeds(t, where, wrote)
      PROVE  raced' \subseteq Threads
  BY <1>1 DEF Proceeds, EngineShape
<1>2. ASSUME NEW t \in Threads, InitEngine(t), disposed' = disposed, loops' = loops
      PROVE  EngineShape'
  <2>1. raced' \subseteq Threads
    BY <1>1, <1>2 DEF InitEngine
  <2>2. LoopOf(t) \in Loops
    BY DEF LoopOf, Loops, Threads
  <2>3. CASE UNCHANGED <<registry, made>>
    BY <1>2, <2>1, <2>3 DEF EngineShape
  <2>4. CASE registry' = {Engine(LoopOf(t))} /\ made' = made + 1
    <3>1. Engine(LoopOf(t)).id = made + 1 /\ Engine(LoopOf(t)).loop = LoopOf(t)
      BY DEF Engine
    <3>2. made + 1 \in 1 .. made' /\ \A i \in 1 .. made : i \in 1 .. made'
      BY <2>4 DEF EngineShape
    <3>. HIDE DEF Engine
    <3>. QED
      BY <1>2, <2>1, <2>2, <2>4, <3>1, <3>2 DEF EngineShape
  <2>. QED
    BY <1>2, <2>3, <2>4 DEF InitEngine
<1>3. ASSUME NEW t \in Threads, BeginSession(t) \/ BindRequest(t)
      PROVE  EngineShape'
  BY <1>2, <1>3 DEF BeginSession, BindRequest
<1>4. ASSUME NEW t \in Threads, BeginRequest(t) \/ DisposeReturns(t) \/ OpenSession(t)
      PROVE  EngineShape'
  <2>1. raced' \subseteq Threads
    BY <1>1, <1>4 DEF BeginRequest, DisposeReturns, OpenSession
  <2>2. /\ registry' = registry /\ made' = made /\ loops' = loops
        /\ disposed' \subseteq registry \cup disposed
    BY <1>4 DEF BeginRequest, DisposeReturns, OpenSession
  <2>. QED
    BY <2>1, <2>2 DEF EngineShape
<1>5. ASSUME NEW t \in Threads, LoopStarts(t)
      PROVE  EngineShape'
  BY <1>5 DEF LoopStarts, EngineShape, Loops
<1>6. ASSUME NEW t \in Threads, DisposeBegins(t) \/ LoopCloses(t)
      PROVE  EngineShape'
  <2>1. raced' \subseteq Threads
    BY <1>1, <1>6 DEF DisposeBegins, LoopCloses, EngineShape
  <2>2. /\ registry' \subseteq registry /\ made' = made /\ loops' \subseteq loops
        /\ disposed' \subseteq registry \cup disposed
    BY <1>6 DEF DisposeBegins, LoopCloses
  <2>. QED
    BY <2>1, <2>2 DEF EngineShape
<1>7. CASE UNCHANGED engineVars
  BY <1>7 DEF engineVars, EngineShape
<1>. QED
  BY <1>3, <1>4, <1>5, <1>6, <1>7 DEF EngineNext

(* There is at most one engine in the registry, of a loop of the process,  *)
(* and every thread is somewhere (db/session.py).                          *)
THEOREM EngineTypes == EngineSpec => []EngineTypeOK
<1>1. EngineInit => EngineShape
  BY DEF EngineInit, EngineShape, Loops
<1>2. EngineInv /\ EngineShape => EngineTypeOK
  <2>. SUFFICES ASSUME EngineInv, EngineShape  PROVE EngineTypeOK
    OBVIOUS
  <2>1. Cardinality(registry) <= 1
    <3>1. ASSUME NEW e \in registry  PROVE registry = {e}
      BY DEF EngineInv
    <3>2. Cardinality(registry) \in {0, 1}
      BY <3>1, FS_EmptySet, FS_Singleton
    <3>. QED
      BY <3>2
  <2>. QED
    BY <2>1 DEF EngineInv, EngineShape, EngineTypeOK
<1>. QED
  BY <1>1, <1>2, EngineInitInv, EngineStepInv, EngineStepShape, PTL DEF EngineSpec

(* A session works on the engine of its own loop unless the registry was   *)
(* written by another thread between the check and the session             *)
(* (db/session.py init_engine, get_db; workers/tasks.py task_session).     *)
THEOREM SessionsStayHome == EngineSpec => []SessionsOnOwnLoop
<1>1. EngineInv => SessionsOnOwnLoop
  BY DEF EngineInv
<1>2. QED
  BY <1>1, EngineInitInv, EngineStepInv, PTL DEF EngineSpec

(* The registry never holds the engine of a loop that has ended, whoever   *)
(* starts and ends loops meanwhile (dispose_engine_for_current_loop).      *)
THEOREM RegistryOutlivesNoLoop == EngineSpec => []NoEngineOfDeadLoop
<1>1. EngineInv => NoEngineOfDeadLoop
  BY DEF EngineInv
<1>2. QED
  BY <1>1, EngineInitInv, EngineStepInv, PTL DEF EngineSpec

---------------------------------------------------------------------------
(* The clients of the language models                                      *)

Client == [id : Nat, loop : LoopIds]

CallPlaces == {"idle", "client", "clear", "create", "take", "post"} \cup Over

Call ==
  [at : CallPlaces, loop : LoopIds \cup {"none"}, index : Nat, retry : BOOLEAN,
   failed : SUBSET Providers, client : Client \cup {NoClient}, alone : {"yes", "no"}]

(* A call runs on a loop and asks a provider of the chain.                 *)
CallFits(c) ==
  /\ calls[c].index \in {1} \cup 1 .. Len(Chain)
  /\ Busy(c) => calls[c].loop \in LoopIds /\ calls[c].index \in 1 .. Len(Chain)

(* Each provider shares one client at most; ids are given out once.        *)
ClientsFit ==
  /\ clients \in Nat
  /\ shared \in [Providers -> SUBSET Client] /\ closed \subseteq Client
  /\ \A p \in Providers : \A s \in shared[p] : s.id \in 1 .. clients
  /\ \A p \in Providers : \A s, t \in shared[p] : s = t
  /\ \A s \in closed : s.id <= clients

(* What a call that nobody overlaps finds: no other call runs, no client   *)
(* of its loop was closed, and the one it takes next is its own.           *)
AloneFits(c) ==
  Busy(c) /\ calls[c].alone = "yes" =>
    /\ \A d \in Callers \ {c} : ~Busy(d)
    /\ \A p \in Providers : \A s \in shared[p] : s.loop = calls[c].loop => s \notin closed
    /\ calls[c].at = "create" => shared[Provider(c)] = {}
    /\ calls[c].at = "take" =>
         shared[Provider(c)] # {} /\ \A s \in shared[Provider(c)] : s.loop = calls[c].loop
    /\ calls[c].at = "post" =>
         calls[c].client \notin closed /\ calls[c].client.loop = calls[c].loop

(* What the two properties say of one call.                                *)
PassedOverFailed(c) ==
  /\ calls[c].at = "heuristic" => calls[c].failed = Providers
  /\ \A i \in 1 .. calls[c].index - 1 : Chain[i] \in calls[c].failed
FailsOverlapped(c) == calls[c].at = "failed" => calls[c].alone = "no"

LLMInv ==
  /\ calls \in [Callers -> Call]
  /\ ClientsFit
  /\ \A c \in Callers :
       CallFits(c) /\ AloneFits(c) /\ PassedOverFailed(c) /\ FailsOverlapped(c)


LEMMA ChainLength == Len(Chain) \in Nat /\ (Chain = <<>> <=> Len(Chain) = 0)
BY ChainAssumption

LEMMA LLMInitInv == LLMInit => LLMInv
<1> SUFFICES ASSUME LLMInit PROVE LLMInv
  OBVIOUS
<1>1. Rest \in Call /\ Rest.at = "idle" /\ Rest.index = 1
  BY DEF Rest, Call, CallPlaces
<1>2. calls \in [Callers -> Call] /\ \A c \in Callers : calls[c] = Rest
  BY <1>1 DEF LLMInit
<1>3. ClientsFit
  BY DEF LLMInit, ClientsFit
<1>4. ASSUME NEW c \in Callers
      PROVE  CallFits(c) /\ AloneFits(c) /\ PassedOverFailed(c) /\ FailsOverlapped(c)
  BY <1>1, <1>2 DEF CallFits, AloneFits, PassedOverFailed, FailsOverlapped, Busy
<1>5. QED
  BY <1>2, <1>3, <1>4 DEF LLMInv

(* While a call runs, nobody else is alone: its step has only itself to    *)
(* answer for.                                                             *)
LEMMA BusyMoves ==
  ASSUME LLMInv, NEW c \in Callers, Busy(c), NEW call \in Call, Now(c, call),
         ClientsFit',
         call.index \in 1 .. Len(Chain), call.loop = calls[c].loop,
         calls'[c] = call => AloneFits(c)' /\ PassedOverFailed(c)' /\ FailsOverlapped(c)'
  PROVE  LLMInv'
<1>1. /\ calls' \in [Callers -> Call] /\ calls'[c] = call
      /\ \A d \in Callers \ {c} : calls'[d] = calls[d]
  BY DEF Now, LLMInv
<1>2. CallFits(c)'
  BY <1>1 DEF CallFits, Busy, LLMInv
<1>3. ASSUME NEW d \in Callers \ {c}
      PROVE  CallFits(d)' /\ AloneFits(d)' /\ PassedOverFailed(d)' /\ FailsOverlapped(d)'
  <2>1. CallFits(d) /\ AloneFits(d) /\ PassedOverFailed(d) /\ FailsOverlapped(d)
    BY DEF LLMInv
  <2>2. calls'[d] = calls[d] /\ Busy(d)' = Busy(d)
    BY <1>1 DEF Busy
  <2>3. ~(Busy(d) /\ calls[d].alone = "yes")
    BY <2>1 DEF AloneFits
  <2>4. AloneFits(d)'
    BY <2>2, <2>3 DEF AloneFits
  <2>5. CallFits(d)' /\ PassedOverFailed(d)' /\ FailsOverlapped(d)'
    BY <2>1, <2>2 DEF CallFits, PassedOverFailed, FailsOverlapped
  <2>6. QED
    BY <2>4, <2>5
<1>4. QED
  BY <1>1, <1>2, <1>3 DEF LLMInv

(* A call begins: those that run are no longer alone, and it is alone only *)
(* when nobody runs and no client of its loop is left.                     *)
LEMMA BeginFits == ASSUME LLMInv, NEW c \in Callers, Begin(c) PROVE LLMInv'
<1>1. PICK loop \in LoopIds :
        LET others == {d \in Callers \ {c} : Busy(d)}
            again == \E p \in Providers : \E s \in shared[p] : s.loop = loop
            alone == IF others = {} /\ ~again THEN "yes" ELSE "no"
        IN calls' = [d \in Callers |->
             IF d = c THEN [Rest EXCEPT !.at = IF Chain = <<>> THEN "heuristic" ELSE "client",
                                        !.loop = loop, !.alone = alone]
             ELSE IF d \in others THEN [calls[d] EXCEPT !.alone = "no"] ELSE calls[d]]
  BY DEF Begin
<1> DEFINE others == {d \in Callers \ {c} : Busy(d)}
           again == \E p \in Providers : \E s \in shared[p] : s.loop = loop
           new == [Rest EXCEPT !.at = IF Chain = <<>> THEN "heuristic" ELSE "client",
                               !.loop = loop,
                               !.alone = IF others = {} /\ ~again THEN "yes" ELSE "no"]
<1>2. /\ new \in Call /\ new.index = 1 /\ new.loop = loop /\ new.failed = {}
      /\ new.at = IF Chain = <<>> THEN "heuristic" ELSE "client"
      /\ new.alone = "yes" => others = {} /\ ~again
  BY DEF Rest, Call, CallPlaces, Over
<1>3. calls \in [Callers -> Call]
  BY DEF LLMInv
<1>4. calls'[c] = new
  BY <1>1
<1>5. ASSUME NEW d \in Callers \ {c}
      PROVE  /\ calls'[d] \in Call
             /\ Busy(d)' = Busy(d)
             /\ calls'[d].index = calls[d].index /\ calls'[d].loop = calls[d].loop
             /\ calls'[d].at = calls[d].at /\ calls'[d].failed = calls[d].failed
             /\ IF Busy(d) THEN calls'[d].alone = "no" ELSE calls'[d].alone = calls[d].alone
  <2>1. calls'[d] = IF Busy(d) THEN [calls[d] EXCEPT !.alone = "no"] ELSE calls[d]
    BY <1>1
  <2>2. calls[d] \in Call
    BY <1>3
  <2>3. QED
    BY <2>1, <2>2 DEF Call, Busy
<1>6. calls' \in [Callers -> Call]
  <2>1. calls' = [d \in Callers |-> calls'[d]]
    BY <1>1
  <2>2. \A d \in Callers : calls'[d] \in Call
    BY <1>2, <1>4, <1>5
  <2>3. QED
    BY <2>1, <2>2
<1>7. ClientsFit' /\ shared' = shared /\ closed' = closed
  BY DEF Begin, LLMInv, ClientsFit
<1> HIDE DEF new, others, again
<1>8. CallFits(c)' /\ PassedOverFailed(c)' /\ FailsOverlapped(c)'
  <2>1. Chain = <<>> => Providers = {}
    BY ChainLength DEF Providers
  <2>2. CallFits(c)'
    BY <1>2, <1>4, ChainLength DEF CallFits, Busy, Over
  <2>3. PassedOverFailed(c)'
    <3>1. 1 .. calls'[c].index - 1 = {}
      BY <1>2, <1>4
    <3>2. QED
      BY <1>2, <1>4, <2>1, <3>1 DEF PassedOverFailed
  <2>4. FailsOverlapped(c)'
    BY <1>2, <1>4 DEF FailsOverlapped
  <2>5. QED
    BY <2>2, <2>3, <2>4
<1>9. AloneFits(c)'
  BY <1>2, <1>4, <1>5, <1>7 DEF AloneFits, others, again
<1>10. ASSUME NEW d \in Callers \ {c}
       PROVE  CallFits(d)' /\ AloneFits(d)' /\ PassedOverFailed(d)' /\ FailsOverlapped(d)'
  <2>1. CallFits(d) /\ AloneFits(d) /\ PassedOverFailed(d) /\ FailsOverlapped(d)
    BY DEF LLMInv
  <2>2. QED
    BY <1>5, <2>1 DEF CallFits, AloneFits, PassedOverFailed, FailsOverlapped, Busy, Over
<1>11. QED
  BY <1>6, <1>7, <1>8, <1>9, <1>10 DEF LLMInv

(* What all steps of a call that runs have in common.                      *)
LEMMA RunningCall ==
  ASSUME LLMInv, NEW c \in Callers, Busy(c)
  PROVE  /\ calls[c] \in Call /\ calls[c].loop \in LoopIds
         /\ calls[c].index \in 1 .. Len(Chain) /\ Provider(c) \in Providers
         /\ AloneFits(c) /\ PassedOverFailed(c)
BY DEF LLMInv, CallFits, Provider, Providers

(* A step that goes on to another place with the same client.              *)
LEMMA GoesTo ==
  ASSUME LLMInv, NEW c \in Callers, Busy(c), NEW where \in CallPlaces,
         where \notin {"heuristic", "failed"},
         Now(c, [calls[c] EXCEPT !.at = where]), ClientsFit',
         calls'[c] = [calls[c] EXCEPT !.at = where] => AloneFits(c)'
  PROVE  LLMInv'
<1> DEFINE call == [calls[c] EXCEPT !.at = where]
<1>1. /\ call \in Call /\ call.index = calls[c].index /\ call.loop = calls[c].loop
      /\ call.at = where /\ call.failed = calls[c].failed
  BY RunningCall DEF Call
<1>2. calls'[c] = call => PassedOverFailed(c)' /\ FailsOverlapped(c)'
  BY <1>1, RunningCall DEF PassedOverFailed, FailsOverlapped
<1> HIDE DEF call
<1>3. QED
  BY <1>1, <1>2, RunningCall, BusyMoves DEF call

LEMMA LLMStepInv == LLMInv /\ [LLMNext]_llmVars => LLMInv'
<1> SUFFICES ASSUME LLMInv, [LLMNext]_llmVars
             PROVE  LLMInv'
  OBVIOUS
<1>1. ASSUME NEW c \in Callers, Begin(c)
      PROVE  LLMInv'
  BY <1>1, BeginFits
<1>2. ASSUME NEW c \in Callers, GetClient(c)
      PROVE  LLMInv'
  <2> DEFINE mine == {s \in shared[Provider(c)] : s.loop = calls[c].loop}
             others == shared[Provider(c)] \ mine
             where == IF mine # {} THEN "take" ELSE IF others # {} THEN "clear" ELSE "create"
  <2>1. /\ calls[c].at = "client" /\ Busy(c)
        /\ closed' = closed \cup others /\ shared' = shared /\ clients' = clients
        /\ Now(c, [calls[c] EXCEPT !.at = where])
    BY <1>2 DEF GetClient, Busy, Over
  <2>2. Provider(c) \in Providers /\ AloneFits(c) /\ calls[c] \in Call
    BY <2>1, RunningCall
  <2>3. others \subseteq shared[Provider(c)] /\ \A s \in others : s.loop # calls[c].loop
    OBVIOUS
  <2>4. ClientsFit'
    <3>1. ClientsFit
      BY DEF LLMInv
    <3>2. \A s \in others : s \in Client /\ s.id <= clients
      BY <2>2, <2>3, <3>1 DEF ClientsFit
    <3> HIDE DEF others
    <3>3. QED
      BY <2>1, <3>1, <3>2 DEF ClientsFit
  <2>5. /\ where \in CallPlaces /\ where \notin {"heuristic", "failed", "post"}
        /\ where = "create" => shared[Provider(c)] = {}
        /\ where = "take" => shared[Provider(c)] # {}
                           /\ \A s \in shared[Provider(c)] : s.loop = calls[c].loop
    BY <2>2 DEF CallPlaces, LLMInv, ClientsFit
  <2> HIDE DEF where, others
  <2>6. ASSUME calls'[c] = [calls[c] EXCEPT !.at = where]
        PROVE  AloneFits(c)'
    <3>1. /\ calls'[c].at = where /\ calls'[c].loop = calls[c].loop
          /\ calls'[c].alone = calls[c].alone /\ Provider(c)' = Provider(c)
      BY <2>2, <2>6 DEF Call, Provider
    <3>2. \A d \in Callers \ {c} : Busy(d)' = Busy(d)
      BY <2>1 DEF Now, Busy, LLMInv
    <3>3. QED
      BY <2>1, <2>2, <2>3, <2>5, <3>1, <3>2 DEF AloneFits
  <2>7. QED
    BY <2>1, <2>4, <2>5, <2>6, GoesTo
<1>3. ASSUME NEW c \in Callers, Clear(c)
      PROVE  LLMInv'
  <2>1. /\ calls[c].at = "clear" /\ Busy(c)
        /\ shared' = [shared EXCEPT ![Provider(c)] = {}]
        /\ closed' = closed /\ clients' = clients
        /\ Now(c, [calls[c] EXCEPT !.at = "create"])
    BY <1>3 DEF Clear, Busy, Over
  <2>2. Provider(c) \in Providers /\ AloneFits(c) /\ calls[c] \in Call
    BY <2>1, RunningCall
  <2>3. ClientsFit' /\ shared'[Provider(c)] = {}
        /\ \A p \in Providers : shared'[p] \subseteq shared[p]
    BY <2>1, <2>2 DEF LLMInv, ClientsFit
  <2>4. ASSUME calls'[c] = [calls[c] EXCEPT !.at = "create"]
        PROVE  AloneFits(c)'
    <3>1. /\ calls'[c].at = "create" /\ calls'[c].loop = calls[c].loop
          /\ calls'[c].alone = calls[c].alone /\ Provider(c)' = Provider(c)
      BY <2>2, <2>4 DEF Call, Provider
    <3>2. \A d \in Callers \ {c} : Busy(d)' = Busy(d)
      BY <2>1 DEF Now, Busy, LLMInv
    <3>3. QED
      BY <2>1, <2>2, <2>3, <3>1, <3>2 DEF AloneFits
  <2>5. QED
    BY <2>1, <2>3, <2>4, GoesTo DEF CallPlaces
<1>4. ASSUME NEW c \in Callers, Create(c)
      PROVE  LLMInv'
  <2> DEFINE s0 == [id |-> clients + 1, loop |-> calls[c].loop]
  <2>1. /\ calls[c].at = "create" /\ Busy(c) /\ closed' = closed
        /\ Now(c, [calls[c] EXCEPT !.at = "take"])
        /\ IF shared[Provider(c)] = {}
           THEN shared' = [shared EXCEPT ![Provider(c)] = {s0}] /\ clients' = clients + 1
           ELSE shared' = shared /\ clients' = clients
    BY <1>4 DEF Create, Busy, Over
  <2>2. /\ Provider(c) \in Providers /\ AloneFits(c) /\ calls[c] \in Call
        /\ calls[c].loop \in LoopIds
    BY <2>1, RunningCall
  <2>3. /\ ClientsFit /\ clients \in Nat /\ s0 \in Client /\ s0.id = clients + 1
        /\ s0.loop = calls[c].loop
    BY <2>2 DEF LLMInv, ClientsFit, Client
  <2>4. s0 \notin closed
    BY <2>3 DEF ClientsFit
  <2> HIDE DEF s0
  <2>5. ClientsFit'
    <3>1. CASE shared[Provider(c)] = {}
      <4>1. /\ shared' \in [Providers -> SUBSET Client] /\ shared'[Provider(c)] = {s0}
            /\ \A p \in Providers \ {Provider(c)} : shared'[p] = shared[p]
        BY <2>1, <2>2, <2>3, <3>1 DEF ClientsFit
      <4>2. clients' = clients + 1 /\ clients' \in Nat
        BY <2>1, <2>3, <3>1
      <4>3. ASSUME NEW p \in Providers
            PROVE  /\ \A s \in shared'[p] : s.id \in 1 .. clients'
                   /\ \A s, t \in shared'[p] : s = t
        <5>1. CASE p = Provider(c)
          BY <2>3, <4>1, <4>2, <5>1
        <5>2. CASE p # Provider(c)
          BY <2>3, <4>1, <4>2, <5>2 DEF ClientsFit
        <5>3. QED
          BY <5>1, <5>2
      <4>4. closed' \subseteq Client /\ \A s \in closed' : s.id <= clients'
        BY <2>1, <2>3, <4>2 DEF ClientsFit, Client
      <4>5. QED
        BY <4>1, <4>2, <4>3, <4>4 DEF ClientsFit
    <3>2. CASE shared[Provider(c)] # {}
      BY <2>1, <2>3, <3>2 DEF ClientsFit
    <3>3. QED
      BY <3>1, <3>2
  <2>6. ASSUME calls'[c] = [calls[c] EXCEPT !.at = "take"]
        PROVE  AloneFits(c)'
    <3>1. /\ calls'[c].at = "take" /\ calls'[c].loop = calls[c].loop
          /\ calls'[c].alone = calls[c].alone /\ Provider(c)' = Provider(c)
      BY <2>2, <2>6 DEF Call, Provider
    <3>2. \A d \in Callers \ {c} : Busy(d)' = Busy(d)
      BY <2>1 DEF Now, Busy, LLMInv
    <3>3. ASSUME calls[c].alone = "yes"
          PROVE  /\ shared'[Provider(c)] = {s0}
                 /\ \A p \in Providers \ {Provider(c)} : shared'[p] = shared[p]
      BY <2>1, <2>2, <2>3, <3>3 DEF AloneFits, ClientsFit
    <3>4. QED
      BY <2>1, <2>2, <2>3, <2>4, <3>1, <3>2, <3>3 DEF AloneFits
  <2>7. QED
    BY <2>1, <2>5, <2>6, GoesTo DEF CallPlaces
<1>5. ASSUME NEW c \in Callers, Take(c)
      PROVE  LLMInv'
  <2>1. calls[c].at = "take" /\ Busy(c) /\ UNCHANGED <<shared, closed, clients>>
    BY <1>5 DEF Take, Busy, Over
  <2>2. /\ Provider(c) \in Providers /\ AloneFits(c) /\ PassedOverFailed(c)
        /\ calls[c] \in Call /\ calls[c].index \in 1 .. Len(Chain)
    BY <2>1, RunningCall
  <2>3. ClientsFit' /\ shared[Provider(c)] \subseteq Client
    BY <2>1, <2>2 DEF LLMInv, ClientsFit
  <2>4. CASE shared[Provider(c)] = {}
    <3> DEFINE call == [calls[c] EXCEPT !.at = "failed"]
    <3>1. Now(c, call)
      BY <1>5, <2>4 DEF Take
    <3>2. /\ call \in Call /\ call.at = "failed" /\ call.index = calls[c].index
          /\ call.loop = calls[c].loop /\ call.failed = calls[c].failed
          /\ call.alone = calls[c].alone
      BY <2>2 DEF Call, CallPlaces, Over
    <3>3. call.alone = "no"
      BY <2>1, <2>2, <2>4, <3>2 DEF AloneFits, Call
    <3> HIDE DEF call
    <3>4. calls'[c] = call => AloneFits(c)' /\ PassedOverFailed(c)' /\ FailsOverlapped(c)'
      BY <2>2, <3>2, <3>3 DEF AloneFits, PassedOverFailed, FailsOverlapped
    <3>5. QED
      BY <2>1, <2>2, <2>3, <3>1, <3>2, <3>4, BusyMoves
  <2>5. CASE shared[Provider(c)] # {}
    <3>1. PICK s \in shared[Provider(c)] :
            Now(c, [calls[c] EXCEPT !.at = "post", !.client = s])
      BY <1>5, <2>5 DEF Take
    <3> DEFINE call == [calls[c] EXCEPT !.at = "post", !.client = s]
    <3>2. /\ call \in Call /\ call.at = "post" /\ call.index = calls[c].index
          /\ call.loop = calls[c].loop /\ call.failed = calls[c].failed
          /\ call.alone = calls[c].alone /\ call.client = s
      BY <2>2, <2>3 DEF Call, CallPlaces, Over
    <3> HIDE DEF call
    <3>3. \A d \in Callers \ {c} : Busy(d)' = Busy(d)
      BY <3>1 DEF Now, Busy, LLMInv
    <3>4. calls'[c] = call => AloneFits(c)'
      BY <2>1, <2>2, <3>1, <3>2, <3>3 DEF AloneFits
    <3>5. calls'[c] = call => PassedOverFailed(c)' /\ FailsOverlapped(c)'
      BY <2>2, <3>2 DEF PassedOverFailed, FailsOverlapped
    <3>6. Now(c, call)
      BY <3>1 DEF call
    <3>7. QED
      BY <2>1, <2>2, <2>3, <3>2, <3>4, <3>5, <3>6, BusyMoves
  <2>6. QED
    BY <2>4, <2>5
<1>6. ASSUME NEW c \in Callers, Post(c)
      PROVE  LLMInv'
  <2>1. calls[c].at = "post" /\ Busy(c) /\ UNCHANGED <<shared, closed, clients>>
    BY <1>6 DEF Post, Busy, Over
  <2>2. /\ Provider(c) \in Providers /\ AloneFits(c) /\ PassedOverFailed(c)
        /\ calls[c] \in Call /\ calls[c].index \in 1 .. Len(Chain)
    BY <2>1, RunningCall
  <2>3. ClientsFit'
    BY <2>1 DEF LLMInv, ClientsFit
  <2>4. ASSUME NEW text \in {"llm", "unparsed"}, Now(c, [calls[c] EXCEPT !.at = text])
        PROVE  LLMInv'
    <3>1. calls'[c] = [calls[c] EXCEPT !.at = text] => AloneFits(c)'
      <4>1. [calls[c] EXCEPT !.at = text].at = text
        BY <2>2 DEF Call
      <4>2. QED
        BY <4>1 DEF AloneFits, Busy, Over
    <3>2. QED
      BY <2>1, <2>3, <2>4, <3>1, GoesTo DEF CallPlaces, Over
  <2>5. ASSUME NEW call \in Call, Now(c, call), call.at \in {"client", "heuristic"},
               call.loop = calls[c].loop, call.alone = calls[c].alone,
               call.index \in 1 .. Len(Chain),
               calls'[c] = call => PassedOverFailed(c)'
        PROVE  LLMInv'
    <3>1. \A d \in Callers \ {c} : Busy(d)' = Busy(d)
      BY <2>5 DEF Now, Busy, LLMInv
    <3>2. calls'[c] = call => AloneFits(c)' /\ FailsOverlapped(c)'
      BY <2>1, <2>2, <2>5, <3>1 DEF AloneFits, FailsOverlapped
    <3>3. QED
      BY <2>1, <2>3, <2>5, <3>2, BusyMoves
  <2>6. CASE Now(c, [calls[c] EXCEPT !.retry = TRUE, !.at = "client"])
    <3> DEFINE call == [calls[c] EXCEPT !.retry = TRUE, !.at = "client"]
    <3>1. /\ call \in Call /\ call.at = "client" /\ call.index = calls[c].index
          /\ call.loop = calls[c].loop /\ call.failed = calls[c].failed
          /\ call.alone = calls[c].alone
      BY <2>2 DEF Call, CallPlaces
    <3> HIDE DEF call
    <3>2. calls'[c] = call => PassedOverFailed(c)'
      BY <2>2, <3>1 DEF PassedOverFailed
    <3>3. QED
      BY <2>2, <2>5, <2>6, <3>1, <3>2 DEF call
  <2>7. CASE Now(c, NextProvider(c))
    <3> DEFINE call == NextProvider(c)
               i == calls[c].index
    <3>1. /\ call \in Call
          /\ call.at = IF i = Len(Chain) THEN "heuristic" ELSE "client"
          /\ call.index = IF i = Len(Chain) THEN i ELSE i + 1
          /\ call.loop = calls[c].loop /\ call.alone = calls[c].alone
          /\ call.failed = calls[c].failed \cup {Chain[i]}
      <4>1. call = [calls[c] EXCEPT !.failed = calls[c].failed \cup {Chain[i]}, !.retry = FALSE,
                      !.index = IF i = Len(Chain) THEN i ELSE i + 1,
                      !.at = IF i = Len(Chain) THEN "heuristic" ELSE "client"]
        BY <2>2 DEF NextProvider, Provider
      <4>2. i \in Nat /\ Chain[i] \in Providers /\ calls[c].failed \subseteq Providers
        BY <2>2, ChainLength DEF Call, Provider
      <4>3. i + 1 \in Nat /\ calls[c].failed \cup {Chain[i]} \subseteq Providers
        BY <4>2
      <4> DEFINE at1 == IF i = Len(Chain) THEN "heuristic" ELSE "client"
                 index1 == IF i = Len(Chain) THEN i ELSE i + 1
                 failed1 == calls[c].failed \cup {Chain[i]}
      <4>4. at1 \in CallPlaces /\ index1 \in Nat /\ failed1 \in SUBSET Providers
        BY <4>2, <4>3 DEF CallPlaces, Over
      <4>5. call = [calls[c] EXCEPT !.failed = failed1, !.retry = FALSE,
                      !.index = index1, !.at = at1]
        BY <4>1
      <4> HIDE DEF call, i, at1, index1, failed1
      <4>6. /\ call \in Call /\ call.at = at1 /\ call.index = index1
            /\ call.loop = calls[c].loop /\ call.alone = calls[c].alone
            /\ call.failed = failed1
        BY <2>2, <4>4, <4>5 DEF Call
      <4>7. QED
        BY <4>6 DEF at1, index1, failed1
    <3>2. \A j \in 1 .. i : Chain[j] \in call.failed
      BY <2>2, <3>1 DEF PassedOverFailed
    <3>3. call.failed \subseteq Providers
      BY <3>1 DEF Call
    <3>4. i = Len(Chain) => call.failed = Providers
      BY <3>2, <3>3 DEF Providers
    <3>5. call.index \in 1 .. Len(Chain)
      BY <2>2, <3>1, ChainLength
    <3> HIDE DEF call
    <3>6. calls'[c] = call => PassedOverFailed(c)'
      <4>1. call.index - 1 <= i /\ i \in Nat /\ call.index \in Nat
        BY <2>2, <3>1, ChainLength
      <4>2. \A j \in 1 .. call.index - 1 : Chain[j] \in call.failed
        BY <3>2, <4>1
      <4>3. call.at = "heuristic" => call.failed = Providers
        BY <3>1, <3>4
      <4>4. QED
        BY <4>2, <4>3 DEF PassedOverFailed
    <3>7. QED
      BY <2>5, <2>7, <3>1, <3>5, <3>6 DEF call
  <2>8. CASE Broken(c) /\ Now(c, [calls[c] EXCEPT !.at = "failed"])
    <3> DEFINE call == [calls[c] EXCEPT !.at = "failed"]
    <3>1. /\ call \in Call /\ call.at = "failed" /\ call.index = calls[c].index
          /\ call.loop = calls[c].loop /\ call.failed = calls[c].failed
          /\ call.alone = calls[c].alone
      BY <2>2 DEF Call, CallPlaces, Over
    <3>2. call.alone = "no"
      BY <2>1, <2>2, <2>8, <3>1 DEF AloneFits, Broken, Call
    <3> HIDE DEF call
    <3>3. calls'[c] = call => AloneFits(c)' /\ PassedOverFailed(c)' /\ FailsOverlapped(c)'
      BY <2>2, <3>1, <3>2 DEF AloneFits, PassedOverFailed, FailsOverlapped
    <3>4. Now(c, call)
      BY <2>8 DEF call
    <3>5. QED
      BY <2>1, <2>2, <2>3, <3>1, <3>3, <3>4, BusyMoves
  <2>9. QED
    BY <1>6, <2>4, <2>6, <2>7, <2>8 DEF Post
<1>7. CASE UNCHANGED llmVars
  BY <1>7 DEF llmVars, LLMInv, ClientsFit, CallFits, AloneFits, PassedOverFailed,
              FailsOverlapped, Busy, Provider
<1>8. QED
  BY <1>1, <1>2, <1>3, <1>4, <1>5, <1>6, <1>7 DEF LLMNext

LLMSpec == LLMInit /\ [][LLMNext]_llmVars

LEMMA LLMInvHolds == LLMSpec => []LLMInv
BY LLMInitInv, LLMStepInv, PTL DEF LLMSpec

(* The clients, the loops and the places in the chain keep their types.    *)
THEOREM LLMTypes == LLMSpec => []LLMTypeOK
<1>1. LLMInv => LLMTypeOK
  BY DEF LLMInv, LLMTypeOK, ClientsFit, Client, Call, CallFits
<1>2. QED
  BY <1>1, LLMInvHolds, PTL

(* The heuristic answers only when every provider of the chain failed,     *)
(* however many callers there are and whatever they share (client.py,      *)
(* complete; agents/base.py, run).                                         *)
THEOREM HeuristicLast == LLMSpec => []HeuristicIsLast
<1>1. LLMInv => HeuristicIsLast
  BY DEF LLMInv, HeuristicIsLast, PassedOverFailed
<1>2. QED
  BY <1>1, LLMInvHolds, PTL

(* A call that nobody overlaps, on a loop of a new id, never meets a       *)
(* closed or a foreign client, whatever loops called before                *)
(* (_openai_compat.py, _get_client).                                       *)
THEOREM AloneIsSafe == LLMSpec => []AloneNeverFails
<1>1. LLMInv => AloneNeverFails
  BY DEF LLMInv, AloneNeverFails, FailsOverlapped
<1>2. QED
  BY <1>1, LLMInvHolds, PTL

=============================================================================
