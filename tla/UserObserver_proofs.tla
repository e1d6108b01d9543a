-------------------------- MODULE UserObserver_proofs --------------------------
(***************************************************************************)
(* The user observer for any users, connections, limits and durations.     *)
(***************************************************************************)
EXTENDS UserObserver, ObserverState_proofs

\* The statistics have the fields that the steps of ObserverOps work on.
LEMMA StatsAreStats == StatsType(Stats, Counter)
<1> SUFFICES ASSUME NEW x \in Stats
             PROVE  /\ {"day", "blocked_count", "last_blocked_at", "last_api_request_at", "today"}
                           \subseteq DOMAIN x
                    /\ x.day \in Nat /\ x.blocked_count \in Nat /\ x.last_api_request_at \in Time
                    /\ x.today \in [Counter -> Nat]
                    /\ \A d \in Nat : [x EXCEPT !.day = d] \in Stats
                    /\ \A f \in [Counter -> Nat] : [x EXCEPT !.today = f] \in Stats
                    /\ \A t \in Time : [x EXCEPT !.last_api_request_at = t] \in Stats
                    /\ \A n \in Nat, t \in Time :
                          [x EXCEPT !.blocked_count = n, !.last_blocked_at = t] \in Stats
                    /\ \A d \in Nat, f \in [Counter -> Nat], n \in Nat :
                          [x EXCEPT !.day = d, !.today = f, !.blocked_count = n] \in Stats
  BY DEF StatsType
<1> HIDE DEF Counter
<1> QED
  BY DEF Stats, Time

\* The statistics of an entity that is not known.
LEMMA NoStatsFacts ==
    /\ NoStats \in Stats /\ NoStats.day = NoDay /\ NoStats.blocked_count = 0
    /\ \A c \in Counter : NoStats.today[c] = 0
<1> HIDE DEF Counter
<1> QED
  BY BlocksAssumption DEF NoStats, Stats, NoDay, NoTime

\* No request counts more than the largest count.
LEMMA LargestCountFacts ==
    LargestCount \in Nat /\ LargestCount >= 1 /\ \A n \in TokenCounts : n <= LargestCount
<1> DEFINE T == TokenCounts \cup {1}
<1>1. T \subseteq Nat /\ \E m \in T : \A n \in T : m >= n
  <2>1. PICK m \in TokenCounts : \A n \in TokenCounts : n <= m
    BY UserAssumption
  <2>2. CASE m >= 1
    BY <2>1, <2>2, UserAssumption
  <2>3. CASE ~(m >= 1)
    BY <2>1, <2>3, UserAssumption
  <2> QED
    BY <2>2, <2>3
<1>2. Max(T) \in T /\ \A n \in T : Max(T) >= n
  <2> HIDE DEF T
  <2> QED
    BY <1>1 DEF Max
<1>3. LargestCount = Max(T)
  BY DEF LargestCount
<1> QED
  BY <1>1, <1>2, <1>3

\* What the lemmas of ObserverState_proofs call limits, here those of the user observer.
Limits == [daily |-> MaxDaily, minute |-> MaxPerMinute, after |-> Forgiveness + 1,
           reset |-> Enforced]

Sections(u, n) == Reached(Stats, Begin(u), now, Enforced, Limits, n)
Updates(u, D, n) == Updating(Stats, Begin(u), now, D, Limits, n)

\* The inductive invariant: whoever is past a limit of a day or a minute is blocked
\* for what is left of it.
CoveredInv == \A u \in Entity : CoveredNow(u, Enforced, Limits)

\* The limits of this observer.
LEMMA LimitsType ==
    /\ Limits \in LimitsFor(Counter) /\ Enforced \in SUBSET Counter
    /\ Limits.daily = MaxDaily /\ Limits.minute = MaxPerMinute
    /\ Limits.after = Forgiveness + 1 /\ Limits.reset = Enforced
  BY UserAssumption, CalendarAssumption DEF Limits, LimitsFor, Enforced, Counter

\* The clock begins on day one.
LEMMA NowType == ASSUME TypeOK PROVE now \in Time /\ now \in Nat /\ now >= DayLen
  BY CalendarAssumption, BlocksAssumption DEF TypeOK, StateOK, Time

\* A section opens with an entity that is covered.
LEMMA BeginOpens ==
    ASSUME TypeOK, NEW u \in Entity
    PROVE  Opening(Begin(u)) /\ Begin(u).id = u /\ Begin(u).block = blocked[u]
           /\ blocked[u] \in Block
<1>1. blocked[u] \in Block /\ stats[u] \in Stats
  BY DEF TypeOK, StateOK
<1> QED
  BY <1>1 DEF Begin, Opening, Stats

\* The start of every call.
LEMMA Entering ==
    ASSUME TypeOK, CoveredInv, NEW u \in Entity
    PROVE  /\ ResetAndUnblock(Begin(u)) \in Sections(u, 0)
           /\ Enter(u) \in Updates(u, Enforced, 0)
<1> DEFINE r == UnblockIfExpired(ResetIfNewDay(Begin(u), now, ResetDaily, Limits.after), now, 0)
<1>1. Begin(u) \in Fresh(Stats, u, blocked[u], now)
  BY BeginIsFresh DEF TypeOK
<1>2. Covered(Begin(u), now, Enforced, Limits)
  BY DEF CoveredInv, CoveredNow
<1>3. Enforced \subseteq ResetDaily
  BY DEF Enforced, ResetDaily
<1>4. r \in Reached(Stats, Begin(u), now, Enforced, Limits, 0)
      /\ Ensure(r, now) \in Updating(Stats, Begin(u), now, Enforced, Limits, 0)
  BY <1>1, <1>2, <1>3, StatsAreStats, LimitsType, NowType, BeginOpens, EnterUpdating
<1>5. ResetAndUnblock(Begin(u)) = r /\ Enter(u) = Ensure(r, now)
  BY LimitsType DEF ResetAndUnblock, Enter
<1> QED
  BY <1>4, <1>5 DEF Sections, Updates

\* A block for a limit of the day lasts a day at least, any other a minute.
LEMMA UserDurations ==
    ASSUME TypeOK, NEW u \in Entity, NEW D, NEW n, NEW s \in Updates(u, D, n)
    PROVE  /\ UserDuration(s) \in MinuteLen .. MaxBlock
           /\ WsDuration(s) \in 1 .. MaxBlock
           /\ TokenDuration(s) \in DayLen .. MaxBlock
<1>1. s.stats.blocked_count \in Nat
  BY SectionFields, StatsAreStats DEF Updates, Updating, Reached
<1> QED
  BY <1>1, LevelType, UserAssumption DEF UserDuration, WsDuration, TokenDuration
-------------------------------------------------------------------------------
(***************************************************************************)
(* Every call ends a section that Sections describes.                      *)
(***************************************************************************)
\* What the steps of an update do, with the constants of the user observer.
LEMMA UpdateSteps ==
    ASSUME TypeOK, NEW u \in Entity, NEW D \in SUBSET Counter, NEW n \in Nat,
           NEW s \in Updates(u, D, n)
    PROVE  /\ \A c \in Counter, k \in Nat :
                 n = 0 => CountToday(s, c, k) \in Updates(u, D \ {c}, k)
           /\ [s EXCEPT !.stats.last_api_request_at = now] \in Updates(u, D, n)
           /\ IncrementAndCheckRateLimit(s) \in Updates(u, D, n)
           /\ \A d \in 1 .. MaxBlock, over \in BOOLEAN :
                 BlockIf(over, s, now, d) \in Updates(u, D, n)
<1> USE StatsAreStats, LimitsType, NowType, BeginOpens DEF Updates
<1>1. ASSUME NEW c \in Counter, NEW k \in Nat, n = 0
      PROVE  CountToday(s, c, k) \in Updates(u, D \ {c}, k)
  BY <1>1, CountTodayUpdating
<1>2. [s EXCEPT !.stats.last_api_request_at = now] \in Updates(u, D, n)
  BY DatedUpdating
<1>3. IncrementAndCheckRateLimit(s) \in Updates(u, D, n)
  <2> DEFINE m == CountThisMinute(s, now)
  <2>1. UserDuration(m) \in MinuteLen .. MaxBlock
    <3>1. s \in Section(Stats, Begin(u).id, Begin(u).block, now)
      BY DEF Updating, Reached
    <3>2. m \in Section(Stats, Begin(u).id, Begin(u).block, now)
      BY <3>1, CountThisMinuteSection
    <3>3. m.stats.blocked_count \in Nat
      BY <3>2, SectionFields
    <3> QED
      BY <3>3, LevelType, UserAssumption DEF UserDuration
  <2>2. BlockIf(m.tracker.count > Limits.minute, m, now, UserDuration(m)) \in Updates(u, D, n)
    BY <2>1, RateLimitUpdating
  <2> QED
    BY <2>2 DEF IncrementAndCheckRateLimit
<1>4. ASSUME NEW d \in 1 .. MaxBlock, NEW over \in BOOLEAN
      PROVE  BlockIf(over, s, now, d) \in Updates(u, D, n)
  BY BlockIfUpdating
<1> QED
  BY <1>1, <1>2, <1>3, <1>4

\* The check of a limit that blocks for a day or more, at the end of an update.
LEMMA CheckLimit ==
    ASSUME TypeOK, NEW u \in Entity, NEW c \in Enforced, NEW n \in Nat,
           NEW s \in Updates(u, Enforced \ {c}, n), NEW d \in DayLen .. MaxBlock
    PROVE  BlockIf(Over(s, c), s, now, d) \in Updates(u, Enforced, n)
<1>1. BlockIf(s.stats.today[c] > Limits.daily[c], s, now, d) \in Updates(u, Enforced, n)
  BY BlockOverUpdating, StatsAreStats, LimitsType, NowType, BeginOpens DEF Updates
<1> QED
  BY <1>1, LimitsType DEF Over

Called(u) == \E n \in 0 .. LargestCount : \E s \in Sections(u, n) : Leave(u, s)

\* An update is a section.
LEMMA UpdatesAreSections ==
    ASSUME NEW u, NEW n \in 0 .. LargestCount, NEW s \in Updates(u, Enforced, n), Leave(u, s)
    PROVE  Called(u)
  BY DEF Called, Updates, Sections, Updating

\* The method isUserBlocked: a section of its entity, in the order of the code.
LEMMA IsUserBlockedCalled ==
    ASSUME TypeOK, CoveredInv, NEW u \in Entity, IsUserBlocked(u) PROVE Called(u)
  BY Entering, LargestCountFacts DEF IsUserBlocked, Called

\* The method updateLatestRequest: a section of its entity, in the order of the code.
LEMMA UpdateLatestRequestCalled ==
    ASSUME TypeOK, CoveredInv, NEW u \in Entity, UpdateLatestRequest(u) PROVE Called(u)
<1> DEFINE s0 == CountToday(Enter(u), "requests", 1)
           d0 == [s0 EXCEPT !.stats.last_api_request_at = now]
           s1 == IncrementAndCheckRateLimit(d0)
           E  == Enforced \ {"requests"}
<1>1. E \in SUBSET Counter /\ "requests" \in Enforced /\ "requests" \in Counter
      /\ 1 \in 0 .. LargestCount
  BY LargestCountFacts DEF Enforced, Counter
<1>2. s0 \in Updates(u, E, 1)
  BY <1>1, Entering, UpdateSteps, LimitsType
<1>3. d0 \in Updates(u, E, 1)
  <2> HIDE DEF s0, E
  <2> QED
    BY <1>1, <1>2, UpdateSteps
<1>4. s1 \in Updates(u, E, 1)
  <2> HIDE DEF d0, E
  <2> QED
    BY <1>1, <1>3, UpdateSteps
<1>5. BlockIf(Over(s1, "requests"), s1, now, DayBlock) \in Updates(u, Enforced, 1)
  <2> HIDE DEF s1
  <2> QED
    BY <1>1, <1>4, CheckLimit, UserAssumption
<1>6. Leave(u, BlockIf(Over(s1, "requests"), s1, now, DayBlock))
  BY DEF UpdateLatestRequest
<1> QED
  BY <1>1, <1>5, <1>6, UpdatesAreSections

\* The method addBadRequest: a section of its entity, in the order of the code.
LEMMA AddBadRequestCalled ==
    ASSUME TypeOK, CoveredInv, NEW u \in Entity, AddBadRequest(u) PROVE Called(u)
<1> DEFINE s == CountToday(Enter(u), "bad_requests", 1)
           E == Enforced \ {"bad_requests"}
<1>1. E \in SUBSET Counter /\ "bad_requests" \in Enforced /\ "bad_requests" \in Counter
      /\ 1 \in 0 .. LargestCount
  BY LargestCountFacts DEF Enforced, Counter
<1>2. s \in Updates(u, E, 1)
  BY <1>1, Entering, UpdateSteps, LimitsType
<1>3. BlockIf(Over(s, "bad_requests"), s, now, DayBlock) \in Updates(u, Enforced, 1)
  <2> HIDE DEF s
  <2> QED
    BY <1>1, <1>2, CheckLimit, UserAssumption
<1> QED
  BY <1>1, <1>3, UpdatesAreSections DEF AddBadRequest

\* Another set of connections is not about the day, the counters or the offences.
LEMMA WithConnections ==
    ASSUME TypeOK, NEW u \in Entity, NEW n, NEW s \in Sections(u, n), NEW X \in SUBSET Conn
    PROVE  LET r == [s EXCEPT !.stats.active_ws_connections = X]
           IN  /\ r \in Sections(u, n)
               /\ s \in Updates(u, Enforced, n) => r \in Updates(u, Enforced, n)
<1> DEFINE new == [s.stats EXCEPT !.active_ws_connections = X]
<1>1. s.stats \in Stats
  BY DEF Sections, Reached, Section
<1>2. new \in Stats
  BY <1>1 DEF Stats
<1>3. new.day = s.stats.day /\ new.today = s.stats.today
      /\ new.blocked_count = s.stats.blocked_count
  BY <1>1 DEF Stats
<1>4. [s EXCEPT !.stats.active_ws_connections = X] = [s EXCEPT !.stats = new]
  OBVIOUS
<1> HIDE DEF new
<1> QED
  BY <1>2, <1>3, <1>4, WithStatsReached, StatsAreStats, NowType DEF Sections, Updates

\* The method addWsConnection: a section of its entity, in the order of the code.
LEMMA AddWsConnectionCalled ==
    ASSUME TypeOK, CoveredInv, NEW u \in Entity, NEW c \in Conn, AddWsConnection(u, c)
    PROVE  Called(u)
<1> DEFINE s0 == Enter(u)
           X  == s0.stats.active_ws_connections \cup {c}
           s  == [s0 EXCEPT !.stats.active_ws_connections = X]
           over == Cardinality(s.stats.active_ws_connections) > MaxWs
<1>1. s0 \in Updates(u, Enforced, 0) /\ s0 \in Sections(u, 0)
  BY Entering DEF Updates, Updating, Sections
<1>2. X \in SUBSET Conn
  <2>1. s0.stats \in Stats
    BY <1>1 DEF Sections, Reached, Section
  <2> HIDE DEF s0
  <2> QED
    BY <2>1 DEF Stats
<1>3. s \in Updates(u, Enforced, 0)
  <2> HIDE DEF s0, X
  <2> QED
    BY <1>1, <1>2, WithConnections
<1>4. BlockIf(over, s, now, WsDuration(s)) \in Updates(u, Enforced, 0)
  <2> HIDE DEF s
  <2>1. WsDuration(s) \in 1 .. MaxBlock
    BY <1>3, UserDurations
  <2>2. over \in BOOLEAN /\ Enforced \in SUBSET Counter
    BY LimitsType
  <2> HIDE DEF over
  <2> QED
    BY <1>3, <2>1, <2>2, UpdateSteps
<1>5. Leave(u, BlockIf(over, s, now, WsDuration(s)))
  BY DEF AddWsConnection
<1> QED
  BY <1>4, <1>5, UpdatesAreSections, LargestCountFacts

\* The method removeWsConnection: a section of its entity, in the order of the code.
LEMMA RemoveWsConnectionCalled ==
    ASSUME TypeOK, CoveredInv, NEW u \in Entity, NEW c \in Conn, RemoveWsConnection(u, c)
    PROVE  Called(u)
<1> DEFINE s0 == ResetAndUnblock(Begin(u))
           X  == s0.stats.active_ws_connections \ {c}
           s  == [s0 EXCEPT !.stats.active_ws_connections = X]
<1>1. s0 \in Sections(u, 0)
  BY Entering
<1>2. X \in SUBSET Conn
  <2>1. s0.stats \in Stats
    BY <1>1 DEF Sections, Reached, Section
  <2> HIDE DEF s0
  <2> QED
    BY <2>1 DEF Stats
<1>3. s \in Sections(u, 0)
  <2> HIDE DEF s0, X
  <2> QED
    BY <1>1, <1>2, WithConnections
<1>4. Leave(u, s)
  BY DEF RemoveWsConnection
<1> QED
  BY <1>3, <1>4, LargestCountFacts DEF Called

\* The method addAgentInputTokens: a section of its entity, in the order of the code.
LEMMA AddAgentInputTokensCalled ==
    ASSUME TypeOK, CoveredInv, NEW u \in Entity, NEW n \in TokenCounts, AddAgentInputTokens(u, n)
    PROVE  Called(u)
<1> DEFINE c  == "agent_input_tokens"
           s0 == CountToday(Enter(u), c, n)
           s1 == IncrementAndCheckRateLimit(s0)
           E  == Enforced \ {c}
<1>1. E \in SUBSET Counter /\ c \in Enforced /\ c \in Counter
      /\ n \in 0 .. LargestCount /\ n \in Nat
  BY LargestCountFacts, UserAssumption DEF Enforced, Counter
<1>2. s0 \in Updates(u, E, n)
  BY <1>1, Entering, UpdateSteps, LimitsType
<1>3. s1 \in Updates(u, E, n)
  <2> HIDE DEF s0, E
  <2> QED
    BY <1>1, <1>2, UpdateSteps
<1>4. BlockIf(Over(s1, c), s1, now, TokenDuration(s1)) \in Updates(u, Enforced, n)
  <2> HIDE DEF s1
  <2>1. TokenDuration(s1) \in DayLen .. MaxBlock
    BY <1>3, UserDurations
  <2> QED
    BY <1>1, <1>3, <2>1, CheckLimit
<1>5. Leave(u, BlockIf(Over(s1, c), s1, now, TokenDuration(s1)))
  BY DEF AddAgentInputTokens
<1> QED
  BY <1>1, <1>4, <1>5, UpdatesAreSections

\* The method addGeneration: a section of its entity, in the order of the code.
LEMMA AddGenerationCalled ==
    ASSUME TypeOK, CoveredInv, NEW u \in Entity, NEW c \in Counter \ Enforced,
           AddGeneration(u, c)
    PROVE  Called(u)
<1> DEFINE s == CountToday(Enter(u), c, 1)
           over == Over(s, c)
<1>1. Enforced \ {c} = Enforced /\ Enforced \in SUBSET Counter /\ 1 \in 0 .. LargestCount
  BY LargestCountFacts, LimitsType
<1>2. s \in Updates(u, Enforced, 1)
  <2>1. s \in Updates(u, Enforced \ {c}, 1)
    BY <1>1, Entering, UpdateSteps
  <2> QED
    BY <1>1, <2>1
<1>3. BlockIf(over, s, now, UserDuration(s)) \in Updates(u, Enforced, 1)
  <2> HIDE DEF s
  <2>1. UserDuration(s) \in 1 .. MaxBlock
    BY <1>2, UserDurations, CalendarAssumption
  <2>2. over \in BOOLEAN
    BY DEF Over
  <2> HIDE DEF over
  <2> QED
    BY <1>1, <1>2, <2>1, <2>2, UpdateSteps
<1>4. Leave(u, BlockIf(over, s, now, UserDuration(s)))
  BY DEF AddGeneration
<1> QED
  BY <1>1, <1>3, <1>4, UpdatesAreSections
-------------------------------------------------------------------------------
(***************************************************************************)
(* The steps of the observer, and what they preserve.                      *)
(***************************************************************************)
\* What every step does: it keeps types and coverage, is one of BlockRegistry's,
\* and lets offences and the counts of a day fall only as they may.
StepOK ==
    /\ TypeOK' /\ CoveredInv'
    /\ Registry!Next \/ UNCHANGED <<now, blocked, emitted>>
    /\ \A u \in Entity :
          /\ CountFallsOnly(u, Forgiveness + 1, Retention)
          /\ StartsFromZero(u, Enforced, LargestCount)

\* Whatever the method: a call of BlockRegistry, after which its entity is covered.
LEMMA CallStep ==
    ASSUME TypeOK, CoveredInv, NEW u \in Entity, Called(u)
    PROVE  StepOK
<1>1. PICK n \in 0 .. LargestCount : \E s \in Sections(u, n) : Leave(u, s)
  BY DEF Called
<1>2. PICK s \in Sections(u, n) : Leave(u, s)
  BY <1>1
<1>3. /\ StateOK(Stats)' /\ Registry!Call(u) /\ CoveredNow(u, Enforced, Limits)'
      /\ \A f \in Entity \ {u} :
            stats'[f] = stats[f] /\ tracker'[f] = tracker[f] /\ blocked'[f] = blocked[f]
      /\ now' = now
      /\ \/ stats'[u].blocked_count >= stats[u].blocked_count
         \/ /\ stats[u].day # DayKey(now)
            /\ now - stats[u].last_blocked_at >= Limits.after
      /\ StartsFromZero(u, Limits.reset, n)
  BY <1>2, LeaveReached, StatsAreStats DEF Sections, TypeOK
<1>4. TypeOK' /\ Registry!Next
  BY <1>3 DEF TypeOK, Registry!Next
<1>5. ASSUME NEW f \in Entity
      PROVE  /\ CoveredNow(f, Enforced, Limits)'
             /\ CountFallsOnly(f, Forgiveness + 1, Retention)
             /\ StartsFromZero(f, Enforced, LargestCount)
  <2>1. /\ stats[f].blocked_count \in Nat /\ stats'[f].blocked_count \in Nat
        /\ stats'[f].today \in [Counter -> Nat]
    BY <1>4 DEF TypeOK, StateOK, Stats
  <2>2. CASE f = u
    <3>1. CountFallsOnly(f, Forgiveness + 1, Retention)
      BY <1>3, <2>1, <2>2, LimitsType DEF CountFallsOnly
    <3>2. \A c \in Enforced : stats'[f].today[c] <= n => stats'[f].today[c] <= LargestCount
      BY <2>1, LargestCountFacts, LimitsType
    <3>3. StartsFromZero(f, Enforced, LargestCount)
      BY <1>3, <2>2, <3>2, LimitsType DEF StartsFromZero
    <3> QED
      BY <1>3, <2>2, <3>1, <3>3
  <2>3. CASE f # u
    <3>1. stats'[f] = stats[f] /\ tracker'[f] = tracker[f] /\ blocked'[f] = blocked[f]
      BY <1>3, <2>3
    <3>2. now' \in Nat /\ now' >= now
      BY <1>3, NowType
    <3>3. CoveredNow(f, Enforced, Limits)'
      BY <3>1, <3>2, LaterCovered DEF TypeOK, CoveredInv
    <3>4. CountFallsOnly(f, Forgiveness + 1, Retention)
      BY <2>1, <3>1 DEF CountFallsOnly
    <3> QED
      BY <3>1, <3>3, <3>4 DEF StartsFromZero
  <2> QED
    BY <2>2, <2>3
<1> QED
  BY <1>4, <1>5 DEF StepOK, CoveredInv

\* The cleanup.
LEMMA CleanupStep ==
    ASSUME TypeOK, CoveredInv, Cleanup
    PROVE  StepOK
<1>1. Forget(Entity, Retention, NoStats)
  BY DEF Cleanup
<1>2. StateOK(Stats)' /\ Registry!Idle
  BY <1>1, NoStatsFacts, ForgetIsIdle DEF TypeOK
<1>3. ASSUME NEW f \in Entity
      PROVE  /\ CoveredNow(f, Enforced, Limits)'
             /\ CountFallsOnly(f, Forgiveness + 1, Retention)
             /\ StartsFromZero(f, Enforced, LargestCount)
  <2>1. /\ CoveredNow(f, Enforced, Limits)'
        /\ \/ stats'[f] = stats[f]
           \/ /\ stats'[f].day = NoDay
              /\ blocked[f] = NoBlock
              /\ now - stats[f].last_api_request_at > Retention
        /\ \A c \in Limits.reset : stats'[f] # stats[f] => stats'[f].today[c] = 0
    <3> HIDE DEF Limits, Counter
    <3>1. Cleaning(Stats, Counter, Entity, Retention, NoStats, Enforced, Limits)
      BY <1>1, UserAssumption, NoStatsFacts, StatsAreStats, LimitsType DEF Cleaning, TypeOK
    <3>2. CoveredNow(f, Enforced, Limits)
      BY DEF CoveredInv
    <3> QED
      BY <3>1, <3>2, ForgetKeeps
  <2>2. stats[f].blocked_count \in Nat
    BY DEF TypeOK, StateOK, Stats
  <2>3. CountFallsOnly(f, Forgiveness + 1, Retention)
    BY <2>1, <2>2 DEF CountFallsOnly
  <2>4. StartsFromZero(f, Enforced, LargestCount)
    BY <2>1, LimitsType, LargestCountFacts DEF StartsFromZero
  <2> QED
    BY <2>1, <2>3, <2>4
<1> QED
  BY <1>2, <1>3 DEF StepOK, CoveredInv, TypeOK, Registry!Next

\* The clock.
LEMMA TickStep ==
    ASSUME TypeOK, CoveredInv, Tick
    PROVE  StepOK
<1>1. StateOK(Stats)' /\ Registry!Tick
  BY TickIsTick DEF TypeOK
<1>2. /\ now' \in Nat /\ now' >= now
      /\ stats' = stats /\ tracker' = tracker /\ blocked' = blocked
  BY NowType DEF Tick
<1>3. ASSUME NEW f \in Entity
      PROVE  /\ CoveredNow(f, Enforced, Limits)'
             /\ CountFallsOnly(f, Forgiveness + 1, Retention)
             /\ StartsFromZero(f, Enforced, LargestCount)
  <2>1. CoveredNow(f, Enforced, Limits)'
    BY <1>2, LaterCovered DEF TypeOK, CoveredInv
  <2>2. stats[f].blocked_count \in Nat
    BY DEF TypeOK, StateOK, Stats
  <2> QED
    BY <1>2, <2>1, <2>2 DEF CountFallsOnly, StartsFromZero
<1> QED
  BY <1>1, <1>3 DEF StepOK, CoveredInv, TypeOK, Registry!Next

\* A step that changes nothing.
LEMMA StutterStep ==
    ASSUME TypeOK, CoveredInv, UNCHANGED vars
    PROVE  StepOK
<1>1. /\ now' = now /\ stats' = stats /\ tracker' = tracker
      /\ blocked' = blocked /\ emitted' = emitted
  BY DEF vars
<1>2. TypeOK'
  BY <1>1 DEF TypeOK, StateOK
<1>3. ASSUME NEW f \in Entity
      PROVE  /\ CoveredNow(f, Enforced, Limits)'
             /\ CountFallsOnly(f, Forgiveness + 1, Retention)
             /\ StartsFromZero(f, Enforced, LargestCount)
  <2>1. CoveredNow(f, Enforced, Limits)'
    BY <1>1, NowType, LaterCovered DEF TypeOK, CoveredInv
  <2>2. stats[f].blocked_count \in Nat
    BY DEF TypeOK, StateOK, Stats
  <2> QED
    BY <1>1, <2>1, <2>2 DEF CountFallsOnly, StartsFromZero
<1> QED
  BY <1>1, <1>2, <1>3 DEF StepOK, CoveredInv

\* Every step keeps the invariant and is one of BlockRegistry.
LEMMA EveryStep ==
    ASSUME TypeOK, CoveredInv, [Next]_vars
    PROVE  StepOK
<1>1. CASE Tick
  BY <1>1, TickStep
<1>2. CASE Cleanup
  BY <1>2, CleanupStep
<1>3. ASSUME NEW u \in Entity,
             \/ IsUserBlocked(u)
             \/ UpdateLatestRequest(u)
             \/ AddBadRequest(u)
             \/ \E c \in Conn : AddWsConnection(u, c) \/ RemoveWsConnection(u, c)
             \/ \E n \in TokenCounts : AddAgentInputTokens(u, n)
             \/ AddAtGeneration(u)
             \/ AddClaimCookieGeneration(u)
      PROVE  StepOK
  <2>1. {"access_tokens_generated", "claim_cookies_generated"} \subseteq Counter \ Enforced
    BY DEF Counter, Enforced
  <2>2. Called(u)
    BY <1>3, <2>1, IsUserBlockedCalled, UpdateLatestRequestCalled, AddBadRequestCalled,
       AddWsConnectionCalled, RemoveWsConnectionCalled, AddAgentInputTokensCalled,
       AddGenerationCalled DEF AddAtGeneration, AddClaimCookieGeneration
  <2> QED
    BY <2>2, CallStep
<1>4. CASE UNCHANGED vars
  BY <1>4, StutterStep
<1> QED
  BY <1>1, <1>2, <1>3, <1>4 DEF Next

\* Initially nothing is counted and what is blocked was loaded.
LEMMA InitFacts ==
    ASSUME Init
    PROVE  TypeOK /\ CoveredInv /\ Registry!Init
<1>1. MinuteLen <= MaxBlock
  BY UserAssumption, CalendarAssumption, BlocksAssumption
<1>2. StateOK(Stats) /\ Registry!Init
  BY <1>1, NoStatsFacts, StartFacts DEF Init
<1>3. CoveredInv
  BY NoStatsFacts, LimitsType, StartCovered DEF Init, CoveredInv
<1> QED
  BY <1>2, <1>3 DEF TypeOK

\* The inductive invariant.
LEMMA Invariant == Spec => [](TypeOK /\ CoveredInv)
<1>1. Init => TypeOK /\ CoveredInv
  BY InitFacts
<1>2. TypeOK /\ CoveredInv /\ [Next]_vars => (TypeOK /\ CoveredInv)'
  BY EveryStep DEF StepOK
<1> QED
  BY <1>1, <1>2, PTL DEF Spec
-------------------------------------------------------------------------------
\* The observer's maps and tasks keep their types (UserObserver's state).
THEOREM TypeCorrect == Spec => []TypeOK
  BY Invariant, PTL

(***************************************************************************)
(* Whoever is past a limit is blocked now (the checks at the end of every  *)
(* update): CoveredInv says it of every second that is left of the day or  *)
(* the minute, of which now is one.                                        *)
(***************************************************************************)
THEOREM OverLimitIsBlockedHolds == Spec => []OverLimitIsBlocked
<1>1. TypeOK /\ CoveredInv => OverLimitIsBlocked
  <2> SUFFICES ASSUME TypeOK, CoveredInv, NEW u \in Entity,
                      \/ /\ stats[u].day = DayKey(now)
                         /\ \E c \in Enforced : stats[u].today[c] > MaxDaily[c]
                      \/ /\ tracker[u].minute = MinuteKey(now)
                         /\ tracker[u].count > MaxPerMinute
               PROVE  blocked[u] > now
    BY DEF OverLimitIsBlocked
  <2>1. DayCovered(Begin(u), now, Enforced, Limits) /\ MinuteCovered(Begin(u), now, Limits)
    BY DEF CoveredInv, CoveredNow, Covered
  <2>2. /\ Begin(u).stats = stats[u] /\ Begin(u).tracker = tracker[u]
        /\ Begin(u).block = blocked[u]
    BY DEF Begin
  <2>3. now \in now .. MaxTime /\ now \in Nat /\ blocked[u] \in Nat
    BY NowType, BeginOpens, BlocksAssumption DEF Time, Block, Until, NoBlock
  <2>4. now < blocked[u]
    BY <2>1, <2>2, <2>3, LimitsType DEF DayCovered, MinuteCovered
  <2> QED
    BY <2>3, <2>4
<1> QED
  BY <1>1, Invariant, PTL

\* Offences, which decide how long the next block lasts, are forgotten only after the
\* forgiveness period or by a cleanup.
THEOREM EscalationKeptHolds == Spec => EscalationKept
<1>1. TypeOK /\ CoveredInv /\ [Next]_vars
          => [\A u \in Entity : CountFallsOnly(u, Forgiveness + 1, Retention)]_vars
  BY EveryStep DEF StepOK
<1> QED
  BY <1>1, Invariant, PTL DEF Spec, EscalationKept

\* What was counted yesterday does not count today.
THEOREM DayStartsFromZeroHolds == Spec => DayStartsFromZero
<1>1. TypeOK /\ CoveredInv /\ [Next]_vars
          => [\A u \in Entity : StartsFromZero(u, Enforced, LargestCount)]_vars
  BY EveryStep DEF StepOK
<1> QED
  BY <1>1, Invariant, PTL DEF Spec, DayStartsFromZero

\* The user observer implements BlockRegistry: no block is lifted or shortened before
\* its time, and the tasks it hands over tell the database what it did.
THEOREM BlocksKeptHolds == Spec => BlocksKept
<1>1. Init => Registry!Init
  BY InitFacts
<1>2. TypeOK /\ CoveredInv /\ [Next]_vars => [Registry!Next]_(Registry!vars)
  BY EveryStep DEF StepOK, Registry!vars
<1> QED
  BY <1>1, <1>2, Invariant, PTL DEF Spec, BlocksKept, Registry!Spec
===============================================================================
