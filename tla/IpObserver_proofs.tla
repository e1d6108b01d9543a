-------------------------- MODULE IpObserver_proofs --------------------------
(***************************************************************************)
(* The IP observer for any addresses, connections, limits and durations.   *)
(***************************************************************************)
EXTENDS IpObserver, ObserverState_proofs

\* The statistics have the fields that the steps of ObserverOps work on.
LEMMA StatsAreStats == StatsType(Stats, Counter)
<1> SUFFICES ASSUME NEW x \in Stats
             PROVE  /\ {"day", "blocked_count", "last_blocked_at", "last_api_request_at", "today"}
                           \subseteq DOMAIN x
                    /\ x.day \in Nat /\ x.blocked_count \in Nat /\ x.last_api_request_at \in Time
                    /\ x.today \in [Counter -> Nat]
                    /\ \A d \in Nat : [x EXCEPT !.day = d] \in Stats
                    /\ \A f \in [Counter -> Nat] : [x EXCEPT !.today = f] \in Stats
                    /\ \A t \in Time : [x EXCEPT !.last_api_request_at = t] \in Stats
                    /\ \A n \in Nat, t \in Time :
                          [x EXCEPT !.blocked_count = n, !.last_blocked_at = t] \in Stats
                    /\ \A d \in Nat, f \in [Counter -> Nat], n \in Nat :
                          [x EXCEPT !.day = d, !.today = f, !.blocked_count = n] \in Stats
  BY DEF StatsType
<1> HIDE DEF Counter
<1> QED
  BY DEF Stats, Time

\* The statistics of an entity that is not known.
LEMMA NoStatsFacts ==
    /\ NoStats \in Stats /\ NoStats.day = NoDay /\ NoStats.blocked_count = 0
    /\ \A c \in Counter : NoStats.today[c] = 0
<1> HIDE DEF Counter
<1> QED
  BY BlocksAssumption DEF NoStats, Stats, NoDay, NoTime

\* What the lemmas of ObserverState_proofs call limits, here those of the IP observer.
Limits == [daily |-> MaxDaily, minute |-> MaxPerMinute, after |-> Forgiveness,
           reset |-> ResetDaily]

Sections(ip, n) == Reached(Stats, Begin(ip), now, ResetDaily, Limits, n)
Updates(ip, D, n) == Updating(Stats, Begin(ip), now, D, Limits, n)

\* The inductive invariant: whoever is past a limit of a day or a minute is blocked
\* for what is left of it.
CoveredInv == \A ip \in Entity : CoveredNow(ip, ResetDaily, Limits)

\* The limits of this observer.
LEMMA LimitsType ==
    /\ Limits \in LimitsFor(Counter) /\ ResetDaily \in SUBSET Counter
    /\ Limits.daily = MaxDaily /\ Limits.minute = MaxPerMinute
    /\ Limits.after = Forgiveness /\ Limits.reset = ResetDaily
  BY IpAssumption, CalendarAssumption DEF Limits, LimitsFor, ResetDaily, Counter

\* The clock begins on day one.
LEMMA NowType == ASSUME TypeOK PROVE now \in Time /\ now \in Nat /\ now >= DayLen
  BY CalendarAssumption, BlocksAssumption DEF TypeOK, StateOK, Time

\* A section opens with an entity that is covered.
LEMMA BeginOpens ==
    ASSUME TypeOK, NEW ip \in Entity
    PROVE  Opening(Begin(ip)) /\ Begin(ip).id = ip /\ Begin(ip).block = blocked[ip]
           /\ blocked[ip] \in Block
<1>1. blocked[ip] \in Block /\ stats[ip] \in Stats
  BY DEF TypeOK, StateOK
<1> QED
  BY <1>1 DEF Begin, Opening, Stats

\* The start of every call.
LEMMA Entering ==
    ASSUME TypeOK, CoveredInv, NEW ip \in Entity
    PROVE  /\ ResetAndUnblock(Begin(ip)) \in Sections(ip, 0)
           /\ Enter(ip) \in Updates(ip, ResetDaily, 0)
<1> DEFINE r == UnblockIfExpired(ResetIfNewDay(Begin(ip), now, ResetDaily, Limits.after), now, 0)
<1>1. Begin(ip) \in Fresh(Stats, ip, blocked[ip], now)
  BY BeginIsFresh DEF TypeOK
<1>2. Covered(Begin(ip), now, ResetDaily, Limits)
  BY DEF CoveredInv, CoveredNow
<1>3. r \in Reached(Stats, Begin(ip), now, ResetDaily, Limits, 0)
      /\ Ensure(r, now) \in Updating(Stats, Begin(ip), now, ResetDaily, Limits, 0)
  BY <1>1, <1>2, StatsAreStats, LimitsType, NowType, BeginOpens, EnterUpdating
<1>4. ResetAndUnblock(Begin(ip)) = r /\ Enter(ip) = Ensure(r, now)
  BY LimitsType DEF ResetAndUnblock, Enter
<1> QED
  BY <1>3, <1>4 DEF Sections, Updates

\* A block for a limit of the day lasts a day at least, any other a minute.
LEMMA IpDurations ==
    ASSUME TypeOK, NEW ip \in Entity, NEW D, NEW n, NEW s \in Updates(ip, D, n)
    PROVE  /\ IpDuration(s) \in MinuteLen .. MaxBlock
           /\ WsDuration(s) \in 1 .. MaxBlock
           /\ TokenDuration(s) \in DayLen .. MaxBlock
<1>1. s.stats.blocked_count \in Nat
  BY SectionFields, StatsAreStats DEF Updates, Updating, Reached
<1> QED
  BY <1>1, LevelType, IpAssumption DEF IpDuration, WsDuration, TokenDuration
-------------------------------------------------------------------------------
(***************************************************************************)
(* Every call ends a section that Sections describes.                      *)
(***************************************************************************)
\* What the steps of an update do, with the constants of the IP observer.
LEMMA UpdateSteps ==
    ASSUME TypeOK, NEW ip \in Entity, NEW D \in SUBSET Counter, NEW n \in Nat,
           NEW s \in Updates(ip, D, n)
    PROVE  /\ \A c \in Counter, k \in Nat :
                 n = 0 => CountToday(s, c, k) \in Updates(ip, D \ {c}, k)
           /\ [s EXCEPT !.stats.last_api_request_at = now] \in Updates(ip, D, n)
           /\ IncrementAndCheckRateLimit(s) \in Updates(ip, D, n)
           /\ \A d \in 1 .. MaxBlock, over \in BOOLEAN :
                 BlockIf(over, s, now, d) \in Updates(ip, D, n)
<1> USE StatsAreStats, LimitsType, NowType, BeginOpens DEF Updates
<1>1. ASSUME NEW c \in Counter, NEW k \in Nat, n = 0
      PROVE  CountToday(s, c, k) \in Updates(ip, D \ {c}, k)
  BY <1>1, CountTodayUpdating
<1>2. [s EXCEPT !.stats.last_api_request_at = now] \in Updates(ip, D, n)
  BY DatedUpdating
<1>3. IncrementAndCheckRateLimit(s) \in Updates(ip, D, n)
  <2> DEFINE m == CountThisMinute(s, now)
  <2>1. IpDuration(m) \in MinuteLen .. MaxBlock
    <3>1. s \in Section(Stats, Begin(ip).id, Begin(ip).block, now)
      BY DEF Updating, Reached
    <3>2. m \in Section(Stats, Begin(ip).id, Begin(ip).block, now)
      BY <3>1, CountThisMinuteSection
    <3>3. m.stats.blocked_count \in Nat
      BY <3>2, SectionFields
    <3> QED
      BY <3>3, LevelType, IpAssumption DEF IpDuration
  <2>2. BlockIf(m.tracker.count > Limits.minute, m, now, IpDuration(m)) \in Updates(ip, D, n)
    BY <2>1, RateLimitUpdating
  <2> QED
    BY <2>2 DEF IncrementAndCheckRateLimit
<1>4. ASSUME NEW d \in 1 .. MaxBlock, NEW over \in BOOLEAN
      PROVE  BlockIf(over, s, now, d) \in Updates(ip, D, n)
  BY BlockIfUpdating
<1> QED
  BY <1>1, <1>2, <1>3, <1>4

\* The check of a limit that blocks for a day or more, at the end of an update.
LEMMA CheckLimit ==
    ASSUME TypeOK, NEW ip \in Entity, NEW c \in ResetDaily, NEW n \in Nat,
           NEW s \in Updates(ip, ResetDaily \ {c}, n), NEW d \in DayLen .. MaxBlock
    PROVE  BlockIf(Over(s, c), s, now, d) \in Updates(ip, ResetDaily, n)
<1>1. BlockIf(s.stats.today[c] > Limits.daily[c], s, now, d) \in Updates(ip, ResetDaily, n)
  BY BlockOverUpdating, StatsAreStats, LimitsType, NowType, BeginOpens DEF Updates
<1> QED
  BY <1>1, LimitsType DEF Over

Called(ip) == \E n \in Nat : \E s \in Sections(ip, n) : Leave(ip, s)

\* An update is a section.
LEMMA UpdatesAreSections ==
    ASSUME NEW ip, NEW n \in Nat, NEW s \in Updates(ip, ResetDaily, n), Leave(ip, s)
    PROVE  Called(ip)
  BY DEF Called, Updates, Sections, Updating

\* The method isIpBlocked: a section of its entity, in the order of the code.
LEMMA IsIpBlockedCalled ==
    ASSUME TypeOK, CoveredInv, NEW ip \in Entity, IsIpBlocked(ip) PROVE Called(ip)
  BY Entering DEF IsIpBlocked, Called

\* The method updateLatestRequest: a section of its entity, in the order of the code.
LEMMA UpdateLatestRequestCalled ==
    ASSUME TypeOK, CoveredInv, NEW ip \in Entity, UpdateLatestRequest(ip) PROVE Called(ip)
<1> DEFINE s0 == CountToday(Enter(ip), "requests", 1)
           d0 == [s0 EXCEPT !.stats.last_api_request_at = now]
           s1 == IncrementAndCheckRateLimit(d0)
           E  == ResetDaily \ {"requests"}
<1>1. E \in SUBSET Counter /\ "requests" \in ResetDaily /\ "requests" \in Counter
      /\ 1 \in Nat
  BY DEF ResetDaily, Counter
<1>2. s0 \in Updates(ip, E, 1)
  BY <1>1, Entering, UpdateSteps, LimitsType
<1>3. d0 \in Updates(ip, E, 1)
  <2> HIDE DEF s0, E
  <2> QED
    BY <1>1, <1>2, UpdateSteps
<1>4. s1 \in Updates(ip, E, 1)
  <2> HIDE DEF d0, E
  <2> QED
    BY <1>1, <1>3, UpdateSteps
<1>5. BlockIf(Over(s1, "requests"), s1, now, DayBlock) \in Updates(ip, ResetDaily, 1)
  <2> HIDE DEF s1
  <2> QED
    BY <1>1, <1>4, CheckLimit, IpAssumption
<1>6. Leave(ip, BlockIf(Over(s1, "requests"), s1, now, DayBlock))
  BY DEF UpdateLatestRequest
<1> QED
  BY <1>1, <1>5, <1>6, UpdatesAreSections

\* The method addBadRequest: a section of its entity, in the order of the code.
LEMMA AddBadRequestCalled ==
    ASSUME TypeOK, CoveredInv, NEW ip \in Entity, AddBadRequest(ip) PROVE Called(ip)
<1> DEFINE s == CountToday(Enter(ip), "bad_requests", 1)
           E == ResetDaily \ {"bad_requests"}
<1>1. E \in SUBSET Counter /\ "bad_requests" \in ResetDaily /\ "bad_requests" \in Counter
      /\ 1 \in Nat
  BY DEF ResetDaily, Counter
<1>2. s \in Updates(ip, E, 1)
  BY <1>1, Entering, UpdateSteps, LimitsType
<1>3. BlockIf(Over(s, "bad_requests"), s, now, DayBlock) \in Updates(ip, ResetDaily, 1)
  <2> HIDE DEF s
  <2> QED
    BY <1>1, <1>2, CheckLimit, IpAssumption
<1> QED
  BY <1>1, <1>3, UpdatesAreSections DEF AddBadRequest

\* Another set of connections is not about the day, the counters or the offences.
LEMMA WithConnections ==
    ASSUME TypeOK, NEW ip \in Entity, NEW n, NEW s \in Sections(ip, n), NEW X \in SUBSET Conn
    PROVE  LET r == [s EXCEPT !.stats.active_ws_connections = X]
           IN  /\ r \in Sections(ip, n)
               /\ s \in Updates(ip, ResetDaily, n) => r \in Updates(ip, ResetDaily, n)
<1> DEFINE new == [s.stats EXCEPT !.active_ws_connections = X]
<1>1. s.stats \in Stats
  BY DEF Sections, Reached, Section
<1>2. new \in Stats
  BY <1>1 DEF Stats
<1>3. new.day = s.stats.day /\ new.today = s.stats.today
      /\ new.blocked_count = s.stats.blocked_count
  BY <1>1 DEF Stats
<1>4. [s EXCEPT !.stats.active_ws_connections = X] = [s EXCEPT !.stats = new]
  OBVIOUS
<1> HIDE DEF new
<1> QED
  BY <1>2, <1>3, <1>4, WithStatsReached, StatsAreStats, NowType DEF Sections, Updates

\* The method addWsConnection: a section of its entity, in the order of the code.
LEMMA AddWsConnectionCalled ==
    ASSUME TypeOK, CoveredInv, NEW ip \in Entity, NEW c \in Conn, AddWsConnection(ip, c)
    PROVE  Called(ip)
<1> DEFINE s0 == Enter(ip)
           X  == s0.stats.active_ws_connections \cup {c}
           s  == [s0 EXCEPT !.stats.active_ws_connections = X]
           over == Cardinality(s.stats.active_ws_connections) > MaxWs
<1>1. s0 \in Updates(ip, ResetDaily, 0) /\ s0 \in Sections(ip, 0)
  BY Entering DEF Updates, Updating, Sections
<1>2. X \in SUBSET Conn
  <2>1. s0.stats \in Stats
    BY <1>1 DEF Sections, Reached, Section
  <2> HIDE DEF s0
  <2> QED
    BY <2>1 DEF Stats
<1>3. s \in Updates(ip, ResetDaily, 0)
  <2> HIDE DEF s0, X
  <2> QED
    BY <1>1, <1>2, WithConnections
<1>4. BlockIf(over, s, now, WsDuration(s)) \in Updates(ip, ResetDaily, 0)
  <2> HIDE DEF s
  <2>1. WsDuration(s) \in 1 .. MaxBlock
    BY <1>3, IpDurations
  <2>2. over \in BOOLEAN /\ ResetDaily \in SUBSET Counter
    BY LimitsType
  <2> HIDE DEF over
  <2> QED
    BY <1>3, <2>1, <2>2, UpdateSteps
<1>5. Leave(ip, BlockIf(over, s, now, WsDuration(s)))
  BY DEF AddWsConnection
<1> QED
  BY <1>4, <1>5, UpdatesAreSections

\* The method removeWsConnection: a section of its entity, in the order of the code.
LEMMA RemoveWsConnectionCalled ==
    ASSUME TypeOK, CoveredInv, NEW ip \in Entity, NEW c \in Conn, RemoveWsConnection(ip, c)
    PROVE  Called(ip)
<1> DEFINE s0 == ResetAndUnblock(Begin(ip))
           X  == s0.stats.active_ws_connections \ {c}
           s  == [s0 EXCEPT !.stats.active_ws_connections = X]
<1>1. s0 \in Sections(ip, 0)
  BY Entering
<1>2. X \in SUBSET Conn
  <2>1. s0.stats \in Stats
    BY <1>1 DEF Sections, Reached, Section
  <2> HIDE DEF s0
  <2> QED
    BY <2>1 DEF Stats
<1>3. s \in Sections(ip, 0)
  <2> HIDE DEF s0, X
  <2> QED
    BY <1>1, <1>2, WithConnections
<1>4. Leave(ip, s)
  BY DEF RemoveWsConnection
<1> QED
  BY <1>3, <1>4 DEF Called

\* The method addAgentInputTokens: a section of its entity, in the order of the code.
LEMMA AddAgentInputTokensCalled ==
    ASSUME TypeOK, CoveredInv, NEW ip \in Entity, NEW n \in TokenCounts, AddAgentInputTokens(ip, n)
    PROVE  Called(ip)
<1> DEFINE c  == "agent_input_tokens"
           s0 == CountToday(Enter(ip), c, n)
           s1 == IncrementAndCheckRateLimit(s0)
           E  == ResetDaily \ {c}
<1>1. E \in SUBSET Counter /\ c \in ResetDaily /\ c \in Counter
      /\ n \in Nat /\ n \in Nat
  BY IpAssumption DEF ResetDaily, Counter
<1>2. s0 \in Updates(ip, E, n)
  BY <1>1, Entering, UpdateSteps, LimitsType
<1>3. s1 \in Updates(ip, E, n)
  <2> HIDE DEF s0, E
  <2> QED
    BY <1>1, <1>2, UpdateSteps
<1>4. BlockIf(Over(s1, c), s1, now, TokenDuration(s1)) \in Updates(ip, ResetDaily, n)
  <2> HIDE DEF s1
  <2>1. TokenDuration(s1) \in DayLen .. MaxBlock
    BY <1>3, IpDurations
  <2> QED
    BY <1>1, <1>3, <2>1, CheckLimit
<1>5. Leave(ip, BlockIf(Over(s1, c), s1, now, TokenDuration(s1)))
  BY DEF AddAgentInputTokens
<1> QED
  BY <1>1, <1>4, <1>5, UpdatesAreSections

\* The method addGeneration: a section of its entity, in the order of the code.
LEMMA AddGenerationCalled ==
    ASSUME TypeOK, CoveredInv, NEW ip \in Entity, NEW c \in Counter \ ResetDaily,
           AddGeneration(ip, c)
    PROVE  Called(ip)
<1> DEFINE s == CountToday(Enter(ip), c, 1)
           over == Over(s, c)
<1>1. ResetDaily \ {c} = ResetDaily /\ ResetDaily \in SUBSET Counter /\ 1 \in Nat
  BY LimitsType
<1>2. s \in Updates(ip, ResetDaily, 1)
  <2>1. s \in Updates(ip, ResetDaily \ {c}, 1)
    BY <1>1, Entering, UpdateSteps
  <2> QED
    BY <1>1, <2>1
<1>3. BlockIf(over, s, now, IpDuration(s)) \in Updates(ip, ResetDaily, 1)
  <2> HIDE DEF s
  <2>1. IpDuration(s) \in 1 .. MaxBlock
    BY <1>2, IpDurations, CalendarAssumption
  <2>2. over \in BOOLEAN
    BY DEF Over
  <2> HIDE DEF over
  <2> QED
    BY <1>1, <1>2, <2>1, <2>2, UpdateSteps
<1>4. Leave(ip, BlockIf(over, s, now, IpDuration(s)))
  BY DEF AddGeneration
<1> QED
  BY <1>1, <1>3, <1>4, UpdatesAreSections
-------------------------------------------------------------------------------
(***************************************************************************)
(* The steps of the observer, and what they preserve.                      *)
(***************************************************************************)
\* What every step does: it keeps types and coverage, is one of BlockRegistry's,
\* and lets offences fall only as they may.
StepOK ==
    /\ TypeOK' /\ CoveredInv'
    /\ Registry!Next \/ UNCHANGED <<now, blocked, emitted>>
    /\ \A ip \in Entity : CountFallsOnly(ip, Forgiveness, Retention)

\* Whatever the method: a call of BlockRegistry, after which its entity is covered.
LEMMA CallStep ==
    ASSUME TypeOK, CoveredInv, NEW ip \in Entity, Called(ip)
    PROVE  StepOK
<1>1. PICK n \in Nat : \E s \in Sections(ip, n) : Leave(ip, s)
  BY DEF Called
<1>2. PICK s \in Sections(ip, n) : Leave(ip, s)
  BY <1>1
<1>3. /\ StateOK(Stats)' /\ Registry!Call(ip) /\ CoveredNow(ip, ResetDaily, Limits)'
      /\ \A f \in Entity \ {ip} :
            stats'[f] = stats[f] /\ tracker'[f] = tracker[f] /\ blocked'[f] = blocked[f]
      /\ now' = now
      /\ \/ stats'[ip].blocked_count >= stats[ip].blocked_count
         \/ /\ stats[ip].day # DayKey(now)
            /\ now - stats[ip].last_blocked_at >= Limits.after
  BY <1>2, LeaveReached, StatsAreStats DEF Sections, TypeOK
<1>4. TypeOK' /\ Registry!Next
  BY <1>3 DEF TypeOK, Registry!Next
<1>5. ASSUME NEW f \in Entity
      PROVE  /\ CoveredNow(f, ResetDaily, Limits)'
             /\ CountFallsOnly(f, Forgiveness, Retention)
  <2>1. /\ stats[f].blocked_count \in Nat /\ stats'[f].blocked_count \in Nat
        /\ stats'[f].today \in [Counter -> Nat]
    BY <1>4 DEF TypeOK, StateOK, Stats
  <2>2. CASE f = ip
    <3>1. CountFallsOnly(f, Forgiveness, Retention)
      BY <1>3, <2>1, <2>2, LimitsType DEF CountFallsOnly
    <3> QED
      BY <1>3, <2>2, <3>1
  <2>3. CASE f # ip
    <3>1. stats'[f] = stats[f] /\ tracker'[f] = tracker[f] /\ blocked'[f] = blocked[f]
      BY <1>3, <2>3
    <3>2. now' \in Nat /\ now' >= now
      BY <1>3, NowType
    <3>3. CoveredNow(f, ResetDaily, Limits)'
      BY <3>1, <3>2, LaterCovered DEF TypeOK, CoveredInv
    <3>4. CountFallsOnly(f, Forgiveness, Retention)
      BY <2>1, <3>1 DEF CountFallsOnly
    <3> QED
      BY <3>1, <3>3, <3>4
  <2> QED
    BY <2>2, <2>3
<1> QED
  BY <1>4, <1>5 DEF StepOK, CoveredInv

\* The cleanup.
LEMMA CleanupStep ==
    ASSUME TypeOK, CoveredInv, Cleanup
    PROVE  StepOK
<1>1. Forget(Entity, Retention, NoStats)
  BY DEF Cleanup
<1>2. StateOK(Stats)' /\ Registry!Idle
  BY <1>1, NoStatsFacts, ForgetIsIdle DEF TypeOK
<1>3. ASSUME NEW f \in Entity
      PROVE  /\ CoveredNow(f, ResetDaily, Limits)'
             /\ CountFallsOnly(f, Forgiveness, Retention)
  <2>1. /\ CoveredNow(f, ResetDaily, Limits)'
        /\ \/ stats'[f] = stats[f]
           \/ /\ stats'[f].day = NoDay
              /\ blocked[f] = NoBlock
              /\ now - stats[f].last_api_request_at > Retention
        /\ \A c \in Limits.reset : stats'[f] # stats[f] => stats'[f].today[c] = 0
    <3> HIDE DEF Limits, Counter
    <3>1. Cleaning(Stats, Counter, Entity, Retention, NoStats, ResetDaily, Limits)
      BY <1>1, IpAssumption, NoStatsFacts, StatsAreStats, LimitsType DEF Cleaning, TypeOK
    <3>2. CoveredNow(f, ResetDaily, Limits)
      BY DEF CoveredInv
    <3> QED
      BY <3>1, <3>2, ForgetKeeps
  <2>2. stats[f].blocked_count \in Nat
    BY DEF TypeOK, StateOK, Stats
  <2>3. CountFallsOnly(f, Forgiveness, Retention)
    BY <2>1, <2>2 DEF CountFallsOnly
  <2> QED
    BY <2>1, <2>3
<1> QED
  BY <1>2, <1>3 DEF StepOK, CoveredInv, TypeOK, Registry!Next

\* The clock.
LEMMA TickStep ==
    ASSUME TypeOK, CoveredInv, Tick
    PROVE  StepOK
<1>1. StateOK(Stats)' /\ Registry!Tick
  BY TickIsTick DEF TypeOK
<1>2. /\ now' \in Nat /\ now' >= now
      /\ stats' = stats /\ tracker' = tracker /\ blocked' = blocked
  BY NowType DEF Tick
<1>3. ASSUME NEW f \in Entity
      PROVE  /\ CoveredNow(f, ResetDaily, Limits)'
             /\ CountFallsOnly(f, Forgiveness, Retention)
  <2>1. CoveredNow(f, ResetDaily, Limits)'
    BY <1>2, LaterCovered DEF TypeOK, CoveredInv
  <2>2. stats[f].blocked_count \in Nat
    BY DEF TypeOK, StateOK, Stats
  <2> QED
    BY <1>2, <2>1, <2>2 DEF CountFallsOnly
<1> QED
  BY <1>1, <1>3 DEF StepOK, CoveredInv, TypeOK, Registry!Next

\* A step that changes nothing.
LEMMA StutterStep ==
    ASSUME TypeOK, CoveredInv, UNCHANGED vars
    PROVE  StepOK
<1>1. /\ now' = now /\ stats' = stats /\ tracker' = tracker
      /\ blocked' = blocked /\ emitted' = emitted
  BY DEF vars
<1>2. TypeOK'
  BY <1>1 DEF TypeOK, StateOK
<1>3. ASSUME NEW f \in Entity
      PROVE  /\ CoveredNow(f, ResetDaily, Limits)'
             /\ CountFallsOnly(f, Forgiveness, Retention)
  <2>1. CoveredNow(f, ResetDaily, Limits)'
    BY <1>1, NowType, LaterCovered DEF TypeOK, CoveredInv
  <2>2. stats[f].blocked_count \in Nat
    BY DEF TypeOK, StateOK, Stats
  <2> QED
    BY <1>1, <2>1, <2>2 DEF CountFallsOnly
<1> QED
  BY <1>1, <1>2, <1>3 DEF StepOK, CoveredInv

\* Every step keeps the invariant and is one of BlockRegistry.
LEMMA EveryStep ==
    ASSUME TypeOK, CoveredInv, [Next]_vars
    PROVE  StepOK
<1>1. CASE Tick
  BY <1>1, TickStep
<1>2. CASE Cleanup
  BY <1>2, CleanupStep
<1>3. ASSUME NEW ip \in Entity,
             \/ IsIpBlocked(ip)
             \/ UpdateLatestRequest(ip)
             \/ AddBadRequest(ip)
             \/ \E c \in Conn : AddWsConnection(ip, c) \/ RemoveWsConnection(ip, c)
             \/ \E n \in TokenCounts : AddAgentInputTokens(ip, n)
             \/ AddRtGeneration(ip)
             \/ AddClaimCookieGeneration(ip)
      PROVE  StepOK
  <2>1. {"refresh_tokens_generated", "claim_cookies_generated"} \subseteq Counter \ ResetDaily
    BY DEF Counter, ResetDaily
  <2>2. Called(ip)
    BY <1>3, <2>1, IsIpBlockedCalled, UpdateLatestRequestCalled, AddBadRequestCalled,
       AddWsConnectionCalled, RemoveWsConnectionCalled, AddAgentInputTokensCalled,
       AddGenerationCalled DEF AddRtGeneration, AddClaimCookieGeneration
  <2> QED
    BY <2>2, CallStep
<1>4. CASE UNCHANGED vars
  BY <1>4, StutterStep
<1> QED
  BY <1>1, <1>2, <1>3, <1>4 DEF Next

\* Initially nothing is counted and what is blocked was loaded.
LEMMA InitFacts ==
    ASSUME Init
    PROVE  TypeOK /\ CoveredInv /\ Registry!Init
<1>1. MinuteLen <= MaxBlock
  BY IpAssumption, CalendarAssumption, BlocksAssumption
<1>2. StateOK(Stats) /\ Registry!Init
  BY <1>1, NoStatsFacts, StartFacts DEF Init
<1>3. CoveredInv
  BY NoStatsFacts, LimitsType, StartCovered DEF Init, CoveredInv
<1> QED
  BY <1>2, <1>3 DEF TypeOK

\* The inductive invariant.
LEMMA Invariant == Spec => [](TypeOK /\ CoveredInv)
<1>1. Init => TypeOK /\ CoveredInv
  BY InitFacts
<1>2. TypeOK /\ CoveredInv /\ [Next]_vars => (TypeOK /\ CoveredInv)'
  BY EveryStep DEF StepOK
<1> QED
  BY <1>1, <1>2, PTL DEF Spec
-------------------------------------------------------------------------------
\* The observer's maps and tasks keep their types (IpObserver's state).
THEOREM TypeCorrect == Spec => []TypeOK
  BY Invariant, PTL

(***************************************************************************)
(* Whoever is past a limit is blocked now (the checks at the end of every  *)
(* update): CoveredInv says it of every second that is left of the day or  *)
(* the minute, of which now is one.                                        *)
(***************************************************************************)
THEOREM OverLimitIsBlockedHolds == Spec => []OverLimitIsBlocked
<1>1. TypeOK /\ CoveredInv => OverLimitIsBlocked
  <2> SUFFICES ASSUME TypeOK, CoveredInv, NEW ip \in Entity,
                      \/ /\ stats[ip].day = DayKey(now)
                         /\ \E c \in ResetDaily : stats[ip].today[c] > MaxDaily[c]
                      \/ /\ tracker[ip].minute = MinuteKey(now)
                         /\ tracker[ip].count > MaxPerMinute
               PROVE  blocked[ip] > now
    BY DEF OverLimitIsBlocked
  <2>1. DayCovered(Begin(ip), now, ResetDaily, Limits) /\ MinuteCovered(Begin(ip), now, Limits)
    BY DEF CoveredInv, CoveredNow, Covered
  <2>2. /\ Begin(ip).stats = stats[ip] /\ Begin(ip).tracker = tracker[ip]
        /\ Begin(ip).block = blocked[ip]
    BY DEF Begin
  <2>3. now \in now .. MaxTime /\ now \in Nat /\ blocked[ip] \in Nat
    BY NowType, BeginOpens, BlocksAssumption DEF Time, Block, Until, NoBlock
  <2>4. now < blocked[ip]
    BY <2>1, <2>2, <2>3, LimitsType DEF DayCovered, MinuteCovered
  <2> QED
    BY <2>3, <2>4
<1> QED
  BY <1>1, Invariant, PTL

\* Offences, which decide how long the next block lasts, are forgotten only after the
\* forgiveness period or by a cleanup.
THEOREM EscalationKeptHolds == Spec => EscalationKept
<1>1. TypeOK /\ CoveredInv /\ [Next]_vars
          => [\A ip \in Entity : CountFallsOnly(ip, Forgiveness, Retention)]_vars
  BY EveryStep DEF StepOK
<1> QED
  BY <1>1, Invariant, PTL DEF Spec, EscalationKept

\* The IP observer implements BlockRegistry: no block is lifted or shortened before
\* its time, and the tasks it hands over tell the database what it did.
THEOREM BlocksKeptHolds == Spec => BlocksKept
<1>1. Init => Registry!Init
  BY InitFacts
<1>2. TypeOK /\ CoveredInv /\ [Next]_vars => [Registry!Next]_(Registry!vars)
  BY EveryStep DEF StepOK, Registry!vars
<1> QED
  BY <1>1, <1>2, Invariant, PTL DEF Spec, BlocksKept, Registry!Spec
===============================================================================
