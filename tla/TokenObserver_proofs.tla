------------------------- MODULE TokenObserver_proofs -------------------------
(***************************************************************************)
(* The token observer for any tokens of either kind, limits and durations. *)
(***************************************************************************)
EXTENDS TokenObserver, ObserverState_proofs

\* The statistics have the fields that the steps of ObserverOps work on.
LEMMA StatsAreStats == StatsType(Stats, Counter)
<1> SUFFICES ASSUME NEW x \in Stats
             PROVE  /\ {"day", "blocked_count", "last_blocked_at", "last_api_request_at", "today"}
                           \subseteq DOMAIN x
                    /\ x.day \in Nat /\ x.blocked_count \in Nat /\ x.last_api_request_at \in Time
                    /\ x.today \in [Counter -> Nat]
                    /\ \A d \in Nat : [x EXCEPT !.day = d] \in Stats
                    /\ \A f \in [Counter -> Nat] : [x EXCEPT !.today = f] \in Stats
                    /\ \A t \in Time : [x EXCEPT !.last_api_request_at = t] \in Stats
                    /\ \A n \in Nat, t \in Time :
                          [x EXCEPT !.blocked_count = n, !.last_blocked_at = t] \in Stats
                    /\ \A d \in Nat, f \in [Counter -> Nat], n \in Nat :
                          [x EXCEPT !.day = d, !.today = f, !.blocked_count = n] \in Stats
  BY DEF StatsType
<1> HIDE DEF Counter
<1> QED
  BY DEF Stats, Time

\* The statistics of an entity that is not known.
LEMMA NoStatsFacts ==
    /\ NoStats \in Stats /\ NoStats.day = NoDay /\ NoStats.blocked_count = 0
    /\ \A c \in Counter : NoStats.today[c] = 0
<1> HIDE DEF Counter
<1> QED
  BY BlocksAssumption DEF NoStats, Stats, NoDay, NoTime

\* What the lemmas of ObserverState_proofs call limits, here those of a token, ...
Limits(k) == [daily |-> MaxDaily, minute |-> MinuteLimit(k), after |-> Forgiveness + 1,
              reset |-> ResetDaily]

\* ... and the daily ones that block it for a day or more: none of a refresh token's.
Daily(k) == IF k \in AccessToken THEN ResetDaily ELSE {}

Sections(k, n) == Reached(Stats, Begin(k), now, Daily(k), Limits(k), n)
Updates(k, D, n) == Updating(Stats, Begin(k), now, D, Limits(k), n)

\* The inductive invariant: a token past a limit of a day or a minute is blocked for
\* what is left of it.
CoveredInv == \A k \in Entity : CoveredNow(k, Daily(k), Limits(k))

RetentionOf(k) == IF k \in RefreshToken THEN RtRetention ELSE AtRetention

\* Refresh and access tokens.
LEMMA Kinds ==
    /\ RefreshToken \subseteq Entity /\ AccessToken \subseteq Entity
    /\ \A k \in AccessToken : k \notin RefreshToken /\ Daily(k) = ResetDaily
    /\ \A k \in Entity : k \in RefreshToken \/ k \in AccessToken
  BY TokenAssumption DEF Daily

\* The limits of this observer.
LEMMA LimitsType ==
    ASSUME NEW k
    PROVE  /\ Limits(k) \in LimitsFor(Counter) /\ ResetDaily \in SUBSET Counter
           /\ Daily(k) \in SUBSET Counter /\ Daily(k) \subseteq ResetDaily
           /\ Limits(k).daily = MaxDaily /\ Limits(k).minute = MinuteLimit(k)
           /\ Limits(k).after = Forgiveness + 1 /\ Limits(k).reset = ResetDaily
<1>1. MinuteLimit(k) \in Nat
  BY TokenAssumption DEF MinuteLimit
<1>2. ResetDaily \in SUBSET Counter
  BY DEF ResetDaily, Counter
<1> QED
  BY <1>1, <1>2, TokenAssumption, CalendarAssumption DEF Limits, LimitsFor, Daily

\* The clock begins on day one.
LEMMA NowType == ASSUME TypeOK PROVE now \in Time /\ now \in Nat /\ now >= DayLen
  BY CalendarAssumption, BlocksAssumption DEF TypeOK, StateOK, Time

\* A section opens with an entity that is covered.
LEMMA BeginOpens ==
    ASSUME TypeOK, NEW k \in Entity
    PROVE  Opening(Begin(k)) /\ Begin(k).id = k /\ Begin(k).block = blocked[k]
           /\ blocked[k] \in Block
<1>1. blocked[k] \in Block /\ stats[k] \in Stats
  BY DEF TypeOK, StateOK
<1> QED
  BY <1>1 DEF Begin, Opening, Stats

\* The start of every call.
LEMMA Entering ==
    ASSUME TypeOK, CoveredInv, NEW k \in Entity
    PROVE  /\ ResetAndUnblock(Begin(k)) \in Sections(k, 0)
           /\ Enter(k) \in Updates(k, Daily(k), 0)
<1> DEFINE r == UnblockIfExpired(ResetIfNewDay(Begin(k), now, ResetDaily, Limits(k).after), now, 1)
<1>1. Begin(k) \in Fresh(Stats, k, blocked[k], now)
  BY BeginIsFresh DEF TypeOK
<1>2. Covered(Begin(k), now, Daily(k), Limits(k))
  BY DEF CoveredInv, CoveredNow
<1>3. r \in Reached(Stats, Begin(k), now, Daily(k), Limits(k), 0)
      /\ Ensure(r, now) \in Updating(Stats, Begin(k), now, Daily(k), Limits(k), 0)
  BY <1>1, <1>2, StatsAreStats, LimitsType, NowType, BeginOpens, EnterUpdating
<1>4. ResetAndUnblock(Begin(k)) = r /\ Enter(k) = Ensure(r, now)
  BY LimitsType DEF ResetAndUnblock, Enter
<1> QED
  BY <1>3, <1>4 DEF Sections, Updates

\* The blocks of an update last as long as their limits need.
LEMMA TokenDurations ==
    ASSUME NEW e, NEW b, NEW t, NEW s \in Section(Stats, e, b, t)
    PROVE  /\ RtDuration(s) \in 1 .. MaxBlock
           /\ TokenDuration(s) \in DayLen .. MaxBlock
           /\ MinuteDuration(s) \in MinuteLen .. MaxBlock
           /\ AtBlock \in 1 .. MaxBlock
<1>1. s.stats.blocked_count \in Nat
  BY SectionFields, StatsAreStats
<1>2. /\ RtDuration(s) \in MinuteLen .. MaxBlock /\ TokenDuration(s) \in DayLen .. MaxBlock
  BY <1>1, LevelType, TokenAssumption DEF RtDuration, TokenDuration
<1>3. AtBlock \in MinuteLen .. MaxBlock /\ AtBlock \in 1 .. MaxBlock
  BY TokenAssumption, CalendarAssumption
<1> QED
  BY <1>2, <1>3, CalendarAssumption DEF MinuteDuration
-------------------------------------------------------------------------------
(***************************************************************************)
(* Every call ends a section that Sections describes.                      *)
(***************************************************************************)
LEMMA UpdatesAreInSection ==
    ASSUME NEW k, NEW D, NEW n, NEW s \in Updates(k, D, n)
    PROVE  s \in Section(Stats, Begin(k).id, Begin(k).block, now)
  BY DEF Updates, Updating, Reached

\* What the steps of an update do, with the constants of the token observer.
LEMMA UpdateSteps ==
    ASSUME TypeOK, NEW k \in Entity, NEW D \in SUBSET Counter, NEW n \in Nat,
           NEW s \in Updates(k, D, n)
    PROVE  /\ \A c \in Counter, i \in Nat :
                 n = 0 => CountToday(s, c, i) \in Updates(k, D \ {c}, i)
           /\ [s EXCEPT !.stats.last_api_request_at = now] \in Updates(k, D, n)
           /\ IncrementAndCheckRateLimit(s) \in Updates(k, D, n)
           /\ \A d \in 1 .. MaxBlock, over \in BOOLEAN :
                 BlockIf(over, s, now, d) \in Updates(k, D, n)
<1> USE StatsAreStats, LimitsType, NowType, BeginOpens DEF Updates
<1>1. ASSUME NEW c \in Counter, NEW i \in Nat, n = 0
      PROVE  CountToday(s, c, i) \in Updates(k, D \ {c}, i)
  BY <1>1, CountTodayUpdating
<1>2. [s EXCEPT !.stats.last_api_request_at = now] \in Updates(k, D, n)
  BY DatedUpdating
<1>3. IncrementAndCheckRateLimit(s) \in Updates(k, D, n)
  <2> DEFINE m == CountThisMinute(s, now)
  <2>1. s \in Section(Stats, Begin(k).id, Begin(k).block, now)
    BY UpdatesAreInSection
  <2>2. m \in Section(Stats, Begin(k).id, Begin(k).block, now)
    BY <2>1, CountThisMinuteSection
  <2>3. MinuteDuration(m) \in MinuteLen .. MaxBlock
    BY <2>2, TokenDurations
  <2>4. BlockIf(m.tracker.count > Limits(k).minute, m, now, MinuteDuration(m)) \in Updates(k, D, n)
    BY <2>3, RateLimitUpdating
  <2>5. s.id = k
    BY <2>1, SectionFields
  <2> QED
    BY <2>4, <2>5 DEF IncrementAndCheckRateLimit
<1>4. ASSUME NEW d \in 1 .. MaxBlock, NEW over \in BOOLEAN
      PROVE  BlockIf(over, s, now, d) \in Updates(k, D, n)
  BY BlockIfUpdating
<1> QED
  BY <1>1, <1>2, <1>3, <1>4

\* The check of a limit that blocks for a day or more, at the end of an update.
LEMMA CheckLimit ==
    ASSUME TypeOK, NEW k \in AccessToken, NEW c \in ResetDaily, NEW n \in Nat,
           NEW s \in Updates(k, ResetDaily \ {c}, n), NEW d \in DayLen .. MaxBlock
    PROVE  BlockIf(Over(s, c), s, now, d) \in Updates(k, Daily(k), n)
<1>1. k \in Entity /\ Daily(k) = ResetDaily
  BY Kinds
<1>2. BlockIf(s.stats.today[c] > Limits(k).daily[c], s, now, d) \in Updates(k, ResetDaily, n)
  BY <1>1, BlockOverUpdating, StatsAreStats, LimitsType, NowType, BeginOpens DEF Updates
<1> QED
  BY <1>1, <1>2, LimitsType DEF Over

Called(k) == \E n \in Nat : \E s \in Sections(k, n) : Leave(k, s)

\* An update is a section.
LEMMA UpdatesAreSections ==
    ASSUME NEW k, NEW n \in Nat, NEW s \in Updates(k, Daily(k), n), Leave(k, s)
    PROVE  Called(k)
  BY DEF Called, Updates, Sections, Updating

\* The method isTokenBlocked: a section of its entity, in the order of the code.
LEMMA IsTokenBlockedCalled ==
    ASSUME TypeOK, CoveredInv, NEW k \in Entity, IsTokenBlocked(k) PROVE Called(k)
  BY Entering DEF IsTokenBlocked, Called

\* Counting a token's request.
LEMMA CountRequestUpdates ==
    ASSUME TypeOK, CoveredInv, NEW k \in Entity
    PROVE  CountRequest(k) \in Updates(k, Daily(k), 1)
<1> DEFINE s == CountToday(Enter(k), "requests", 1)
           d == [s EXCEPT !.stats.last_api_request_at = now]
<1>1. Daily(k) \ {"requests"} = Daily(k) /\ Daily(k) \in SUBSET Counter /\ "requests" \in Counter
  BY DEF Daily, ResetDaily, Counter
<1>2. s \in Updates(k, Daily(k) \ {"requests"}, 1)
  BY <1>1, Entering, UpdateSteps
<1>3. d \in Updates(k, Daily(k), 1)
  <2> HIDE DEF s
  <2> QED
    BY <1>1, <1>2, UpdateSteps
<1>4. IncrementAndCheckRateLimit(d) \in Updates(k, Daily(k), 1)
  <2> HIDE DEF d
  <2> QED
    BY <1>1, <1>3, UpdateSteps
<1> QED
  BY <1>4 DEF CountRequest

\* A token's requests are counted for good, so that their limit is not a daily one.
LEMMA UpdateLatestUsageCalled ==
    ASSUME TypeOK, CoveredInv, NEW k \in Entity, UpdateLatestRtUsage(k) \/ UpdateLatestAtUsage(k)
    PROVE  Called(k)
<1> DEFINE s == CountRequest(k)
<1>1. s \in Updates(k, Daily(k), 1)
  BY CountRequestUpdates
<1>2. RtDuration(s) \in 1 .. MaxBlock /\ AtBlock \in 1 .. MaxBlock
  <2> HIDE DEF s
  <2> QED
    BY <1>1, UpdatesAreInSection, TokenDurations
<1>3. PICK over \in BOOLEAN, d \in 1 .. MaxBlock : Leave(k, BlockIf(over, s, now, d))
  <2>1. /\ (s.stats.today["requests"] > MaxRtRequests) \in BOOLEAN
        /\ Over(s, "requests") \in BOOLEAN
    BY DEF Over
  <2> QED
    BY <1>2, <2>1 DEF UpdateLatestRtUsage, UpdateLatestAtUsage
<1>4. BlockIf(over, s, now, d) \in Updates(k, Daily(k), 1)
  <2> HIDE DEF s
  <2> QED
    BY <1>1, UpdateSteps, LimitsType
<1> QED
  BY <1>3, <1>4, UpdatesAreSections

\* The method countAndBlock: a section of its entity, in the order of the code.
LEMMA CountAndBlockCalled ==
    ASSUME TypeOK, CoveredInv, NEW k \in AccessToken, NEW c \in ResetDaily, CountAndBlock(k, c)
    PROVE  Called(k)
<1> DEFINE s == CountToday(Enter(k), c, 1)
           E == ResetDaily \ {c}
<1>1. /\ k \in Entity /\ Daily(k) = ResetDaily /\ c \in Counter
      /\ ResetDaily \in SUBSET Counter
  BY Kinds, LimitsType
<1>2. s \in Updates(k, E, 1)
  BY <1>1, Entering, UpdateSteps
<1>3. BlockIf(Over(s, c), s, now, AtBlock) \in Updates(k, Daily(k), 1)
  <2> HIDE DEF s
  <2> QED
    BY <1>2, CheckLimit, TokenAssumption
<1>4. Leave(k, BlockIf(Over(s, c), s, now, AtBlock))
  BY DEF CountAndBlock
<1> QED
  BY <1>3, <1>4, UpdatesAreSections

\* The method addAtAgentInputTokens: a section of its entity, in the order of the code.
LEMMA AddAtAgentInputTokensCalled ==
    ASSUME TypeOK, CoveredInv, NEW k \in AccessToken, NEW n \in TokenCounts,
           AddAtAgentInputTokens(k, n)
    PROVE  Called(k)
<1> DEFINE c  == "agent_input_tokens"
           s0 == CountToday(Enter(k), c, n)
           s1 == IncrementAndCheckRateLimit(s0)
           E  == ResetDaily \ {c}
<1>1. E \in SUBSET Counter /\ c \in ResetDaily /\ c \in Counter /\ n \in Nat
      /\ k \in Entity /\ Daily(k) = ResetDaily /\ ResetDaily \in SUBSET Counter
  BY Kinds, TokenAssumption DEF ResetDaily, Counter
<1>2. s0 \in Updates(k, E, n)
  BY <1>1, Entering, UpdateSteps
<1>3. s1 \in Updates(k, E, n)
  <2> HIDE DEF s0, E
  <2> QED
    BY <1>1, <1>2, UpdateSteps
<1>4. BlockIf(Over(s1, c), s1, now, TokenDuration(s1)) \in Updates(k, Daily(k), n)
  <2> HIDE DEF s1
  <2>1. TokenDuration(s1) \in DayLen .. MaxBlock
    BY <1>3, UpdatesAreInSection, TokenDurations
  <2> QED
    BY <1>1, <1>3, <2>1, CheckLimit
<1>5. Leave(k, BlockIf(Over(s1, c), s1, now, TokenDuration(s1)))
  BY DEF AddAtAgentInputTokens
<1> QED
  BY <1>1, <1>4, <1>5, UpdatesAreSections
-------------------------------------------------------------------------------
(***************************************************************************)
(* The steps of the observer, and what they preserve.                      *)
(***************************************************************************)
\* What every step does: it keeps types and coverage, is one of BlockRegistry's,
\* and lets offences fall only as they may.
StepOK ==
    /\ TypeOK' /\ CoveredInv'
    /\ Registry!Next \/ UNCHANGED <<now, blocked, emitted>>
    /\ \A k \in Entity : CountFallsOnly(k, Forgiveness + 1, RetentionOf(k))

\* Whatever the method: a call of BlockRegistry, after which its entity is covered.
LEMMA CallStep ==
    ASSUME TypeOK, CoveredInv, NEW k \in Entity, Called(k)
    PROVE  StepOK
<1>1. PICK n \in Nat : \E s \in Sections(k, n) : Leave(k, s)
  BY DEF Called
<1>2. PICK s \in Sections(k, n) : Leave(k, s)
  BY <1>1
<1>3. /\ StateOK(Stats)' /\ Registry!Call(k) /\ CoveredNow(k, Daily(k), Limits(k))'
      /\ \A f \in Entity \ {k} :
            stats'[f] = stats[f] /\ tracker'[f] = tracker[f] /\ blocked'[f] = blocked[f]
      /\ now' = now
      /\ \/ stats'[k].blocked_count >= stats[k].blocked_count
         \/ /\ stats[k].day # DayKey(now)
            /\ now - stats[k].last_blocked_at >= Forgiveness + 1
  BY <1>2, LeaveReached, StatsAreStats, LimitsType DEF Sections, TypeOK
<1>4. TypeOK' /\ Registry!Next
  BY <1>3 DEF TypeOK, Registry!Next
<1>5. ASSUME NEW f \in Entity
      PROVE  /\ CoveredNow(f, Daily(f), Limits(f))'
             /\ CountFallsOnly(f, Forgiveness + 1, RetentionOf(f))
  <2>1. /\ stats[f].blocked_count \in Nat /\ stats'[f].blocked_count \in Nat
        /\ stats'[f].today \in [Counter -> Nat]
    BY <1>4 DEF TypeOK, StateOK, Stats
  <2>2. CASE f = k
    <3>1. CountFallsOnly(f, Forgiveness + 1, RetentionOf(f))
      BY <1>3, <2>1, <2>2, LimitsType DEF CountFallsOnly
    <3> QED
      BY <1>3, <2>2, <3>1
  <2>3. CASE f # k
    <3>1. stats'[f] = stats[f] /\ tracker'[f] = tracker[f] /\ blocked'[f] = blocked[f]
      BY <1>3, <2>3
    <3>2. now' \in Nat /\ now' >= now
      BY <1>3, NowType
    <3>3. CoveredNow(f, Daily(f), Limits(f))'
      BY <3>1, <3>2, LaterCovered DEF TypeOK, CoveredInv
    <3>4. CountFallsOnly(f, Forgiveness + 1, RetentionOf(f))
      BY <2>1, <3>1 DEF CountFallsOnly
    <3> QED
      BY <3>1, <3>3, <3>4
  <2> QED
    BY <2>2, <2>3
<1> QED
  BY <1>4, <1>5 DEF StepOK, CoveredInv

\* The cleanup.
LEMMA CleanupStep ==
    ASSUME TypeOK, CoveredInv, RtCleanup \/ AtCleanup
    PROVE  StepOK
<1>1. PICK kind \in {RefreshToken, AccessToken}, retention \in {RtRetention, AtRetention} :
        /\ Forget(kind, retention, NoStats)
        /\ \A k \in kind : retention = RetentionOf(k)
  BY Kinds DEF RtCleanup, AtCleanup, RetentionOf
<1>2. kind \in SUBSET Entity /\ retention \in Nat
  BY <1>1, Kinds, TokenAssumption
<1>3. StateOK(Stats)' /\ Registry!Idle
  BY <1>1, <1>2, NoStatsFacts, ForgetIsIdle DEF TypeOK
<1>4. ASSUME NEW f \in Entity
      PROVE  /\ CoveredNow(f, Daily(f), Limits(f))'
             /\ CountFallsOnly(f, Forgiveness + 1, RetentionOf(f))
  <2>1. /\ CoveredNow(f, Daily(f), Limits(f))'
        /\ \/ stats'[f] = stats[f]
           \/ /\ f \in kind /\ stats'[f].day = NoDay
              /\ blocked[f] = NoBlock
              /\ now - stats[f].last_api_request_at > retention
    <3> HIDE DEF Limits, Counter, Daily
    <3>1. Cleaning(Stats, Counter, kind, retention, NoStats, Daily(f), Limits(f))
      BY <1>1, <1>2, NoStatsFacts, StatsAreStats, LimitsType DEF Cleaning, TypeOK
    <3>2. CoveredNow(f, Daily(f), Limits(f))
      BY DEF CoveredInv
    <3> QED
      BY <3>1, <3>2, ForgetKeeps
  <2>2. stats[f].blocked_count \in Nat
    BY DEF TypeOK, StateOK, Stats
  <2>3. CountFallsOnly(f, Forgiveness + 1, RetentionOf(f))
    BY <1>1, <2>1, <2>2 DEF CountFallsOnly
  <2> QED
    BY <2>1, <2>3
<1> QED
  BY <1>3, <1>4 DEF StepOK, CoveredInv, TypeOK, Registry!Next

\* The clock.
LEMMA TickStep ==
    ASSUME TypeOK, CoveredInv, Tick
    PROVE  StepOK
<1>1. StateOK(Stats)' /\ Registry!Tick
  BY TickIsTick DEF TypeOK
<1>2. /\ now' \in Nat /\ now' >= now
      /\ stats' = stats /\ tracker' = tracker /\ blocked' = blocked
  BY NowType DEF Tick
<1>3. ASSUME NEW f \in Entity
      PROVE  /\ CoveredNow(f, Daily(f), Limits(f))'
             /\ CountFallsOnly(f, Forgiveness + 1, RetentionOf(f))
  <2>1. CoveredNow(f, Daily(f), Limits(f))'
    BY <1>2, LaterCovered DEF TypeOK, CoveredInv
  <2>2. stats[f].blocked_count \in Nat
    BY DEF TypeOK, StateOK, Stats
  <2> QED
    BY <1>2, <2>1, <2>2 DEF CountFallsOnly
<1> QED
  BY <1>1, <1>3 DEF StepOK, CoveredInv, TypeOK, Registry!Next

\* A step that changes nothing.
LEMMA StutterStep ==
    ASSUME TypeOK, CoveredInv, UNCHANGED vars
    PROVE  StepOK
<1>1. /\ now' = now /\ stats' = stats /\ tracker' = tracker
      /\ blocked' = blocked /\ emitted' = emitted
  BY DEF vars
<1>2. TypeOK'
  BY <1>1 DEF TypeOK, StateOK
<1>3. ASSUME NEW f \in Entity
      PROVE  /\ CoveredNow(f, Daily(f), Limits(f))'
             /\ CountFallsOnly(f, Forgiveness + 1, RetentionOf(f))
  <2>1. CoveredNow(f, Daily(f), Limits(f))'
    BY <1>1, NowType, LaterCovered DEF TypeOK, CoveredInv
  <2>2. stats[f].blocked_count \in Nat
    BY DEF TypeOK, StateOK, Stats
  <2> QED
    BY <1>1, <2>1, <2>2 DEF CountFallsOnly
<1> QED
  BY <1>1, <1>2, <1>3 DEF StepOK, CoveredInv

\* Every step keeps the invariant and is one of BlockRegistry.
LEMMA EveryStep ==
    ASSUME TypeOK, CoveredInv, [Next]_vars
    PROVE  StepOK
<1>1. CASE Tick
  BY <1>1, TickStep
<1>2. CASE RtCleanup \/ AtCleanup
  BY <1>2, CleanupStep
<1>3. ASSUME NEW k \in Entity, IsTokenBlocked(k) \/ UpdateLatestRtUsage(k)
      PROVE  StepOK
  BY <1>3, IsTokenBlockedCalled, UpdateLatestUsageCalled, CallStep
<1>4. ASSUME NEW k \in AccessToken,
             \/ UpdateLatestAtUsage(k)
             \/ AddAtBadRequest(k)
             \/ AddAtClaimCookieGeneration(k)
             \/ \E n \in TokenCounts : AddAtAgentInputTokens(k, n)
      PROVE  StepOK
  <2>1. k \in Entity /\ {"bad_requests", "claim_cookies_generated"} \subseteq ResetDaily
    BY Kinds DEF ResetDaily
  <2>2. Called(k)
    BY <1>4, <2>1, UpdateLatestUsageCalled, CountAndBlockCalled, AddAtAgentInputTokensCalled
       DEF AddAtBadRequest, AddAtClaimCookieGeneration
  <2> QED
    BY <2>1, <2>2, CallStep
<1>5. CASE UNCHANGED vars
  BY <1>5, StutterStep
<1> QED
  BY <1>1, <1>2, <1>3, <1>4, <1>5, Kinds DEF Next

\* Initially nothing is counted and what is blocked was loaded.
LEMMA InitFacts ==
    ASSUME Init
    PROVE  TypeOK /\ CoveredInv /\ Registry!Init
<1>1. MinuteLen <= MaxBlock
  BY TokenAssumption, CalendarAssumption, BlocksAssumption
<1>2. StateOK(Stats) /\ Registry!Init
  BY <1>1, NoStatsFacts, StartFacts DEF Init
<1>3. CoveredInv
  BY NoStatsFacts, LimitsType, StartCovered DEF Init, CoveredInv
<1> QED
  BY <1>2, <1>3 DEF TypeOK

\* The inductive invariant.
LEMMA Invariant == Spec => [](TypeOK /\ CoveredInv)
<1>1. Init => TypeOK /\ CoveredInv
  BY InitFacts
<1>2. TypeOK /\ CoveredInv /\ [Next]_vars => (TypeOK /\ CoveredInv)'
  BY EveryStep DEF StepOK
<1> QED
  BY <1>1, <1>2, PTL DEF Spec
-------------------------------------------------------------------------------
\* The observer's maps and tasks keep their types (TokenObserver's state).
THEOREM TypeCorrect == Spec => []TypeOK
  BY Invariant, PTL

(***************************************************************************)
(* A token past a limit is blocked now (the checks at the end of every     *)
(* update): CoveredInv says it of every second that is left of the day or  *)
(* the minute, of which now is one.                                        *)
(***************************************************************************)
THEOREM OverLimitIsBlockedHolds == Spec => []OverLimitIsBlocked
<1>1. TypeOK /\ CoveredInv => OverLimitIsBlocked
  <2> SUFFICES ASSUME TypeOK, CoveredInv, NEW k \in Entity,
                      \/ /\ k \in AccessToken
                         /\ stats[k].day = DayKey(now)
                         /\ \E c \in ResetDaily : stats[k].today[c] > MaxDaily[c]
                      \/ /\ tracker[k].minute = MinuteKey(now)
                         /\ tracker[k].count > MinuteLimit(k)
               PROVE  blocked[k] > now
    BY DEF OverLimitIsBlocked
  <2>1. /\ DayCovered(Begin(k), now, Daily(k), Limits(k))
        /\ MinuteCovered(Begin(k), now, Limits(k))
    BY DEF CoveredInv, CoveredNow, Covered
  <2>2. /\ Begin(k).stats = stats[k] /\ Begin(k).tracker = tracker[k]
        /\ Begin(k).block = blocked[k]
    BY DEF Begin
  <2>3. now \in now .. MaxTime /\ now \in Nat /\ blocked[k] \in Nat
    BY NowType, BeginOpens, BlocksAssumption DEF Time, Block, Until, NoBlock
  <2>4. now < blocked[k]
    BY <2>1, <2>2, <2>3, LimitsType, Kinds DEF DayCovered, MinuteCovered
  <2> QED
    BY <2>3, <2>4
<1> QED
  BY <1>1, Invariant, PTL

\* A token's offences, which decide how long its next block lasts, are forgotten only
\* after the forgiveness period or by the cleanup of its kind.
EscalationKept ==
    [][\A k \in Entity : CountFallsOnly(k, Forgiveness + 1, RetentionOf(k))]_vars

\* The offences of a token in memory (_reset_token_block_count_if_new_day).
THEOREM EscalationKeptHolds == Spec => EscalationKept
<1>1. TypeOK /\ CoveredInv /\ [Next]_vars
          => [\A k \in Entity : CountFallsOnly(k, Forgiveness + 1, RetentionOf(k))]_vars
  BY EveryStep DEF StepOK
<1> QED
  BY <1>1, Invariant, PTL DEF Spec, EscalationKept

\* The token observer implements BlockRegistry: no block is lifted or shortened before
\* its time, and the tasks it hands over tell the database what it did.
THEOREM BlocksKeptHolds == Spec => BlocksKept
<1>1. Init => Registry!Init
  BY InitFacts
<1>2. TypeOK /\ CoveredInv /\ [Next]_vars => [Registry!Next]_(Registry!vars)
  BY EveryStep DEF StepOK, Registry!vars
<1> QED
  BY <1>1, <1>2, Invariant, PTL DEF Spec, BlocksKept, Registry!Spec
===============================================================================
