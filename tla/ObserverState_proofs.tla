-------------------------- MODULE ObserverState_proofs --------------------------
(***************************************************************************)
(* Lemmas about the locked sections of the observers, for any entities,    *)
(* calendar and bounds: what each step of ObserverOps does to the block    *)
(* and the tasks of the entity, and that a section as a whole is a call of *)
(* BlockRegistry.  The type of the statistics is a parameter.              *)
(***************************************************************************)
EXTENDS ObserverState, TLAPS

Tracker == [minute : 0 .. MaxTime, count : Nat]
Time    == 0 .. MaxTime

\* S is a type of statistics with the counters C: the steps stay in it.
StatsType(S, C) ==
    \A x \in S :
        /\ {"day", "blocked_count", "last_blocked_at", "last_api_request_at", "today"}
               \subseteq DOMAIN x
        /\ x.day \in Nat /\ x.blocked_count \in Nat /\ x.last_api_request_at \in Time
        /\ x.today \in [C -> Nat]
        /\ \A d \in Nat : [x EXCEPT !.day = d] \in S
        /\ \A f \in [C -> Nat] : [x EXCEPT !.today = f] \in S
        /\ \A t \in Time : [x EXCEPT !.last_api_request_at = t] \in S
        /\ \A n \in Nat, t \in Time : [x EXCEPT !.blocked_count = n, !.last_blocked_at = t] \in S
        /\ \A d \in Nat, f \in [C -> Nat], n \in Nat :
              [x EXCEPT !.day = d, !.today = f, !.blocked_count = n] \in S

\* Where a section about e can be that found the block b at time t.
Section(S, e, b, t) ==
    {s \in [id : {e}, stats : S, tracker : Tracker, block : Block,
            tasks : {<<>>, <<DeleteTask(e)>>},
            push : {<<>>} \cup {<<PushTask(e, u)>> : u \in Until}] :
        /\ s.tasks # <<>> => b # NoBlock /\ b <= t
        /\ s.push = <<>> => s.block = IF s.tasks = <<>> THEN b ELSE NoBlock
        /\ s.push # <<>> => /\ s.push = <<PushTask(e, s.block)>>
                            /\ s.block > t /\ s.block >= b}

\* The start of a section, before anything is lifted or blocked.
Fresh(S, e, b, t) ==
    {s \in Section(S, e, b, t) : s.tasks = <<>> /\ s.push = <<>>}

\* A day is a number.
LEMMA DayKeyType == ASSUME NEW t \in Nat PROVE DayKey(t) \in Nat
  BY CalendarAssumption DEF DayKey

\* A minute is named by a time.
LEMMA MinuteKeyType == ASSUME NEW t \in Time PROVE MinuteKey(t) \in Time
<1>1. t \in Nat /\ t <= MaxTime /\ MaxTime \in Nat
  BY BlocksAssumption DEF Time
<1>2. t % MinuteLen \in 0 .. (MinuteLen - 1)
  BY <1>1, CalendarAssumption
<1>3. t = MinuteLen * (t \div MinuteLen) + (t % MinuteLen)
  BY <1>1, CalendarAssumption
<1>4. (t \div MinuteLen) \in Nat
  BY <1>1, CalendarAssumption
<1>5. MinuteLen * (t \div MinuteLen) \in Nat
  BY <1>4, CalendarAssumption
<1> QED
  BY <1>1, <1>2, <1>3, <1>5, CalendarAssumption DEF MinuteKey, Time

\* A later second of the same minute or day is less than that far away.
LEMMA SameMinute ==
    ASSUME NEW t \in Nat, NEW x \in Nat, MinuteKey(x) = MinuteKey(t)
    PROVE  x < t + MinuteLen
<1>1. t % MinuteLen \in 0 .. (MinuteLen - 1) /\ x % MinuteLen \in 0 .. (MinuteLen - 1)
  BY CalendarAssumption
<1> QED
  BY <1>1, CalendarAssumption DEF MinuteKey

\* A day has DayLen seconds.
LEMMA SameDay ==
    ASSUME NEW t \in Nat, NEW x \in Nat, DayKey(x) = DayKey(t)
    PROVE  x < t + DayLen
<1> DEFINE d == t \div DayLen
<1>1. DayLen \in Nat \ {0}
  BY CalendarAssumption, BlocksAssumption
<1>2. t % DayLen \in 0 .. (DayLen - 1) /\ x % DayLen \in 0 .. (DayLen - 1)
  BY <1>1
<1>3. t = DayLen * (t \div DayLen) + (t % DayLen) /\ x = DayLen * (x \div DayLen) + (x % DayLen)
  BY <1>1
<1>4. d \in Nat /\ x \div DayLen = d
  BY <1>1 DEF DayKey
<1>5. DayLen * d \in Nat
  BY <1>1, <1>4
<1>6. t = DayLen * d + (t % DayLen) /\ x = DayLen * d + (x % DayLen)
  BY <1>3, <1>4
<1> HIDE DEF d
<1> QED
  BY <1>1, <1>2, <1>5, <1>6

\* Time starts with day 1.
LEMMA SomeDay == ASSUME NEW t \in Nat, t >= DayLen PROVE DayKey(t) # NoDay
<1>1. DayLen \in Nat \ {0}
  BY CalendarAssumption, BlocksAssumption
<1>2. t % DayLen \in 0 .. (DayLen - 1) /\ t = DayLen * (t \div DayLen) + (t % DayLen)
  BY <1>1
<1> QED
  BY <1>1, <1>2 DEF DayKey, NoDay

\* The length of a block is one of the levels.
LEMMA LevelType ==
    ASSUME NEW D, NEW levels \in [1 .. 3 -> D], NEW n \in Nat
    PROVE  Level(levels, n) \in D
  BY DEF Level

\* The record a section begins with has told nothing yet.
LEMMA BeginIsFresh ==
    ASSUME NEW S, StateOK(S), NEW e \in Entity
    PROVE  Begin(e) \in Fresh(S, e, blocked[e], now)
  BY DEF StateOK, Begin, Fresh, Section, Tracker

\* _ensure_*: a record is made for an entity that has none.
LEMMA EnsureSection ==
    ASSUME NEW S, NEW C, StatsType(S, C), NEW e, NEW b, NEW t \in Time,
           NEW s \in Section(S, e, b, t)
    PROVE  Ensure(s, t) \in Section(S, e, b, t)
<1>1. DayKey(t) \in Nat
  BY DayKeyType, BlocksAssumption DEF Time
<1>2. [s.stats EXCEPT !.day = DayKey(t)] \in S
  BY <1>1 DEF StatsType, Section
<1>3. [s EXCEPT !.stats.day = DayKey(t)] = [s EXCEPT !.stats = [s.stats EXCEPT !.day = DayKey(t)]]
  OBVIOUS
<1>4. [s EXCEPT !.stats = [s.stats EXCEPT !.day = DayKey(t)]] \in Section(S, e, b, t)
  BY <1>2 DEF Section
<1> QED
  BY <1>3, <1>4 DEF Ensure

\* A reset touches the statistics alone.
LEMMA ResetIsFresh ==
    ASSUME NEW S, NEW C, StatsType(S, C), NEW e, NEW b, NEW t \in Time,
           NEW s \in Fresh(S, e, b, t), NEW daily, NEW after
    PROVE  ResetIfNewDay(s, t, daily, after) \in Fresh(S, e, b, t)
<1> DEFINE today == [c \in DOMAIN s.stats.today |-> IF c \in daily THEN 0 ELSE s.stats.today[c]]
           forgiven == /\ s.stats.last_blocked_at # NoTime
                       /\ t - s.stats.last_blocked_at >= after
           count == IF forgiven THEN 0 ELSE s.stats.blocked_count
           new == [s.stats EXCEPT !.day = DayKey(t), !.today = today, !.blocked_count = count]
<1>1. CASE Known(s) /\ s.stats.day # DayKey(t)
  <2>1. DayKey(t) \in Nat
    BY DayKeyType, BlocksAssumption DEF Time
  <2>2. s.stats \in S /\ s.stats.today \in [C -> Nat] /\ s.stats.blocked_count \in Nat
    BY DEF StatsType, Fresh, Section
  <2>3. today \in [C -> Nat] /\ count \in Nat
    BY <2>2
  <2>4. new \in S
    BY <2>1, <2>2, <2>3 DEF StatsType
  <2>5. [s EXCEPT !.stats = new] \in Fresh(S, e, b, t)
    <3> HIDE DEF new
    <3> QED
      BY <2>4 DEF Fresh, Section
  <2>6. ResetIfNewDay(s, t, daily, after) = [s EXCEPT !.stats = new]
    BY <1>1 DEF ResetIfNewDay
  <2> QED
    BY <2>5, <2>6
<1>2. CASE ~(Known(s) /\ s.stats.day # DayKey(t))
  BY <1>2 DEF ResetIfNewDay
<1> QED
  BY <1>1, <1>2

\* Lifting a block that has ended is one of the Outcomes.
LEMMA UnblockSection ==
    ASSUME NEW S, NEW e, NEW b, NEW t \in Time, NEW late \in Nat,
           NEW s \in Fresh(S, e, b, t)
    PROVE  UnblockIfExpired(s, t, late) \in Section(S, e, b, t)
<1>1. CASE s.block # NoBlock /\ t >= s.block + late
  <2>1. s.block = b /\ s.block \in Nat /\ b <= t /\ b # NoBlock /\ s.id = e
    BY <1>1, BlocksAssumption DEF Fresh, Section, Block, Until, NoBlock, Time
  <2>2. [s EXCEPT !.block = NoBlock, !.tasks = <<DeleteTask(e)>>] \in Section(S, e, b, t)
    BY <2>1 DEF Fresh, Section, Block
  <2> QED
    BY <1>1, <2>1, <2>2 DEF UnblockIfExpired
<1>2. CASE ~(s.block # NoBlock /\ t >= s.block + late)
  BY <1>2 DEF UnblockIfExpired, Fresh
<1> QED
  BY <1>1, <1>2

\* Of two blocks the longer one is kept.
LEMMA LongestFacts ==
    ASSUME NEW t \in Time, NEW d \in 1 .. MaxBlock, NEW b \in Block
    PROVE  /\ Longest(b, t, d) \in Until
           /\ Longest(b, t, d) > t
           /\ Longest(b, t, d) >= b
           /\ Longest(b, t, d) >= t + d
<1>1. /\ b \in Nat /\ b <= MaxTime + MaxBlock
      /\ t \in Nat /\ t <= MaxTime
      /\ MaxTime \in Nat /\ MaxBlock \in Nat
      /\ d \in Nat /\ 1 <= d /\ d <= MaxBlock
  BY BlocksAssumption DEF Block, Until, NoBlock, Time
<1>2. Max({b, t + d}) = IF b >= t + d THEN b ELSE t + d
  <2> DEFINE m == IF b >= t + d THEN b ELSE t + d
  <2>1. m \in {b, t + d} /\ \A y \in {b, t + d} : m >= y
    BY <1>1
  <2>2. \A x \in {b, t + d} : (\A y \in {b, t + d} : x >= y) => x = m
    BY <1>1
  <2> QED
    BY <2>1, <2>2 DEF Max
<1> QED
  BY <1>1, <1>2 DEF Longest, Until

\* A block that is set lasts as long as it should and as the one before.
LEMMA BlockEntitySection ==
    ASSUME NEW S, NEW C, StatsType(S, C), NEW e, NEW b \in Block, NEW t \in Time,
           NEW d \in 1 .. MaxBlock, NEW s \in Section(S, e, b, t)
    PROVE  BlockEntity(s, t, d) \in Section(S, e, b, t)
<1> DEFINE u == Longest(s.block, t, d)
           r == Ensure(s, t)
           new == [r.stats EXCEPT !.blocked_count = @ + 1, !.last_blocked_at = t]
<1>1. r \in Section(S, e, b, t)
  BY EnsureSection
<1>2. r.stats \in S /\ r.stats.blocked_count \in Nat
  BY <1>1 DEF StatsType, Section
<1>3. new \in S
  <2>1. r.stats.blocked_count + 1 \in Nat
    BY <1>2
  <2>2. new = [r.stats EXCEPT !.blocked_count = r.stats.blocked_count + 1, !.last_blocked_at = t]
    OBVIOUS
  <2> QED
    BY <1>2, <2>1, <2>2 DEF StatsType
<1>4. u \in Until /\ u > t /\ u >= s.block
  BY LongestFacts DEF Section
<1>5. b <= t \/ s.block >= b
  BY BlocksAssumption DEF Section, Block, Until, NoBlock, Time
<1>6. u >= b
  BY <1>4, <1>5, BlocksAssumption DEF Block, Until, NoBlock, Time, Section
<1>7. s.id = e
  BY DEF Section
<1>8. [r EXCEPT !.stats = new, !.block = u, !.push = <<PushTask(e, u)>>] \in Section(S, e, b, t)
  <2> HIDE DEF r, new, u
  <2> QED
    BY <1>1, <1>3, <1>4, <1>6 DEF Section, Block
<1>9. BlockEntity(s, t, d) = [r EXCEPT !.stats = new, !.block = u, !.push = <<PushTask(e, u)>>]
  BY <1>7 DEF BlockEntity
<1> QED
  BY <1>8, <1>9

\* A block that is set on a condition.
LEMMA BlockIfSection ==
    ASSUME NEW S, NEW C, StatsType(S, C), NEW e, NEW b \in Block, NEW t \in Time,
           NEW d \in 1 .. MaxBlock, NEW s \in Section(S, e, b, t), NEW over
    PROVE  BlockIf(over, s, t, d) \in Section(S, e, b, t)
  BY BlockEntitySection DEF BlockIf

\* A change of the statistics alone.
LEMMA WithStatsSection ==
    ASSUME NEW S, NEW e, NEW b, NEW t, NEW s \in Section(S, e, b, t), NEW new \in S
    PROVE  [s EXCEPT !.stats = new] \in Section(S, e, b, t)
  BY DEF Section

\* Counting for the day.
LEMMA CountTodaySection ==
    ASSUME NEW S, NEW C, StatsType(S, C), NEW e, NEW b, NEW t,
           NEW s \in Section(S, e, b, t), NEW c \in C, NEW n \in Nat
    PROVE  CountToday(s, c, n) \in Section(S, e, b, t)
<1> DEFINE today == [s.stats.today EXCEPT ![c] = @ + n]
           new == [s.stats EXCEPT !.today = today]
<1>1. s.stats \in S /\ s.stats.today \in [C -> Nat]
  BY DEF StatsType, Section
<1>2. today \in [C -> Nat]
  BY <1>1
<1>3. new \in S
  <2> HIDE DEF today
  <2> QED
    BY <1>1, <1>2 DEF StatsType
<1>4. CountToday(s, c, n) = [s EXCEPT !.stats = new]
  BY DEF CountToday
<1> QED
  <2> HIDE DEF new
  <2> QED
    BY <1>3, <1>4, WithStatsSection

\* Dating the latest request.
LEMMA DatedSection ==
    ASSUME NEW S, NEW C, StatsType(S, C), NEW e, NEW b, NEW t, NEW at \in Time,
           NEW s \in Section(S, e, b, t)
    PROVE  [s EXCEPT !.stats.last_api_request_at = at] \in Section(S, e, b, t)
<1> DEFINE new == [s.stats EXCEPT !.last_api_request_at = at]
<1>1. new \in S
  BY DEF StatsType, Section
<1>2. [s EXCEPT !.stats.last_api_request_at = at] = [s EXCEPT !.stats = new]
  OBVIOUS
<1> QED
  <2> HIDE DEF new
  <2> QED
    BY <1>1, <1>2, WithStatsSection

\* Counting for the minute, which may begin anew.
LEMMA CountThisMinuteSection ==
    ASSUME NEW S, NEW e, NEW b, NEW t \in Time, NEW s \in Section(S, e, b, t)
    PROVE  CountThisMinute(s, t) \in Section(S, e, b, t)
<1> DEFINE count == IF s.tracker.minute = MinuteKey(t) THEN s.tracker.count + 1 ELSE 1
           new == [minute |-> MinuteKey(t), count |-> count]
<1>1. MinuteKey(t) \in 0 .. MaxTime
  BY MinuteKeyType DEF Time
<1>2. count \in Nat
  BY DEF Section, Tracker
<1>3. new \in Tracker
  BY <1>1, <1>2 DEF Tracker
<1>4. CountThisMinute(s, t) = [s EXCEPT !.tracker = new]
  BY DEF CountThisMinute
<1>5. [s EXCEPT !.tracker = new] \in Section(S, e, b, t)
  <2> HIDE DEF new
  <2> QED
    BY <1>3 DEF Section
<1> QED
  BY <1>4, <1>5

(***************************************************************************)
(* A section that ends is a call of BlockRegistry, and a cleanup is Idle.  *)
(***************************************************************************)
LEMMA SectionOutcome ==
    ASSUME NEW S, NEW e \in Entity, NEW b \in Block, NEW t \in Time,
           NEW s \in Section(S, e, b, t)
    PROVE  [until |-> s.block, tasks |-> TasksOf(s)] \in Outcomes(e, b, t)
<1> DEFINE o == [until |-> s.block, tasks |-> TasksOf(s)]
<1>1. s.tasks \in Lifts(e, b, t)
  BY DEF Section, Lifts
<1>2. CASE s.push = <<>> /\ s.tasks = <<>>
  <2>1. o = [until |-> b, tasks |-> <<>>]
    BY <1>2 DEF Section, TasksOf
  <2> QED
    BY <2>1 DEF Outcomes, Kept
<1>3. CASE s.push = <<>> /\ s.tasks # <<>>
  <2>1. s.block = NoBlock /\ TasksOf(s) = s.tasks
    BY <1>3 DEF Section, TasksOf
  <2> QED
    BY <1>1, <1>3, <2>1 DEF Outcomes, Lifted
<1>4. CASE s.push # <<>>
  <2>1. /\ s.push = <<PushTask(e, s.block)>>
        /\ s.block \in Block /\ s.block > t /\ s.block >= b
    BY <1>4 DEF Section
  <2>2. s.block \in {x \in Until : x > t /\ x >= b}
    BY <2>1, BlocksAssumption DEF Block, NoBlock, Time
  <2>3. TasksOf(s) = Append(s.tasks, PushTask(e, s.block))
    <3>1. s.tasks = <<>> \/ s.tasks = <<DeleteTask(e)>>
      BY DEF Section
    <3> QED
      BY <2>1, <3>1 DEF TasksOf
  <2>4. \A u \in {x \in Until : x > t /\ x >= b}, ts \in Lifts(e, b, t) :
            [until |-> u, tasks |-> Append(ts, PushTask(e, u))] \in Imposed(e, b, t)
    <3> DEFINE us == {x \in Until : x > t /\ x >= b}
               f(u, ts) == [until |-> u, tasks |-> Append(ts, PushTask(e, u))]
    <3>1. Imposed(e, b, t) = {f(u, ts) : u \in us, ts \in Lifts(e, b, t)}
      BY DEF Imposed
    <3>2. \A u \in us, ts \in Lifts(e, b, t) :
              f(u, ts) \in {f(v, vs) : v \in us, vs \in Lifts(e, b, t)}
      <4> HIDE DEF f, us
      <4> QED
        OBVIOUS
    <3>3. \A u \in us, ts \in Lifts(e, b, t) : f(u, ts) \in Imposed(e, b, t)
      <4> HIDE DEF f, us
      <4> QED
        BY <3>1, <3>2
    <3> QED
      BY <3>3
  <2>5. o = [until |-> s.block, tasks |-> Append(s.tasks, PushTask(e, s.block))]
    BY <2>3
  <2>6. o \in Imposed(e, b, t)
    <3> HIDE DEF o
    <3> QED
      BY <1>1, <2>2, <2>4, <2>5
  <2> QED
    BY <2>6 DEF Outcomes
<1> QED
  BY <1>2, <1>3, <1>4

\* The abstract and the detailed specification speak of the same outcomes.
LEMMA SameOutcomes ==
    ASSUME NEW e, NEW b, NEW t
    PROVE  Registry!Outcomes(e, b, t) = Outcomes(e, b, t)
<1>1. Registry!Lifts(e, b, t) = Lifts(e, b, t)
  BY DEF Registry!Lifts, Lifts, Registry!DeleteTask, DeleteTask, Registry!NoBlock, NoBlock
<1>2. Registry!Until = Until
  BY DEF Registry!Until, Until
<1>3. \A u : Registry!PushTask(e, u) = PushTask(e, u)
  BY DEF Registry!PushTask, PushTask
<1>4. Registry!Lifted(e, b, t) = Lifted(e, b, t)
  BY <1>1 DEF Registry!Lifted, Lifted, Registry!NoBlock, NoBlock
<1>5. Registry!Imposed(e, b, t) = Imposed(e, b, t)
  BY <1>1, <1>2, <1>3 DEF Registry!Imposed, Imposed
<1> QED
  BY <1>4, <1>5 DEF Registry!Outcomes, Outcomes, Registry!Kept, Kept

\* The end of a section is a call of BlockRegistry.
LEMMA LeaveIsCall ==
    ASSUME NEW S, StateOK(S), NEW e \in Entity, NEW s \in Section(S, e, blocked[e], now),
           Leave(e, s)
    PROVE  StateOK(S)' /\ Registry!Call(e)
<1>1. blocked[e] \in Block /\ now \in Time
  BY CalendarAssumption DEF StateOK, Time
<1>2. s.stats \in S /\ s.tracker \in Tracker /\ s.block \in Block
  BY DEF Section
<1>3. TasksOf(s) \in Seq(Task)
  <2>1. DeleteTask(e) \in Task
    BY DEF DeleteTask, Task, Block
  <2>2. s.tasks \in Seq(Task)
    <3>1. s.tasks = <<>> \/ s.tasks = <<DeleteTask(e)>>
      BY DEF Section
    <3>2. \A d \in Task : <<d>> \in Seq(Task)
      OBVIOUS
    <3>3. CASE s.tasks = <<>>
      BY <3>3
    <3> QED
      BY <2>1, <3>1, <3>2, <3>3
  <2>3. s.push \in Seq(Task)
    <3>1. s.push = <<>> \/ \E u \in Until : s.push = <<PushTask(e, u)>>
      BY DEF Section
    <3>2. \A u \in Until : PushTask(e, u) \in Task
      BY DEF PushTask, Task, Block
    <3>3. \A d \in Task : <<d>> \in Seq(Task)
      OBVIOUS
    <3>4. CASE s.push = <<>>
      BY <3>4
    <3> QED
      BY <3>1, <3>2, <3>3, <3>4
  <2> QED
    BY <2>2, <2>3 DEF TasksOf
<1>4. StateOK(S)'
  BY <1>2, <1>3 DEF StateOK, Leave, Tracker
<1>5. Registry!Call(e)
  <2>1. [until |-> s.block, tasks |-> TasksOf(s)] \in Registry!Outcomes(e, blocked[e], now)
    BY <1>1, SectionOutcome, SameOutcomes
  <2> QED
    BY <2>1 DEF Leave, Registry!Call
<1> QED
  BY <1>4, <1>5

\* The cleanup is an idle step of BlockRegistry: who is forgotten has no block.
LEMMA ForgetIsIdle ==
    ASSUME NEW S, StateOK(S), NEW kind \in SUBSET Entity, NEW retention, NEW none \in S,
           Forget(kind, retention, none)
    PROVE  StateOK(S)' /\ Registry!Idle
<1> DEFINE F == {e \in kind : Forgettable(e, retention)}
<1>1. \A e \in F : blocked[e] = NoBlock
  BY DEF Forgettable
<1>2. blocked' = blocked
  BY <1>1 DEF StateOK, Forget
<1>3. NoTracker \in [minute : 0 .. MaxTime, count : Nat]
  BY BlocksAssumption DEF NoTracker
<1>4. StateOK(S)'
  BY <1>2, <1>3 DEF StateOK, Forget
<1> QED
  BY <1>2, <1>4 DEF Forget, Registry!Idle

\* The clock is that of BlockRegistry.
LEMMA TickIsTick ==
    ASSUME NEW S, StateOK(S), Tick
    PROVE  StateOK(S)' /\ Registry!Tick
  BY BlocksAssumption, CalendarAssumption DEF StateOK, Tick, Registry!Tick

\* The start is an initial state of BlockRegistry.
LEMMA StartFacts ==
    ASSUME NEW S, NEW none \in S, Start(none), MinuteLen <= MaxBlock
    PROVE  StateOK(S) /\ Registry!Init
<1>1. DayLen \in DayLen .. MaxTime /\ DayLen \in 0 .. MaxTime
  BY BlocksAssumption, CalendarAssumption
<1>2. {NoBlock, DayLen, DayLen + MinuteLen} \subseteq Block
  BY BlocksAssumption, CalendarAssumption DEF Block, Until, NoBlock
<1>3. NoTracker \in [minute : 0 .. MaxTime, count : Nat]
  BY BlocksAssumption DEF NoTracker
<1>4. blocked \in [Entity -> Block]
  BY <1>2 DEF Start
<1>5. StateOK(S)
  BY <1>1, <1>3, <1>4 DEF StateOK, Start
<1> QED
  BY <1>1, <1>4, <1>5 DEF Start, Registry!Init, Registry!Block, Block, Registry!Until, Until, Registry!NoBlock, NoBlock
-------------------------------------------------------------------------------
(***************************************************************************)
(* What the steps do to the counters, the escalation and the coverage of a *)
(* violation by a block.  The limits of an observer are a record: those of *)
(* the daily counters C, that of a minute, the forgiveness period, and the *)
(* counters that a new day resets.                                         *)
(***************************************************************************)
LimitsFor(C) == [daily : [C -> Nat], minute : Nat, after : Nat, reset : SUBSET C]

\* Whoever is past a daily limit is blocked for what is left of that day, ...
DayCovered(s, t, D, lim) ==
    \A c \in D : s.stats.today[c] > lim.daily[c] =>
        \A x \in t .. MaxTime : DayKey(x) = s.stats.day => x < s.block

\* ... and whoever is past the limit of a minute for what is left of it.
MinuteCovered(s, t, lim) ==
    s.tracker.count > lim.minute =>
        \A x \in t .. MaxTime : MinuteKey(x) = s.tracker.minute => x < s.block

\* Nothing is counted before the first day of an entity.
ZeroBefore(s, lim) == s.stats.day = NoDay => \A c \in lim.reset : s.stats.today[c] = 0

Covered(s, t, D, lim) ==
    DayCovered(s, t, D, lim) /\ MinuteCovered(s, t, lim) /\ ZeroBefore(s, lim)

\* Since the record o the offences have grown or have been forgiven ...
Escalated(o, s, t, lim) ==
    \/ s.stats.blocked_count >= o.stats.blocked_count
    \/ o.stats.day # DayKey(t) /\ t - o.stats.last_blocked_at >= lim.after

\* ... and a new day has n in its counters at most.
FromZero(o, s, lim, n) ==
    s.stats.day # o.stats.day => \A c \in lim.reset : s.stats.today[c] <= n

\* The record a section begins with.
Opening(o) == o.block \in Block /\ o.stats.blocked_count \in Nat

\* Where a section can be that began with the record o at time t, ...
Reached(S, o, t, D, lim, n) ==
    {s \in Section(S, o.id, o.block, t) :
        Covered(s, t, D, lim) /\ Escalated(o, s, t, lim) /\ FromZero(o, s, lim, n)}

\* ... and where it can be after the resets at the start of an update.
Updating(S, o, t, D, lim, n) ==
    {s \in Reached(S, o, t, D, lim, n) : s.stats.day = DayKey(t)}

\* What a record in a section consists of.
LEMMA SectionFields ==
    ASSUME NEW S, NEW C, StatsType(S, C), NEW e, NEW b, NEW t, NEW s \in Section(S, e, b, t)
    PROVE  /\ {"id", "stats", "tracker", "block", "tasks", "push"} = DOMAIN s
           /\ {"day", "blocked_count", "last_blocked_at", "last_api_request_at", "today"}
                  \subseteq DOMAIN s.stats
           /\ s.stats \in S /\ s.tracker \in Tracker /\ s.block \in Block /\ s.id = e
           /\ s.stats.day \in Nat /\ s.stats.blocked_count \in Nat
           /\ s.stats.today \in [C -> Nat]
  BY DEF Section, StatsType

\* The way into an update: a new day is reset, an ended block is lifted.
LEMMA EnterUpdating ==
    ASSUME NEW S, NEW C, StatsType(S, C), NEW e, NEW b \in Block,
           NEW t \in Time, t >= DayLen,
           NEW o \in Fresh(S, e, b, t), NEW D \in SUBSET C, NEW lim \in LimitsFor(C),
           D \subseteq lim.reset,
           Covered(o, t, D, lim), NEW daily, lim.reset \subseteq daily, NEW late \in Nat
    PROVE  LET r == UnblockIfExpired(ResetIfNewDay(o, t, daily, lim.after), t, late)
           IN  /\ r \in Reached(S, o, t, D, lim, 0)
               /\ Ensure(r, t) \in Updating(S, o, t, D, lim, 0)
<1> DEFINE r0 == ResetIfNewDay(o, t, daily, lim.after)
           r  == UnblockIfExpired(r0, t, late)
           u  == Ensure(r, t)
<1>a. o \in Section(S, e, b, t) /\ o.id = e /\ o.block = b /\ t \in Nat /\ t <= MaxTime /\ MaxTime \in Nat
  BY BlocksAssumption DEF Fresh, Section, Time
<1>b. r0 \in Fresh(S, e, b, t)
  BY ResetIsFresh
<1>c. r \in Section(S, e, b, t)
  <2> HIDE DEF r0
  <2> QED
    BY <1>b, UnblockSection
<1>d. u \in Section(S, e, b, t)
  <2> HIDE DEF r
  <2> QED
    BY <1>c, EnsureSection
<1>e. /\ DayKey(t) \in Nat /\ DayKey(t) # NoDay
      /\ lim.after \in Nat /\ lim.daily \in [C -> Nat] /\ lim.minute \in Nat
      /\ lim.reset \in SUBSET C
  BY <1>a, SomeDay, DayKeyType DEF LimitsFor
<1>1. /\ Covered(r0, t, D, lim) /\ Escalated(o, r0, t, lim)
      /\ r0.stats.day = IF Known(o) THEN DayKey(t) ELSE NoDay
      /\ r0.stats.day # o.stats.day => \A c \in lim.reset : r0.stats.today[c] = 0
      /\ r0.block = b
  <2>1. CASE Known(o) /\ o.stats.day # DayKey(t)
    <3>1. /\ r0.stats.day = DayKey(t)
          /\ \A c \in lim.reset : r0.stats.today[c] = 0
          /\ r0.tracker = o.tracker /\ r0.block = o.block
          /\ r0.stats.blocked_count \in {0, o.stats.blocked_count}
          /\ r0.stats.blocked_count # o.stats.blocked_count =>
                t - o.stats.last_blocked_at >= lim.after
      <4> DEFINE today == [c \in DOMAIN o.stats.today |-> IF c \in daily THEN 0 ELSE o.stats.today[c]]
                 forgiven == /\ o.stats.last_blocked_at # NoTime
                             /\ t - o.stats.last_blocked_at >= lim.after
                 count == IF forgiven THEN 0 ELSE o.stats.blocked_count
                 new == [o.stats EXCEPT !.day = DayKey(t), !.today = today, !.blocked_count = count]
      <4>1. r0 = [o EXCEPT !.stats = new]
        BY <2>1 DEF ResetIfNewDay
      <4>2. \A c \in lim.reset : today[c] = 0
        BY <1>a, <1>e, SectionFields
      <4>3. count \in {0, o.stats.blocked_count}
            /\ (count # o.stats.blocked_count => t - o.stats.last_blocked_at >= lim.after)
        OBVIOUS
      <4>4. new.day = DayKey(t) /\ new.today = today /\ new.blocked_count = count
        <5> HIDE DEF today, count
        <5> QED
          BY <1>a, SectionFields
      <4>5. r0.stats = new /\ r0.tracker = o.tracker /\ r0.block = o.block
        <5> HIDE DEF new
        <5> QED
          BY <1>a, <4>1, SectionFields
      <4> HIDE DEF new, today, count, r0
      <4> QED
        BY <4>2, <4>3, <4>4, <4>5
    <3> QED
      BY <1>a, <1>e, <2>1, <3>1, SectionFields DEF Covered, DayCovered, MinuteCovered, ZeroBefore, Escalated
  <2>2. CASE ~(Known(o) /\ o.stats.day # DayKey(t))
    <3>1. r0 = o
      BY <2>2 DEF ResetIfNewDay
    <3> QED
      BY <1>a, <2>2, <3>1, SectionFields DEF Escalated, Known
  <2> QED
    BY <2>1, <2>2
<1> HIDE DEF r0
<1>2. /\ Covered(r, t, D, lim) /\ Escalated(o, r, t, lim)
      /\ r.stats = r0.stats
  <2>1. CASE r0.block # NoBlock /\ t >= r0.block + late
    <3>1. r.stats = r0.stats /\ r.tracker = r0.tracker /\ r.block = NoBlock
      BY <1>b, <2>1, SectionFields DEF UnblockIfExpired, Fresh
    <3>2. r0.block \in Nat /\ r0.block <= t
      BY <1>1, <1>a, <2>1, BlocksAssumption DEF Block, Until, NoBlock
    <3> QED
      BY <1>1, <1>a, <3>1, <3>2 DEF Covered, DayCovered, MinuteCovered, ZeroBefore, Escalated
  <2>2. CASE ~(r0.block # NoBlock /\ t >= r0.block + late)
    BY <1>1, <2>2 DEF UnblockIfExpired
  <2> QED
    BY <2>1, <2>2
<1> HIDE DEF r
<1>3. r \in Reached(S, o, t, D, lim, 0)
  BY <1>1, <1>2, <1>a, <1>c DEF Reached, FromZero
<1>4. u \in Updating(S, o, t, D, lim, 0)
  <2>1. CASE Known(r)
    <3>1. u = r /\ r.stats.day = DayKey(t)
      BY <1>1, <1>2, <2>1 DEF Ensure, Known
    <3> QED
      BY <1>3, <3>1 DEF Updating
  <2>2. CASE ~Known(r)
    <3>1. /\ u.stats.day = DayKey(t) /\ u.stats.today = r.stats.today
          /\ u.stats.blocked_count = r.stats.blocked_count
          /\ u.tracker = r.tracker /\ u.block = r.block
      BY <1>c, <2>2, SectionFields DEF Ensure
    <3>2. \A c \in lim.reset : r.stats.today[c] = 0
      BY <1>2, <2>2 DEF Covered, ZeroBefore, Known
    <3>3. Covered(u, t, D, lim)
      BY <1>2, <1>e, <3>1, <3>2 DEF Covered, DayCovered, MinuteCovered, ZeroBefore
    <3>4. Escalated(o, u, t, lim) /\ FromZero(o, u, lim, 0)
      BY <1>2, <3>1, <3>2 DEF Escalated, FromZero
    <3> HIDE DEF u
    <3> QED
      BY <1>a, <1>d, <3>1, <3>3, <3>4 DEF Updating, Reached
  <2> QED
    BY <2>1, <2>2
<1> QED
  BY <1>3, <1>4 DEF r, r0

\* Counting for the day: all counters but this one stay covered.
LEMMA CountTodayUpdating ==
    ASSUME NEW S, NEW C, StatsType(S, C), NEW o, NEW t \in Time, t >= DayLen,
           NEW D \in SUBSET C, NEW lim \in LimitsFor(C),
           NEW s \in Updating(S, o, t, D, lim, 0), NEW c \in C, NEW k \in Nat
    PROVE  CountToday(s, c, k) \in Updating(S, o, t, D \ {c}, lim, k)
<1> DEFINE r == CountToday(s, c, k)
<1>1. s \in Section(S, o.id, o.block, t)
  BY DEF Updating, Reached
<1>2. r \in Section(S, o.id, o.block, t)
  BY <1>1, CountTodaySection
<1>3. /\ r.stats.today = [s.stats.today EXCEPT ![c] = @ + k]
      /\ r.stats.day = s.stats.day /\ r.stats.blocked_count = s.stats.blocked_count
      /\ r.tracker = s.tracker /\ r.block = s.block
  BY <1>1, SectionFields DEF CountToday
<1>4. /\ s.stats.today \in [C -> Nat] /\ s.stats.day \in Nat /\ s.stats.day # NoDay
      /\ lim.reset \in SUBSET C
  <2>1. DayKey(t) # NoDay
    BY SomeDay, BlocksAssumption DEF Time
  <2> QED
    BY <1>1, <2>1, SectionFields DEF Updating, LimitsFor
<1> HIDE DEF r
<1>5. Covered(r, t, D \ {c}, lim) /\ Escalated(o, r, t, lim)
  BY <1>3, <1>4 DEF Updating, Reached, Covered, DayCovered, MinuteCovered, ZeroBefore, Escalated
<1>6. FromZero(o, r, lim, k)
  <2> SUFFICES ASSUME r.stats.day # o.stats.day, NEW x \in lim.reset
               PROVE  r.stats.today[x] <= k
    BY DEF FromZero
  <2>1. s.stats.today[x] <= 0 /\ s.stats.today[x] \in Nat
    BY <1>3, <1>4 DEF Updating, Reached, FromZero
  <2>2. r.stats.today[x] \in {s.stats.today[x], s.stats.today[x] + k}
    BY <1>3, <1>4
  <2> QED
    BY <2>1, <2>2
<1> QED
  BY <1>2, <1>3, <1>5, <1>6 DEF Updating, Reached, r

\* A change of the statistics that is not about the day, the counters or the offences.
LEMMA WithStatsReached ==
    ASSUME NEW S, NEW C, StatsType(S, C), NEW o, NEW t \in Time,
           NEW D, NEW lim, NEW n, NEW s \in Reached(S, o, t, D, lim, n),
           NEW new \in S, new.day = s.stats.day, new.today = s.stats.today,
           new.blocked_count = s.stats.blocked_count
    PROVE  /\ [s EXCEPT !.stats = new] \in Reached(S, o, t, D, lim, n)
           /\ s \in Updating(S, o, t, D, lim, n)
                  => [s EXCEPT !.stats = new] \in Updating(S, o, t, D, lim, n)
<1> DEFINE r == [s EXCEPT !.stats = new]
<1>1. s \in Section(S, o.id, o.block, t)
  BY DEF Reached
<1>2. r \in Section(S, o.id, o.block, t)
  BY <1>1, WithStatsSection
<1>3. r.stats = new /\ r.tracker = s.tracker /\ r.block = s.block
  BY <1>1, SectionFields
<1> HIDE DEF r
<1>4. Covered(r, t, D, lim) /\ Escalated(o, r, t, lim) /\ FromZero(o, r, lim, n)
  BY <1>3 DEF Reached, Covered, DayCovered, MinuteCovered, ZeroBefore, Escalated, FromZero
<1>5. r \in Reached(S, o, t, D, lim, n)
  BY <1>2, <1>4 DEF Reached
<1> QED
  BY <1>3, <1>5 DEF Updating, r

\* Dating the latest request disturbs no counter.
LEMMA DatedUpdating ==
    ASSUME NEW S, NEW C, StatsType(S, C), NEW o, NEW t \in Time,
           NEW D, NEW lim, NEW n, NEW s \in Updating(S, o, t, D, lim, n)
    PROVE  [s EXCEPT !.stats.last_api_request_at = t] \in Updating(S, o, t, D, lim, n)
<1> DEFINE new == [s.stats EXCEPT !.last_api_request_at = t]
<1>1. s \in Section(S, o.id, o.block, t) /\ s \in Reached(S, o, t, D, lim, n)
  BY DEF Updating, Reached
<1>2. new \in S
  BY <1>1, SectionFields DEF StatsType
<1>3. /\ new.day = s.stats.day /\ new.today = s.stats.today
      /\ new.blocked_count = s.stats.blocked_count
  BY <1>1, SectionFields
<1>4. [s EXCEPT !.stats.last_api_request_at = t] = [s EXCEPT !.stats = new]
  OBVIOUS
<1> HIDE DEF new
<1> QED
  BY <1>1, <1>2, <1>3, <1>4, WithStatsReached

\* A block keeps what is covered and covers what its duration reaches.
LEMMA BlockEntityFields ==
    ASSUME NEW S, NEW C, StatsType(S, C), NEW e, NEW b \in Block, NEW t \in Time, t >= DayLen,
           NEW d \in 1 .. MaxBlock, NEW s \in Section(S, e, b, t), s.stats.day = DayKey(t)
    PROVE  LET r == BlockEntity(s, t, d)
           IN  /\ r \in Section(S, e, b, t)
               /\ r.stats.day = s.stats.day /\ r.stats.today = s.stats.today
               /\ r.stats.blocked_count = s.stats.blocked_count + 1
               /\ r.tracker = s.tracker
               /\ r.block \in Nat /\ r.block >= s.block /\ r.block >= t + d
<1> DEFINE r == BlockEntity(s, t, d)
<1>1. r \in Section(S, e, b, t)
  BY BlockEntitySection
<1>2. DayKey(t) # NoDay /\ t \in Nat /\ t <= MaxTime /\ MaxTime \in Nat
  BY SomeDay, BlocksAssumption DEF Time
<1>3. Ensure(s, t) = s
  BY <1>2 DEF Ensure, Known
<1>4. /\ r.stats.day = s.stats.day /\ r.stats.today = s.stats.today
      /\ r.stats.blocked_count = s.stats.blocked_count + 1
      /\ r.tracker = s.tracker /\ r.block = Longest(s.block, t, d)
  <2> DEFINE new == [s.stats EXCEPT !.blocked_count = @ + 1, !.last_blocked_at = t]
             u == Longest(s.block, t, d)
             p == <<PushTask(s.id, u)>>
  <2>1. r = [s EXCEPT !.stats = new, !.block = u, !.push = p]
    BY <1>3 DEF BlockEntity
  <2>2. /\ new.day = s.stats.day /\ new.today = s.stats.today
        /\ new.blocked_count = s.stats.blocked_count + 1
    BY SectionFields
  <2>3. r.stats = new /\ r.block = u /\ r.tracker = s.tracker
    <3> HIDE DEF new, u, p, r
    <3> QED
      BY <2>1, SectionFields
  <2> QED
    BY <2>2, <2>3
<1>6. /\ Longest(s.block, t, d) \in Nat /\ Longest(s.block, t, d) >= s.block
      /\ Longest(s.block, t, d) >= t + d
  <2>1. s.block \in Block
    BY SectionFields
  <2> QED
    BY <2>1, LongestFacts, BlocksAssumption DEF Until
<1> QED
  BY <1>1, <1>4, <1>6

\* A violation that is blocked is covered.
LEMMA BlockIfUpdating ==
    ASSUME NEW S, NEW C, StatsType(S, C), NEW o, Opening(o),
           NEW t \in Time, t >= DayLen, NEW d \in 1 .. MaxBlock,
           NEW D \in SUBSET C, NEW lim \in LimitsFor(C), NEW n,
           NEW s \in Updating(S, o, t, D, lim, n), NEW over
    PROVE  BlockIf(over, s, t, d) \in Updating(S, o, t, D, lim, n)
<1> DEFINE r == BlockEntity(s, t, d)
<1>1. s \in Section(S, o.id, o.block, t) /\ s.stats.day = DayKey(t)
  BY DEF Updating, Reached
<1>2. /\ r \in Section(S, o.id, o.block, t)
      /\ r.stats.day = s.stats.day /\ r.stats.today = s.stats.today
      /\ r.stats.blocked_count = s.stats.blocked_count + 1
      /\ r.tracker = s.tracker /\ r.block \in Nat /\ r.block >= s.block
  BY <1>1, BlockEntityFields DEF Opening
<1> HIDE DEF r
<1>3. s.block \in Nat /\ s.stats.blocked_count \in Nat /\ t \in Nat /\ MaxTime \in Nat
  BY <1>1, SectionFields, BlocksAssumption DEF Block, Until, NoBlock, Time
<1>4. Covered(r, t, D, lim)
  BY <1>2, <1>3 DEF Updating, Reached, Covered, DayCovered, MinuteCovered, ZeroBefore
<1>5. Escalated(o, r, t, lim) /\ FromZero(o, r, lim, n)
  <2>1. CASE s.stats.blocked_count >= o.stats.blocked_count
    <3>1. r.stats.blocked_count >= o.stats.blocked_count
      BY <1>2, <1>3, <2>1 DEF Opening
    <3> QED
      BY <1>2, <3>1 DEF Updating, Reached, Escalated, FromZero
  <2>2. CASE ~(s.stats.blocked_count >= o.stats.blocked_count)
    BY <1>2, <2>2 DEF Updating, Reached, Escalated, FromZero
  <2> QED
    BY <2>1, <2>2
<1>6. r \in Updating(S, o, t, D, lim, n)
  BY <1>1, <1>2, <1>4, <1>5 DEF Updating, Reached
<1> QED
  BY <1>6 DEF BlockIf, r

\* A call past a daily limit that blocks for a day or more covers that limit again.
LEMMA BlockOverUpdating ==
    ASSUME NEW S, NEW C, StatsType(S, C), NEW o, Opening(o),
           NEW t \in Time, t >= DayLen, NEW d \in DayLen .. MaxBlock,
           NEW D \in SUBSET C, NEW lim \in LimitsFor(C), NEW n \in Nat, NEW c \in D,
           NEW s \in Updating(S, o, t, D \ {c}, lim, n)
    PROVE  BlockIf(s.stats.today[c] > lim.daily[c], s, t, d) \in Updating(S, o, t, D, lim, n)
<1> DEFINE E == D \ {c}
           over == s.stats.today[c] > lim.daily[c]
           r == BlockIf(over, s, t, d)
<1>1. d \in 1 .. MaxBlock /\ d >= DayLen /\ DayLen \in Nat \ {0} /\ d \in Nat
  BY CalendarAssumption, BlocksAssumption
<1>2. E \in SUBSET C /\ s \in Section(S, o.id, o.block, t) /\ s.stats.day = DayKey(t)
      /\ t \in Nat /\ MaxTime \in Nat
  BY BlocksAssumption DEF Updating, Reached, Time
<1>3. r \in Updating(S, o, t, E, lim, n)
  <2> HIDE DEF over, E
  <2>1. s \in Updating(S, o, t, E, lim, n)
    BY DEF E
  <2> QED
    BY <1>1, <1>2, <2>1, BlockIfUpdating
<1>4. r.stats.today = s.stats.today /\ r.stats.day = s.stats.day
      /\ (over => r.block \in Nat /\ r.block >= t + d)
  <2> HIDE DEF over
  <2>1. BlockEntity(s, t, d).stats.today = s.stats.today
        /\ BlockEntity(s, t, d).stats.day = s.stats.day
        /\ BlockEntity(s, t, d).block \in Nat /\ BlockEntity(s, t, d).block >= t + d
    BY <1>1, <1>2, BlockEntityFields DEF Opening
  <2> QED
    BY <2>1 DEF BlockIf
<1>5. over => \A x \in t .. MaxTime : DayKey(x) = r.stats.day => x < r.block
  <2> SUFFICES ASSUME over, NEW x \in t .. MaxTime, DayKey(x) = r.stats.day
               PROVE  x < r.block
    OBVIOUS
  <2>1. x \in Nat /\ DayKey(x) = DayKey(t)
    BY <1>2, <1>4
  <2>2. x < t + DayLen
    BY <1>2, <2>1, SameDay
  <2> HIDE DEF over, r
  <2> QED
    BY <1>1, <1>2, <1>4, <2>1, <2>2
<1>6. DayKey(t) # NoDay
  BY <1>2, SomeDay
<1> HIDE DEF r
<1>7. DayCovered(r, t, D, lim)
  <2> SUFFICES ASSUME NEW k \in D, r.stats.today[k] > lim.daily[k]
               PROVE  \A x \in t .. MaxTime : DayKey(x) = r.stats.day => x < r.block
    BY DEF DayCovered
  <2>1. CASE k = c
    BY <1>4, <1>5, <2>1
  <2>2. CASE k # c
    BY <1>3, <2>2 DEF Updating, Reached, Covered, DayCovered
  <2> QED
    BY <2>1, <2>2
<1>8. MinuteCovered(r, t, lim) /\ ZeroBefore(r, lim) /\ Escalated(o, r, t, lim)
      /\ r \in Section(S, o.id, o.block, t) /\ r.stats.day = DayKey(t)
  BY <1>2, <1>3, <1>4, <1>6 DEF Updating, Reached, Covered, ZeroBefore
<1>9. FromZero(o, r, lim, n)
  BY <1>3, <1>4 DEF Updating, Reached, FromZero
<1> QED
  BY <1>7, <1>8, <1>9 DEF Updating, Reached, Covered, r, over

\* A call past the limit of the minute that blocks for a minute or more covers it again.
LEMMA RateLimitUpdating ==
    ASSUME NEW S, NEW C, StatsType(S, C), NEW o, Opening(o),
           NEW t \in Time, t >= DayLen, NEW d \in MinuteLen .. MaxBlock,
           NEW D \in SUBSET C, NEW lim \in LimitsFor(C), NEW n \in Nat,
           NEW s \in Updating(S, o, t, D, lim, n)
    PROVE  LET m == CountThisMinute(s, t)
           IN  BlockIf(m.tracker.count > lim.minute, m, t, d) \in Updating(S, o, t, D, lim, n)
<1> DEFINE m == CountThisMinute(s, t)
           over == m.tracker.count > lim.minute
           b == BlockEntity(m, t, d)
           r == BlockIf(over, m, t, d)
<1> SUFFICES r \in Updating(S, o, t, D, lim, n)
  OBVIOUS
<1>1. d \in 1 .. MaxBlock /\ d >= MinuteLen /\ MinuteLen \in Nat \ {0} /\ d \in Nat
      /\ lim.minute \in Nat /\ t \in Nat /\ MaxTime \in Nat
  BY CalendarAssumption, BlocksAssumption DEF LimitsFor, Time
<1>2. s \in Section(S, o.id, o.block, t) /\ s.stats.day = DayKey(t) /\ Covered(s, t, D, lim)
      /\ Escalated(o, s, t, lim) /\ FromZero(o, s, lim, n)
  BY DEF Updating, Reached
<1>3. /\ m \in Section(S, o.id, o.block, t)
      /\ m.stats = s.stats /\ m.block = s.block /\ m.tracker.minute = MinuteKey(t)
      /\ m.tracker.count \in Nat
  <2>1. m \in Section(S, o.id, o.block, t)
    BY <1>2, CountThisMinuteSection
  <2>2. m.stats = s.stats /\ m.block = s.block /\ m.tracker.minute = MinuteKey(t)
    BY <1>2, SectionFields DEF CountThisMinute
  <2>3. m.tracker.count \in Nat
    BY <2>1 DEF Section, Tracker
  <2> QED
    BY <2>1, <2>2, <2>3
<1> HIDE DEF m
<1>4. /\ b \in Section(S, o.id, o.block, t)
      /\ b.stats.day = s.stats.day /\ b.stats.today = s.stats.today
      /\ b.stats.blocked_count = s.stats.blocked_count + 1
      /\ b.tracker = m.tracker
      /\ b.block \in Nat /\ b.block >= s.block /\ b.block >= t + d
  BY <1>1, <1>2, <1>3, BlockEntityFields DEF Opening
<1> HIDE DEF b
<1>5. s.block \in Nat /\ s.stats.blocked_count \in Nat
  BY <1>2, SectionFields, BlocksAssumption DEF Block, Until, NoBlock
<1>6. CASE over
  <2>1. r = b
    BY <1>6 DEF BlockIf, b
  <2>2. \A x \in t .. MaxTime : MinuteKey(x) = b.tracker.minute => x < b.block
    <3> SUFFICES ASSUME NEW x \in t .. MaxTime, MinuteKey(x) = b.tracker.minute
                 PROVE  x < b.block
      OBVIOUS
    <3>1. x \in Nat /\ MinuteKey(x) = MinuteKey(t)
      BY <1>1, <1>3, <1>4
    <3>2. x < t + MinuteLen
      BY <1>1, <3>1, SameMinute
    <3> QED
      BY <1>1, <1>4, <3>1, <3>2
  <2>3. DayCovered(b, t, D, lim) /\ ZeroBefore(b, lim)
    BY <1>1, <1>2, <1>4, <1>5 DEF Covered, DayCovered, ZeroBefore
  <2>4. Escalated(o, b, t, lim) /\ FromZero(o, b, lim, n)
    <3>1. s.stats.blocked_count >= o.stats.blocked_count
              => b.stats.blocked_count >= o.stats.blocked_count
      BY <1>4, <1>5 DEF Opening
    <3> QED
      BY <1>2, <1>4, <3>1 DEF Escalated, FromZero
  <2>5. b \in Updating(S, o, t, D, lim, n)
    BY <1>2, <1>4, <2>2, <2>3, <2>4 DEF Updating, Reached, Covered, MinuteCovered
  <2> QED
    BY <2>1, <2>5
<1>7. CASE ~over
  <2>1. r = m
    BY <1>7 DEF BlockIf
  <2>2. m \in Updating(S, o, t, D, lim, n)
    BY <1>2, <1>3, <1>7
       DEF Updating, Reached, Covered, DayCovered, MinuteCovered, ZeroBefore, Escalated, FromZero
  <2> QED
    BY <2>1, <2>2
<1> QED
  BY <1>6, <1>7

(***************************************************************************)
(* The steps of an observer keep what is covered, as a predicate of the    *)
(* state of an entity, and let its offences fall only as they may.         *)
(***************************************************************************)
CoveredNow(e, D, lim) == Covered(Begin(e), now, D, lim)

\* After a step in which an entity is not touched, or only time has passed.
LEMMA LaterCovered ==
    ASSUME NEW S, StateOK(S), NEW e \in Entity, NEW D, NEW lim, CoveredNow(e, D, lim),
           stats'[e] = stats[e], tracker'[e] = tracker[e], blocked'[e] = blocked[e],
           now' \in Nat, now' >= now
    PROVE  CoveredNow(e, D, lim)'
<1>1. now \in Nat /\ MaxTime \in Nat
  BY CalendarAssumption, BlocksAssumption DEF StateOK
<1>2. \A x \in now' .. MaxTime : x \in now .. MaxTime
  BY <1>1
<1>3. /\ Begin(e).stats' = Begin(e).stats /\ Begin(e).tracker' = Begin(e).tracker
      /\ Begin(e).block' = Begin(e).block
  BY DEF Begin
<1>4. CoveredNow(e, D, lim)' <=> Covered(Begin(e)', now', D, lim)
  BY DEF CoveredNow, Covered, DayCovered, MinuteCovered, ZeroBefore
<1>5. Covered(Begin(e), now, D, lim)
  BY DEF CoveredNow
<1> QED
  BY <1>2, <1>3, <1>4, <1>5 DEF Covered, DayCovered, MinuteCovered, ZeroBefore

\* A section that is left, and what it does to the entity.
LEMMA LeaveReached ==
    ASSUME NEW S, NEW C, StatsType(S, C), StateOK(S), NEW e \in Entity,
           NEW D, NEW lim, NEW n,
           NEW s \in Reached(S, Begin(e), now, D, lim, n), Leave(e, s)
    PROVE  /\ StateOK(S)' /\ Registry!Call(e)
           /\ CoveredNow(e, D, lim)'
           /\ \A f \in Entity \ {e} :
                 stats'[f] = stats[f] /\ tracker'[f] = tracker[f] /\ blocked'[f] = blocked[f]
           /\ now' = now
           /\ \/ stats'[e].blocked_count >= stats[e].blocked_count
              \/ stats[e].day # DayKey(now) /\ now - stats[e].last_blocked_at >= lim.after
           /\ StartsFromZero(e, lim.reset, n)
<1>1. Begin(e).id = e /\ Begin(e).block = blocked[e] /\ Begin(e).stats = stats[e]
  BY DEF Begin
<1>2. s \in Section(S, e, blocked[e], now) /\ Covered(s, now, D, lim)
      /\ Escalated(Begin(e), s, now, lim) /\ FromZero(Begin(e), s, lim, n)
  BY <1>1 DEF Reached
<1>3. StateOK(S)' /\ Registry!Call(e)
  BY <1>2, LeaveIsCall
<1>4. stats'[e] = s.stats /\ tracker'[e] = s.tracker /\ blocked'[e] = s.block /\ now' = now
  BY DEF StateOK, Leave
<1>5. \A f \in Entity \ {e} :
         stats'[f] = stats[f] /\ tracker'[f] = tracker[f] /\ blocked'[f] = blocked[f]
  BY DEF StateOK, Leave
<1>6. CoveredNow(e, D, lim)'
  <2>1. /\ Begin(e).stats' = s.stats /\ Begin(e).tracker' = s.tracker
        /\ Begin(e).block' = s.block
    BY <1>4 DEF Begin
  <2>2. CoveredNow(e, D, lim)' <=> Covered(Begin(e)', now', D, lim)
    BY DEF CoveredNow, Covered, DayCovered, MinuteCovered, ZeroBefore
  <2> QED
    BY <1>2, <1>4, <2>1, <2>2 DEF Covered, DayCovered, MinuteCovered, ZeroBefore
<1>7. \/ stats'[e].blocked_count >= stats[e].blocked_count
      \/ stats[e].day # DayKey(now) /\ now - stats[e].last_blocked_at >= lim.after
  BY <1>1, <1>2, <1>4 DEF Escalated
<1>8. StartsFromZero(e, lim.reset, n)
  BY <1>1, <1>2, <1>4 DEF FromZero, StartsFromZero
<1> QED
  BY <1>3, <1>4, <1>5, <1>6, <1>7, <1>8

\* A cleanup of some kind of entity, in a state and with constants as they are.
Cleaning(S, C, kind, retention, none, D, lim) ==
    /\ StatsType(S, C) /\ StateOK(S)
    /\ kind \in SUBSET Entity /\ retention \in Nat
    /\ none \in S /\ none.day = NoDay /\ \A c \in C : none.today[c] = 0
    /\ D \in SUBSET C /\ lim \in LimitsFor(C)
    /\ Forget(kind, retention, none)

\* A cleanup forgets an entity altogether or leaves it as it is.
LEMMA ForgetKeeps ==
    ASSUME NEW S, NEW C, NEW kind, NEW retention, NEW none, NEW D, NEW lim,
           Cleaning(S, C, kind, retention, none, D, lim),
           NEW e \in Entity, CoveredNow(e, D, lim)
    PROVE  /\ CoveredNow(e, D, lim)'
           /\ \/ stats'[e] = stats[e]
              \/ /\ e \in kind /\ stats'[e].day = NoDay
                 /\ blocked[e] = NoBlock
                 /\ now - stats[e].last_api_request_at > retention
           /\ \A c \in lim.reset : stats'[e] # stats[e] => stats'[e].today[c] = 0
<1> USE DEF Cleaning
<1>1. CASE e \in kind /\ Forgettable(e, retention)
  <2>1. stats'[e] = none /\ tracker'[e] = NoTracker /\ blocked'[e] = NoBlock /\ now' = now
    BY <1>1 DEF Forget
  <2>2. CoveredNow(e, D, lim)'
    <3>1. Begin(e).stats' = none /\ Begin(e).tracker' = NoTracker
      BY <2>1 DEF Begin
    <3>2. CoveredNow(e, D, lim)' <=> Covered(Begin(e)', now', D, lim)
      BY DEF CoveredNow, Covered, DayCovered, MinuteCovered, ZeroBefore
    <3>3. lim.reset \in SUBSET C /\ \A c \in D : ~(0 > lim.daily[c])
      BY DEF LimitsFor
    <3>4. NoTracker.count = 0 /\ ~(0 > lim.minute)
      BY DEF NoTracker, LimitsFor
    <3> QED
      BY <3>1, <3>2, <3>3, <3>4 DEF Covered, DayCovered, MinuteCovered, ZeroBefore
  <2>3. now - stats[e].last_api_request_at > retention
    <3>1. now \in Nat
      BY CalendarAssumption, BlocksAssumption DEF StateOK
    <3>2. stats[e].last_api_request_at \in Time
      BY DEF StateOK, StatsType
    <3> QED
      BY <1>1, <3>1, <3>2, BlocksAssumption DEF Forgettable, Time
  <2>4. \A c \in lim.reset : stats'[e].today[c] = 0
    BY <2>1 DEF LimitsFor
  <2> QED
    BY <1>1, <2>1, <2>2, <2>3, <2>4 DEF Forgettable
<1>2. CASE ~(e \in kind /\ Forgettable(e, retention))
  <2>1. /\ stats'[e] = stats[e] /\ tracker'[e] = tracker[e] /\ blocked'[e] = blocked[e]
        /\ now' = now
    BY <1>2 DEF Forget
  <2>2. now' \in Nat /\ now' >= now
    BY <2>1, CalendarAssumption, BlocksAssumption DEF StateOK
  <2>3. CoveredNow(e, D, lim)'
    BY <2>1, <2>2, LaterCovered
  <2> QED
    BY <2>1, <2>3
<1> QED
  BY <1>1, <1>2

\* At the start nothing is counted.
LEMMA StartCovered ==
    ASSUME NEW none, Start(none), NEW C, \A c \in C : none.today[c] = 0,
           NEW D \in SUBSET C, NEW lim \in LimitsFor(C), NEW e \in Entity
    PROVE  CoveredNow(e, D, lim)
<1>1. stats[e] = none /\ tracker[e] = NoTracker
  BY DEF Start
<1>2. Begin(e).stats = none /\ Begin(e).tracker.count = 0
  BY <1>1 DEF Begin, NoTracker
<1>3. lim.reset \in SUBSET C /\ \A c \in D : ~(0 > lim.daily[c])
  BY DEF LimitsFor
<1>4. ~(0 > lim.minute)
  BY DEF LimitsFor
<1> QED
  BY <1>2, <1>3, <1>4 DEF CoveredNow, Covered, DayCovered, MinuteCovered, ZeroBefore
===============================================================================
