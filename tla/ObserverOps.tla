------------------------------ MODULE ObserverOps ------------------------------
(***************************************************************************)
(* The steps the observers' locked sections are made of.  A section works  *)
(* on one entity; the record s carries that entity's state through it:     *)
(*   id, stats, tracker, block  - the entries of the observer's maps,      *)
(*   tasks  - the DELETE task of the unblocking at the start, if any,      *)
(*   push   - the PUSH task of the latest block in this call, if any.      *)
(* The observers write these steps out three times; where the copies       *)
(* differ, the difference is a parameter.  A missing map entry is the      *)
(* entry a first call would create, with day 0 or minute 0.                *)
(***************************************************************************)
EXTENDS Blocks, FiniteSetsExt

CONSTANTS
    MinuteLen,      \* seconds in a minute of the rate limit (60)
    DayLen,         \* seconds in a UTC day
    Forgiveness     \* FORGIVENESS_PERIOD_SECONDS

ASSUME CalendarAssumption ==
    /\ MinuteLen \in Nat \ {0}
    /\ DayLen \in 1 .. MaxTime
    /\ Forgiveness \in Nat \ {0}

NoTime  == 0        \* None in last_blocked_at, last_api_request_at
NoDay   == 0        \* the entity has no usage stats yet

DayKey(t)    == t \div DayLen
MinuteKey(t) == t - (t % MinuteLen)

NoTracker == [minute |-> 0, count |-> 0]

Known(s) == s.stats.day # NoDay

\* The stats are created on the entity's first update.
Ensure(s, t) == IF Known(s) THEN s ELSE [s EXCEPT !.stats.day = DayKey(t)]

(***************************************************************************)
(* A new day zeroes the counters in `daily` and, once `after` seconds have *)
(* passed since the last block, forgives the earlier blocks.               *)
(***************************************************************************)
ResetIfNewDay(s, t, daily, after) ==
    IF Known(s) /\ s.stats.day # DayKey(t)
    THEN [s EXCEPT
            !.stats.day = DayKey(t),
            !.stats.today = [c \in DOMAIN s.stats.today |->
                                IF c \in daily THEN 0 ELSE s.stats.today[c]],
            !.stats.blocked_count =
                IF /\ s.stats.last_blocked_at # NoTime
                   /\ t - s.stats.last_blocked_at >= after
                THEN 0 ELSE @]
    ELSE s

\* Faulty variant: the block is lifted a second early.
UnblockIfExpiredFault(s, t, late) ==
    IF s.block # NoBlock /\ t + 1 >= s.block + late
    THEN [s EXCEPT !.block = NoBlock, !.tasks = <<DeleteTask(s.id)>>]
    ELSE s

\* A block is lifted `late` seconds after it ends, by the next call that looks.
UnblockIfExpired(s, t, late) ==
    IF s.block # NoBlock /\ t >= s.block + late
    THEN [s EXCEPT !.block = NoBlock, !.tasks = <<DeleteTask(s.id)>>]
    ELSE s

\* Faulty variant: the new block replaces a longer one in force.
NewestFault(block, t, duration) == t + duration

\* Faulty variant: the new block is added to the one in force.
SumFault(block, t, duration) == (IF block > t THEN block ELSE t) + duration

\* The longer of a block in force and the new one stands.
Longest(block, t, duration) ==
    IF block > t THEN Max({block, t + duration}) ELSE t + duration

BlockEntity(s, t, duration) ==
    LET until == Longest(s.block, t, duration)
    IN  [Ensure(s, t) EXCEPT
            !.stats.blocked_count = @ + 1,
            !.stats.last_blocked_at = t,
            !.block = until,
            !.push = <<PushTask(s.id, until)>>]

BlockIf(over, s, t, duration) == IF over THEN BlockEntity(s, t, duration) ELSE s

\* The block durations for a first, a second and any later offence.
Level(levels, blocked_count) ==
    levels[IF blocked_count < 2 THEN blocked_count + 1 ELSE 3]

CountToday(s, c, n) == [s EXCEPT !.stats.today[c] = @ + n]

CountThisMinute(s, t) ==
    [s EXCEPT !.tracker =
        [minute |-> MinuteKey(t),
         count  |-> IF s.tracker.minute = MinuteKey(t) THEN s.tracker.count + 1 ELSE 1]]

\* What a call passes to _wait_for_db_task_queue after leaving the lock.
TasksOf(s) == s.tasks \o s.push
===============================================================================
