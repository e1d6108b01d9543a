----------------------------- MODULE ObserverState -----------------------------
(***************************************************************************)
(* The state every observer keeps per entity and how a locked section      *)
(* reads and writes it.  The lock sections never suspend, so a public      *)
(* method of an observer is one action, from Begin to Leave.  The hand-    *)
(* over of `emitted` to the write-back queue is modelled in BlockWriteBack.*)
(***************************************************************************)
EXTENDS ObserverOps

VARIABLES
    now,        \* get_timestamp_s()
    stats,      \* _user_stats, _ip_usage_stats, _at_usage_stats + _rt_usage_stats
    tracker,    \* _rate_limit_tracker(s)
    blocked,    \* _blocked_users, _blocked_ips, _blocked_tokens
    emitted     \* the write-back tasks of the latest call

vars == <<now, stats, tracker, blocked, emitted>>

StateOK(Stats) ==
    /\ now \in DayLen .. MaxTime
    /\ stats \in [Entity -> Stats]
    /\ tracker \in [Entity -> [minute : 0 .. MaxTime, count : Nat]]
    /\ blocked \in [Entity -> Block]
    /\ emitted \in Seq(Task)

\* The process starts with empty statistics and the blocks the database held,
\* expired ones included.  Time starts with day 1, so that 0 can mean "none".
Start(none) ==
    /\ now = DayLen
    /\ stats = [e \in Entity |-> none]
    /\ tracker = [e \in Entity |-> NoTracker]
    /\ blocked \in [Entity -> {NoBlock, DayLen, DayLen + MinuteLen}]
    /\ emitted = <<>>

Begin(e) ==
    [id |-> e, stats |-> stats[e], tracker |-> tracker[e], block |-> blocked[e],
     tasks |-> <<>>, push |-> <<>>]

Leave(e, s) ==
    /\ stats' = [stats EXCEPT ![e] = s.stats]
    /\ tracker' = [tracker EXCEPT ![e] = s.tracker]
    /\ blocked' = [blocked EXCEPT ![e] = s.block]
    /\ emitted' = TasksOf(s)
    /\ UNCHANGED now

(***************************************************************************)
(* The locked section of a cleanup over the entities in `kind`: those with *)
(* no block whose last API request is older than `retention` are forgotten *)
(* (popped from all three maps).  The deletions in the database come after *)
(* the lock.  Entities that only used WebSockets have no last request.     *)
(***************************************************************************)
\* Faulty variant: the cleanup does not look whether the entity is blocked.
ForgettableFault(e, retention) ==
    /\ stats[e].last_api_request_at # NoTime
    /\ stats[e].last_api_request_at < now - retention

Forgettable(e, retention) ==
    /\ stats[e].last_api_request_at # NoTime
    /\ stats[e].last_api_request_at < now - retention
    /\ blocked[e] = NoBlock

Forget(kind, retention, none) ==
    LET F == {e \in kind : Forgettable(e, retention)}
    IN  /\ F # {}
        /\ stats' = [e \in Entity |-> IF e \in F THEN none ELSE stats[e]]
        /\ tracker' = [e \in Entity |-> IF e \in F THEN NoTracker ELSE tracker[e]]
        /\ blocked' = [e \in Entity |-> IF e \in F THEN NoBlock ELSE blocked[e]]
        /\ emitted' = <<>>
        /\ UNCHANGED now

Tick ==
    /\ now < MaxTime
    /\ now' = now + 1
    /\ UNCHANGED <<stats, tracker, blocked, emitted>>

(***************************************************************************)
(* The parts of the observers' properties that do not depend on which      *)
(* observer it is.                                                         *)
(***************************************************************************)
\* blocked_count, which decides the level of the next block, falls only after
\* `after` seconds without a block, on a new day, or when cleanup forgets an
\* unblocked entity that sent no request for the retention time.
CountFallsOnly(e, after, retention) ==
    stats'[e].blocked_count < stats[e].blocked_count =>
        \/ /\ stats[e].day # DayKey(now)
           /\ now - stats[e].last_blocked_at >= after
        \/ /\ stats'[e].day = NoDay
           /\ blocked[e] = NoBlock
           /\ now - stats[e].last_api_request_at > retention

\* The first call on a new day finds the counters at zero, so that it leaves at
\* most its own contribution in them.
StartsFromZero(e, counters, largest) ==
    stats'[e].day # stats[e].day =>
        \A c \in counters : stats'[e].today[c] <= largest

Registry == INSTANCE BlockRegistry WITH now <- now, blocked <- blocked, emitted <- emitted

\* Every observer keeps what BlockRegistry promises: no block is lifted or
\* shortened before its time, and the emitted tasks tell what the call did.
BlocksKept == Registry!Spec
===============================================================================
