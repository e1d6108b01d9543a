------------------------------ MODULE UserObserver ------------------------------
(***************************************************************************)
(* The user observer: per-user usage counters, limits and blocks.  The     *)
(* update set of the periodic statistics push is modelled in StatsPush.    *)
(***************************************************************************)
EXTENDS ObserverState

CONSTANTS
    Conn,           \* WebSocket connection ids
    TokenCounts,    \* sizes of agent inputs, in tokens
    MaxDaily,       \* limit of each daily counter
    MaxPerMinute,   \* MAX_PER_MINUTE_REQUESTS_PER_USER
    MaxWs,          \* MAX_WS_CONNECTIONS_PER_USER
    UserLevels, WsLevels, TokenLevels,  \* block durations, by offence
    DayBlock,       \* HOURS_IN_SECONDS_24
    Retention,      \* _retention_time_s
    MaxOffences     \* bound: a user blocked this often makes no further call

Counter == {"requests", "bad_requests", "agent_input_tokens",
            "access_tokens_generated", "claim_cookies_generated"}

\* Faulty variant: a new day forgets to zero the agent's input tokens.
ResetDailyFault == {"requests", "bad_requests"}

\* The counters that _reset_user_stats_if_new_day zeroes.
ResetDaily == {"requests", "bad_requests", "agent_input_tokens"}

ASSUME UserAssumption ==
    /\ MaxDaily \in [Counter -> Nat]
    /\ MaxPerMinute \in Nat /\ MaxWs \in Nat /\ MaxOffences \in Nat
    /\ TokenCounts \subseteq Nat
    /\ \E n \in TokenCounts : \A m \in TokenCounts : m <= n    \* MAX_INPUT_LENGTH
    /\ UserLevels \in [1 .. 3 -> MinuteLen .. MaxBlock]
    /\ WsLevels \in [1 .. 3 -> 1 .. MaxBlock]
    /\ TokenLevels \in [1 .. 3 -> DayLen .. MaxBlock]
    /\ DayBlock \in DayLen .. MaxBlock
    /\ Retention \in Nat
    /\ MinuteLen <= DayLen

NoStats ==
    [day |-> NoDay, blocked_count |-> 0, last_blocked_at |-> NoTime,
     last_api_request_at |-> NoTime, active_ws_connections |-> {},
     today |-> [c \in Counter |-> 0]]

Stats ==
    [day : Nat, blocked_count : Nat, last_blocked_at : 0 .. MaxTime,
     last_api_request_at : 0 .. MaxTime, active_ws_connections : SUBSET Conn,
     today : [Counter -> Nat]]

TypeOK == StateOK(Stats)

Init == Start(NoStats)
-------------------------------------------------------------------------------
\* Faulty variant: blocks are forgiven as soon as a new day begins.
ResetAndUnblockFault(s) ==
    UnblockIfExpired(ResetIfNewDay(s, now, ResetDaily, 0), now, 0)

ResetAndUnblock(s) ==
    UnblockIfExpired(ResetIfNewDay(s, now, ResetDaily, Forgiveness + 1), now, 0)

\* The start of every update: resets, then the stats exist.
Enter(u) == Ensure(ResetAndUnblock(Begin(u)), now)

UserDuration(s)  == Level(UserLevels, s.stats.blocked_count)
WsDuration(s)    == Level(WsLevels, s.stats.blocked_count)
TokenDuration(s) == Level(TokenLevels, s.stats.blocked_count)

\* Faulty variant: the limit itself is taken as one call too many allowed.
OverFault(s, c) == s.stats.today[c] > MaxDaily[c] + 1

Over(s, c) == s.stats.today[c] > MaxDaily[c]

IncrementAndCheckRateLimit(s) ==
    LET m == CountThisMinute(s, now)
    IN  BlockIf(m.tracker.count > MaxPerMinute, m, now, UserDuration(m))

Bound(u) == stats[u].blocked_count < MaxOffences
-------------------------------------------------------------------------------
IsUserBlocked(u) ==
    Leave(u, ResetAndUnblock(Begin(u)))

UpdateLatestRequest(u) ==
    LET s0 == CountToday(Enter(u), "requests", 1)
        s1 == IncrementAndCheckRateLimit([s0 EXCEPT !.stats.last_api_request_at = now])
    IN  /\ Bound(u)
        /\ Leave(u, BlockIf(Over(s1, "requests"), s1, now, DayBlock))

AddBadRequest(u) ==
    LET s == CountToday(Enter(u), "bad_requests", 1)
    IN  /\ Bound(u)
        /\ Leave(u, BlockIf(Over(s, "bad_requests"), s, now, DayBlock))

AddWsConnection(u, c) ==
    LET s0 == Enter(u)
        s  == [s0 EXCEPT !.stats.active_ws_connections = @ \cup {c}]
    IN  /\ Bound(u)
        /\ Leave(u, BlockIf(Cardinality(s.stats.active_ws_connections) > MaxWs,
                            s, now, WsDuration(s)))

RemoveWsConnection(u, c) ==
    LET s == ResetAndUnblock(Begin(u))
    IN  Leave(u, [s EXCEPT !.stats.active_ws_connections = @ \ {c}])

AddAgentInputTokens(u, n) ==
    LET s0 == CountToday(Enter(u), "agent_input_tokens", n)
        s1 == IncrementAndCheckRateLimit(s0)
    IN  /\ Bound(u)
        /\ Leave(u, BlockIf(Over(s1, "agent_input_tokens"), s1, now, TokenDuration(s1)))

\* Shared shape of add_at_generation and add_claim_cookie_generation.
AddGeneration(u, c) ==
    LET s == CountToday(Enter(u), c, 1)
    IN  /\ Bound(u)
        /\ Leave(u, BlockIf(Over(s, c), s, now, UserDuration(s)))

AddAtGeneration(u) == AddGeneration(u, "access_tokens_generated")

AddClaimCookieGeneration(u) == AddGeneration(u, "claim_cookies_generated")

Cleanup == Forget(Entity, Retention, NoStats)

Next ==
    \/ Tick
    \/ Cleanup
    \/ \E u \in Entity :
        \/ IsUserBlocked(u)
        \/ UpdateLatestRequest(u)
        \/ AddBadRequest(u)
        \/ \E c \in Conn : AddWsConnection(u, c) \/ RemoveWsConnection(u, c)
        \/ \E n \in TokenCounts : AddAgentInputTokens(u, n)
        \/ AddAtGeneration(u)
        \/ AddClaimCookieGeneration(u)

Spec == Init /\ [][Next]_vars
-------------------------------------------------------------------------------
\* The limits that hold per day and whose violation blocks for a day or more.
Enforced == {"requests", "bad_requests", "agent_input_tokens"}

(***************************************************************************)
(* Whatever sequence of resets, unblockings, cleanups and counts led here: *)
(* a user past a daily limit of today whose block lasts a day or more, or  *)
(* past the limit of this minute, is blocked now.                          *)
(***************************************************************************)
OverLimitIsBlocked ==
    \A u \in Entity :
        \/ /\ stats[u].day = DayKey(now)
           /\ \E c \in Enforced : stats[u].today[c] > MaxDaily[c]
        \/ /\ tracker[u].minute = MinuteKey(now)
           /\ tracker[u].count > MaxPerMinute
        => blocked[u] > now

\* Offences are forgotten only as CountFallsOnly says (> FORGIVENESS_PERIOD).
EscalationKept ==
    [][\A u \in Entity : CountFallsOnly(u, Forgiveness + 1, Retention)]_vars

LargestCount == Max(TokenCounts \cup {1})

\* Yesterday's requests, bad requests and input tokens do not count today
\* (_reset_user_stats_if_new_day).
DayStartsFromZero ==
    [][\A u \in Entity : StartsFromZero(u, Enforced, LargestCount)]_vars
===============================================================================
