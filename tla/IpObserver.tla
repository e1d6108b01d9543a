------------------------------ MODULE IpObserver ------------------------------
(***************************************************************************)
(* The IP observer: usage counters, limits and blocks per IP address.  It  *)
(* is built like the user observer and differs in what it counts, in the   *)
(* forgiveness period being over when it is reached (>=, not >), and in    *)
(* the refresh tokens it counts where the user observer counts access      *)
(* tokens.                                                                 *)
(***************************************************************************)
EXTENDS ObserverState

CONSTANTS
    Conn,           \* WebSocket connection ids
    TokenCounts,    \* sizes of agent inputs, in tokens
    MaxDaily,       \* limit of each daily counter
    MaxPerMinute,   \* MAX_PER_MINUTE_REQUESTS_PER_IP
    MaxWs,          \* MAX_WS_CONNECTIONS_PER_IP
    IpLevels, WsLevels, TokenLevels,  \* block durations, by offence
    DayBlock,       \* HOURS_IN_SECONDS_24
    Retention,      \* _retention_time_s
    MaxOffences     \* bound: an IP address blocked this often makes no further call

Counter == {"requests", "bad_requests", "agent_input_tokens",
            "refresh_tokens_generated", "claim_cookies_generated"}

\* The counters that _reset_ip_stats_if_new_day zeroes.
ResetDaily == {"requests", "bad_requests", "agent_input_tokens"}

ASSUME IpAssumption ==
    /\ MaxDaily \in [Counter -> Nat]
    /\ MaxPerMinute \in Nat /\ MaxWs \in Nat /\ MaxOffences \in Nat
    /\ TokenCounts \subseteq Nat
    /\ IpLevels \in [1 .. 3 -> MinuteLen .. MaxBlock]
    /\ WsLevels \in [1 .. 3 -> 1 .. MaxBlock]
    /\ TokenLevels \in [1 .. 3 -> DayLen .. MaxBlock]
    /\ DayBlock \in DayLen .. MaxBlock
    /\ Retention \in Nat
    /\ MinuteLen <= DayLen

NoStats ==
    [day |-> NoDay, blocked_count |-> 0, last_blocked_at |-> NoTime,
     last_api_request_at |-> NoTime, active_ws_connections |-> {},
     today |-> [c \in Counter |-> 0]]

Stats ==
    [day : Nat, blocked_count : Nat, last_blocked_at : 0 .. MaxTime,
     last_api_request_at : 0 .. MaxTime, active_ws_connections : SUBSET Conn,
     today : [Counter -> Nat]]

TypeOK == StateOK(Stats)

Init == Start(NoStats)
-------------------------------------------------------------------------------
\* Faulty variant: the forgiveness period is taken for half as long.
ResetAndUnblockFault(s) ==
    UnblockIfExpired(ResetIfNewDay(s, now, ResetDaily, Forgiveness \div 2), now, 0)

ResetAndUnblock(s) ==
    UnblockIfExpired(ResetIfNewDay(s, now, ResetDaily, Forgiveness), now, 0)

\* The start of every update: resets, then the stats exist.
Enter(ip) == Ensure(ResetAndUnblock(Begin(ip)), now)

IpDuration(s)    == Level(IpLevels, s.stats.blocked_count)
WsDuration(s)    == Level(WsLevels, s.stats.blocked_count)
TokenDuration(s) == Level(TokenLevels, s.stats.blocked_count)

Over(s, c) == s.stats.today[c] > MaxDaily[c]

IncrementAndCheckRateLimit(s) ==
    LET m == CountThisMinute(s, now)
    IN  BlockIf(m.tracker.count > MaxPerMinute, m, now, IpDuration(m))

Bound(ip) == stats[ip].blocked_count < MaxOffences
-------------------------------------------------------------------------------
IsIpBlocked(ip) ==
    Leave(ip, ResetAndUnblock(Begin(ip)))

UpdateLatestRequest(ip) ==
    LET s0 == CountToday(Enter(ip), "requests", 1)
        s1 == IncrementAndCheckRateLimit([s0 EXCEPT !.stats.last_api_request_at = now])
    IN  /\ Bound(ip)
        /\ Leave(ip, BlockIf(Over(s1, "requests"), s1, now, DayBlock))

AddBadRequest(ip) ==
    LET s == CountToday(Enter(ip), "bad_requests", 1)
    IN  /\ Bound(ip)
        /\ Leave(ip, BlockIf(Over(s, "bad_requests"), s, now, DayBlock))

AddWsConnection(ip, c) ==
    LET s0 == Enter(ip)
        s  == [s0 EXCEPT !.stats.active_ws_connections = @ \cup {c}]
    IN  /\ Bound(ip)
        /\ Leave(ip, BlockIf(Cardinality(s.stats.active_ws_connections) > MaxWs,
                            s, now, WsDuration(s)))

RemoveWsConnection(ip, c) ==
    LET s == ResetAndUnblock(Begin(ip))
    IN  Leave(ip, [s EXCEPT !.stats.active_ws_connections = @ \ {c}])

AddAgentInputTokens(ip, n) ==
    LET s0 == CountToday(Enter(ip), "agent_input_tokens", n)
        s1 == IncrementAndCheckRateLimit(s0)
    IN  /\ Bound(ip)
        /\ Leave(ip, BlockIf(Over(s1, "agent_input_tokens"), s1, now, TokenDuration(s1)))

\* Shared shape of add_rt_generation and add_claim_cookie_generation.
AddGeneration(ip, c) ==
    LET s == CountToday(Enter(ip), c, 1)
    IN  /\ Bound(ip)
        /\ Leave(ip, BlockIf(Over(s, c), s, now, IpDuration(s)))

AddRtGeneration(ip) == AddGeneration(ip, "refresh_tokens_generated")

AddClaimCookieGeneration(ip) == AddGeneration(ip, "claim_cookies_generated")

Cleanup == Forget(Entity, Retention, NoStats)

Next ==
    \/ Tick
    \/ Cleanup
    \/ \E ip \in Entity :
        \/ IsIpBlocked(ip)
        \/ UpdateLatestRequest(ip)
        \/ AddBadRequest(ip)
        \/ \E c \in Conn : AddWsConnection(ip, c) \/ RemoveWsConnection(ip, c)
        \/ \E n \in TokenCounts : AddAgentInputTokens(ip, n)
        \/ AddRtGeneration(ip)
        \/ AddClaimCookieGeneration(ip)

Spec == Init /\ [][Next]_vars
-------------------------------------------------------------------------------
(***************************************************************************)
(* An IP address past a daily limit of today whose block lasts a day or    *)
(* more, or past the limit of this minute, is blocked now, whichever       *)
(* resets, unblockings and cleanups came in between.                       *)
(***************************************************************************)
OverLimitIsBlocked ==
    \A ip \in Entity :
        \/ /\ stats[ip].day = DayKey(now)
           /\ \E c \in ResetDaily : stats[ip].today[c] > MaxDaily[c]
        \/ /\ tracker[ip].minute = MinuteKey(now)
           /\ tracker[ip].count > MaxPerMinute
        => blocked[ip] > now

\* Offences are forgotten only as CountFallsOnly says (>= FORGIVENESS_PERIOD).
EscalationKept ==
    [][\A ip \in Entity : CountFallsOnly(ip, Forgiveness, Retention)]_vars
===============================================================================
