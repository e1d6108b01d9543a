------------------------------ MODULE TokenObserver ------------------------------
(***************************************************************************)
(* The token observer: refresh and access tokens, with statistics in two   *)
(* maps but blocks and minute counters in one.  Token ids of both kinds    *)
(* are distinct (jti), so each token has its kind and one stats entry.     *)
(* A block is lifted only after its last second, not at it.                *)
(***************************************************************************)
EXTENDS ObserverState

CONSTANTS
    RefreshToken, AccessToken,  \* the ids of each kind of token
    TokenCounts,                \* sizes of agent inputs, in tokens
    MaxDaily,                   \* limit of each daily counter, for access tokens
    MaxRtRequests,              \* MAX_DAILY_REQUESTS_PER_RT
    MaxPerMinuteRt, MaxPerMinuteAt,
    RtLevels, TokenLevels,      \* block durations, by offence
    AtBlock,                    \* ACCESS_TOKEN_BLOCK_DURATION
    RtRetention, AtRetention,   \* seconds without a request before cleanup
    MaxOffences                 \* bound: a token blocked this often makes no further call

Counter == {"requests", "bad_requests", "agent_input_tokens",
            "claim_cookies_generated"}

\* The counters that _reset_token_block_count_if_new_day zeroes; requests_today
\* is not one of them, and the one it zeroes for refresh tokens is never counted.
ResetDaily == {"bad_requests", "agent_input_tokens", "claim_cookies_generated"}

ASSUME TokenAssumption ==
    /\ Entity = RefreshToken \cup AccessToken
    /\ RefreshToken \cap AccessToken = {}
    /\ MaxDaily \in [Counter -> Nat]
    /\ MaxRtRequests \in Nat /\ MaxPerMinuteRt \in Nat /\ MaxPerMinuteAt \in Nat
    /\ TokenCounts \subseteq Nat
    /\ RtLevels \in [1 .. 3 -> MinuteLen .. MaxBlock]
    /\ TokenLevels \in [1 .. 3 -> DayLen .. MaxBlock]
    /\ AtBlock \in DayLen .. MaxBlock
    /\ RtRetention \in Nat /\ AtRetention \in Nat /\ MaxOffences \in Nat
    /\ MinuteLen <= DayLen

NoStats ==
    [day |-> NoDay, blocked_count |-> 0, last_blocked_at |-> NoTime,
     last_api_request_at |-> NoTime, today |-> [c \in Counter |-> 0]]

Stats ==
    [day : Nat, blocked_count : Nat, last_blocked_at : 0 .. MaxTime,
     last_api_request_at : 0 .. MaxTime, today : [Counter -> Nat]]

TypeOK == StateOK(Stats)

Init == Start(NoStats)
-------------------------------------------------------------------------------
\* Faulty variant: a block is lifted a second before it ends.
ResetAndUnblockFault(s) ==
    LET r == ResetIfNewDay(s, now, ResetDaily, Forgiveness + 1)
    IN  UnblockIfExpired([r EXCEPT !.block = IF @ = now + 1 THEN now - 1 ELSE @], now, 1)

ResetAndUnblock(s) ==
    UnblockIfExpired(ResetIfNewDay(s, now, ResetDaily, Forgiveness + 1), now, 1)

Enter(k) == Ensure(ResetAndUnblock(Begin(k)), now)

RtDuration(s)    == Level(RtLevels, s.stats.blocked_count)
TokenDuration(s) == Level(TokenLevels, s.stats.blocked_count)

Over(s, c) == s.stats.today[c] > MaxDaily[c]

MinuteLimit(k)    == IF k \in RefreshToken THEN MaxPerMinuteRt ELSE MaxPerMinuteAt
MinuteDuration(s) == IF s.id \in RefreshToken THEN RtDuration(s) ELSE AtBlock

\* Faulty variant: a token is allowed one call too many.
IncrementAndCheckRateLimitFault(s) ==
    LET m == CountThisMinute(s, now)
    IN  BlockIf(m.tracker.count > MinuteLimit(s.id) + 1, m, now, MinuteDuration(m))

IncrementAndCheckRateLimit(s) ==
    LET m == CountThisMinute(s, now)
    IN  BlockIf(m.tracker.count > MinuteLimit(s.id), m, now, MinuteDuration(m))

Bound(k) == stats[k].blocked_count < MaxOffences
-------------------------------------------------------------------------------
IsTokenBlocked(k) == Leave(k, ResetAndUnblock(Begin(k)))

\* The request is counted, dated and checked against the minute's limit.
CountRequest(k) ==
    LET s == CountToday(Enter(k), "requests", 1)
    IN  IncrementAndCheckRateLimit([s EXCEPT !.stats.last_api_request_at = now])

UpdateLatestRtUsage(k) ==
    LET s == CountRequest(k)
    IN  /\ Bound(k)
        /\ Leave(k, BlockIf(s.stats.today["requests"] > MaxRtRequests,
                            s, now, RtDuration(s)))

UpdateLatestAtUsage(k) ==
    LET s == CountRequest(k)
    IN  /\ Bound(k)
        /\ Leave(k, BlockIf(Over(s, "requests"), s, now, AtBlock))

\* Shared shape of add_at_bad_request and add_at_claim_cookie_generation.
CountAndBlock(k, c) ==
    LET s == CountToday(Enter(k), c, 1)
    IN  /\ Bound(k)
        /\ Leave(k, BlockIf(Over(s, c), s, now, AtBlock))

AddAtBadRequest(k) == CountAndBlock(k, "bad_requests")

AddAtClaimCookieGeneration(k) == CountAndBlock(k, "claim_cookies_generated")

AddAtAgentInputTokens(k, n) ==
    LET s == IncrementAndCheckRateLimit(CountToday(Enter(k), "agent_input_tokens", n))
    IN  /\ Bound(k)
        /\ Leave(k, BlockIf(Over(s, "agent_input_tokens"), s, now, TokenDuration(s)))

RtCleanup == Forget(RefreshToken, RtRetention, NoStats)
AtCleanup == Forget(AccessToken, AtRetention, NoStats)

Next ==
    \/ Tick
    \/ RtCleanup
    \/ AtCleanup
    \/ \E k \in Entity : IsTokenBlocked(k)
    \/ \E k \in RefreshToken : UpdateLatestRtUsage(k)
    \/ \E k \in AccessToken :
        \/ UpdateLatestAtUsage(k)
        \/ AddAtBadRequest(k)
        \/ AddAtClaimCookieGeneration(k)
        \/ \E n \in TokenCounts : AddAtAgentInputTokens(k, n)

Spec == Init /\ [][Next]_vars
-------------------------------------------------------------------------------
(***************************************************************************)
(* An access token past a limit of today that is counted anew every day,   *)
(* and any token past the limit of this minute, is blocked now.            *)
(***************************************************************************)
OverLimitIsBlocked ==
    \A k \in Entity :
        \/ /\ k \in AccessToken
           /\ stats[k].day = DayKey(now)
           /\ \E c \in ResetDaily : stats[k].today[c] > MaxDaily[c]
        \/ /\ tracker[k].minute = MinuteKey(now)
           /\ tracker[k].count > MinuteLimit(k)
        => blocked[k] > now
===============================================================================
