SPECIFICATION Spec
CONSTANTS
    Entity = {ip1}
    Conn = {c1, c2}
    MaxTime = 8
    MaxBlock = 5
    MinuteLen = 1
    DayLen = 3
    Forgiveness = 3
    Retention = 4
    DayBlock = 3
    MaxPerMinute = 1
    MaxWs = 1
    MaxOffences = 2
    MaxDaily <- MCMaxDaily
    IpLevels <- MCIpLevels
    WsLevels <- MCWsLevels
    TokenLevels <- MCTokenLevels
    TokenCounts <- MCTokenCounts
INVARIANTS TypeOK OverLimitIsBlocked
PROPERTIES EscalationKept BlocksKept
