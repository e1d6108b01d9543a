SPECIFICATION Spec
CONSTANTS
    RefreshToken = {rt}
    AccessToken = {at}
    Entity <- MCEntity
    MaxTime = 8
    MaxBlock = 5
    MinuteLen = 1
    DayLen = 3
    Forgiveness = 3
    RtRetention = 4
    AtRetention = 2
    AtBlock = 3
    MaxPerMinuteRt = 1
    MaxPerMinuteAt = 1
    MaxRtRequests = 2
    MaxOffences = 1
    MaxDaily <- MCMaxDaily
    RtLevels <- MCRtLevels
    TokenLevels <- MCTokenLevels
    TokenCounts <- MCTokenCounts
INVARIANTS TypeOK OverLimitIsBlocked
PROPERTIES BlocksKept
