SPECIFICATION FairSpec
CONSTANTS
    Entity = {e1, e2}
    Caller = {c1, c2}
    QueueCap = 1
    MaxTime = 1
    MaxBlock = 1
INVARIANTS TypeOK NeverOverblocks InSync
PROPERTIES WrittenBlocksSurvive BlockReachesDb
