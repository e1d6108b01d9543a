SPECIFICATION FairStatsSpec
CONSTANTS
    Entity = {e1, e2}
    MaxChanges = 4
INVARIANTS StatsTypeOK ChangesArePending
PROPERTY ChangesReachDb
