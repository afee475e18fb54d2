SPECIFICATION FairSpec
CONSTANTS
    Procs = {p1, p2}
    Tasks = {1}
    Legacy = {}
    LegacyLease = 1
    MaxAge = 1
    MaxTasks = 1
    Duration = 1
    Grace = 3
    Slack = 1
    Punctual = TRUE
    StoreFaults = TRUE
    MaxEvents = 6
    MaxTime = 6
    LegacyOwner = legacy
    NoOwner = noOwner
    NoLease = noLease
    NoAppend = noAppend
INVARIANTS
    LiveOwnerKeepsTask
    VerdictEndsLog
PROPERTIES
    EveryTaskAnswered
    EveryRowSettles
