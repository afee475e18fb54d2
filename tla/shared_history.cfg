SPECIFICATION Spec
CONSTANTS
    Procs = {p1, p2}
    Tasks = {1, 2}
    Legacy = {1}
    LegacyLease = 1
    MaxAge = 1
    MaxTasks = 1
    Duration = 1
    Grace = 1
    Slack = 0
    Punctual = FALSE
    StoreFaults = TRUE
    MaxEvents = 5
    MaxTime = 3
    LegacyOwner = legacy
    NoOwner = noOwner
    NoLease = noLease
    NoAppend = noAppend
SYMMETRY Symmetry
INVARIANTS
    LogMatchesRow
    CancelWins
    EventBudget
    ResultIsDurable
PROPERTIES
    RetentionKeepsRecent
    ImplementsRecord
