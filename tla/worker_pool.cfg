SPECIFICATION FairRunSpec
CONSTANTS
    local = local
    host = host
    address = address
    Workers = {w1, w2}
    NSteps = 4
    Targets <- MCTargets
    TargetOf <- MCTargetOf
    Hostnames = {3}
    Gap = 1
    TargetGap = 2
    MaxConcurrency = 2
    MaxEvents = 9
    Duration = 3
    ScopeEnds = 3
    NoWorker = noWorker
    MaxTime = 4
    Named = TRUE
    Port = 80
    Addresses = 1
    Shown <- MCShown
    Ceiling = 11
    DiagnosisCeiling = 20
    Baseline = 1
    Item = 2
    Refusal = 3
    Note = 1
    Slip = 1
    Summary = 2
    Bounded = 4
    NoAnswer = noAnswer
CHECK_DEADLOCK FALSE
INVARIANTS
    RateCeiling
    SlotNearScope
    NeverRefused
    AnswerFits
    HealthyIsWhole
PROPERTIES
    AnswerIsWhole
    QuietAfterCancel
    PoolEnds
