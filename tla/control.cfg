SPECIFICATION EdgesSpec
CONSTANTS
    Window = 1
    Grace = 1
    Turns = 2
    Faults = {"loss", "interrupt", "unbegun"}
    MaxRestarts = 1
    MaxTime = 4
    AgentNonces = {"n1", "n2"}
    AgentConns = {"k1", "k2"}
    AgentCorrs = {"c"}
    Capacity = 1
    MaxLife = 2
    Skew = 1
    AgentMaxTime = 2
    WebTasks = {"t1"}
    MaxDeletes = 3
    Submissions = {"t1", "t2"}
    Hasty = FALSE
    Loses = TRUE
    Maximum = 2
    Chunk = 2
    MaxWritten = 3
    MaxCancels = 2
CHECK_DEADLOCK FALSE
INVARIANTS
    AcceptedIsReady
    ConfirmedIsReleased
    OrphanIsShown
    OutcomeIsTrue
PROPERTIES
    PendingIsAlive
    OnceWhileCurrent
    FreshIsServed
    ImplementsWebTask
    ResultIsShown
    EdgesEnd
