SPECIFICATION CoverageSpec
CONSTANTS
    Calls = {k1, k2}
    Corrs = {a, b}
    k1 = k1
    k2 = k2
    a = a
    b = b
    Assignments <- MCAssignments
    None = None
    N = 2
    Tcp <- MCTcp
    Timeout <- MCTimeout
    MaxRequest = 2
    MaxReading = 1
    Interruptible = TRUE
    BindFaults = TRUE
    MaxTime = 2
    Requests <- MCRequests
    Mixed = {"A-to-B"}
    Posix = {"A-to-B"}
    Parked = {"udp_tagged"}
    ParkedCorrs <- MCOneCorr
CHECK_DEADLOCK FALSE
INVARIANTS
    OpenIsRegistered
    EndedIsClosed
    RowsTellThePath
    AckHasReceipt
PROPERTIES
    CoverageEnds
