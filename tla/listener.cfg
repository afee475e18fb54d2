SPECIFICATION FairSpec
CONSTANTS
    Conns = {c1, c2}
    MaxDatagrams = 2
    Lease = 2
    Duration = 2
    RecordFaults = TRUE
    MaxTime = 4
CHECK_DEADLOCK FALSE
INVARIANTS
    EvidenceOnce
    BoundPortsReleased
PROPERTIES
    QuietAfterVerdict
    RoleEnds
