SPECIFICATION Spec
CONSTANTS
    Conns = {c1, c2}
    MaxDatagrams = 2
    Lease = 2
    Duration = 2
    RecordFaults = FALSE
    MaxTime = 4
CHECK_DEADLOCK FALSE
INVARIANTS
    SilentRoleCompletes
