SPECIFICATION Spec
CONSTANTS
    Requests = {{"tcp_connect", "tcp_tagged"}}
    Mixed = {}
    Posix = {"A-to-B"}
CHECK_DEADLOCK FALSE
INVARIANTS
    NegativeIsOfThePath
