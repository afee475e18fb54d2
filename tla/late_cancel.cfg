SPECIFICATION FairSpec
CONSTANTS
    Window = 1
    Grace = 1
    Turns = 2
    Faults = {}
    MaxRestarts = 0
    MaxTime = 4
CHECK_DEADLOCK FALSE
PROPERTIES
    ResultsReleased
