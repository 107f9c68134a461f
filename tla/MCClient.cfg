SPECIFICATION FairSpec
CONSTANTS
    MaxReconnectNum = 2
    MaxConns = 4
    Stops = {p1, p2}
    Starter = starter
INVARIANTS
    StopOutcome
    GivesUp
PROPERTIES
    StartReturns
CHECK_DEADLOCK FALSE
