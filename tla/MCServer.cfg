SPECIFICATION FairSpec
CONSTANTS
    Conns = {c1, c2, c3}
    MaxConnNum = 2
    Kinds <- AllKinds
INVARIANTS
    TypeOK
    Limit
    NoSessionSurvives
    QuietAfterStop
    PanicOnlyBy
PROPERTIES
    StopReturns
CHECK_DEADLOCK FALSE
