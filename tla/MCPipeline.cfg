SPECIFICATION FairSpec
CONSTANTS
    Stoppers = {s1, s2}
    Callers = {c1, c2}
    Registered = {c1}
    GoLen = 1
    MaxGo = 2
INVARIANTS
    TypeOK
    Drained
    PanicIsLate
    StopPanicNeedsRace
PROPERTIES
    CallsAnswered
    StopReturns
CHECK_DEADLOCK FALSE
