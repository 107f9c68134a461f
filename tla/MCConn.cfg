SPECIFICATION FairSpec
CONSTANTS
    Owner = owner
    Procs = {owner, w1, w2}
    NoProc = NoProc
    Cap = 1
    MaxMsgs = 3
    Kinds <- TheKinds
INVARIANTS
    TypeOK
    Flushed
    OneSentinel
    WedgeNeedsWriteError
    ClosedIsEnding
PROPERTIES
    CloseShuts
    CallsReturn
CHECK_DEADLOCK FALSE
