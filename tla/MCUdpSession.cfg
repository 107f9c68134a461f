SPECIFICATION MCSpec
CONSTANTS
    Readers = {r1}
    Writers = {w1, w2}
    IKcpWndSnd = 1
    IKcpWndRcv = 2
    MaxSnd = 2
    MaxRmt = 2
    MaxSegs = 2
    MaxData = 2
    MaxDeadlines = 1
INVARIANTS
    NoLostWakeup
PROPERTIES
    CallsReturn
CHECK_DEADLOCK FALSE
