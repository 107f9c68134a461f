SPECIFICATION Spec
CONSTANTS
    Addrs = {a1, a2}
    Convs = {c1, c2}
    Garbage = garbage
    Backlog = 1
    MaxSess = 4
INVARIANTS
    OrphanNeedsRace
    MonitorServes
CHECK_DEADLOCK FALSE
