SPECIFICATION DiscFairSpec
CONSTANTS
    Procs = {p1, p2}
    Svrs = {s1}
    TTL = 2
    Interval = 1
    Kinds <- AllKinds
    MaxStarts = 1
    Domain = s1
INVARIANTS
    ListedIsUp
PROPERTIES
    WatcherLearns
CHECK_DEADLOCK FALSE
