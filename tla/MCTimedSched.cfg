SPECIFICATION FairSpec
CONSTANTS
    Tasks = {t1, t2}
    Workers = {w1, w2}
    MaxTime = 2
    MaxDue = 1
INVARIANTS
    TimerReady
PROPERTIES
    TaskSpec
    EveryTaskRuns
CHECK_DEADLOCK FALSE
