SPECIFICATION Spec
CONSTANTS
    Cmds = {1, 2}
    GiveUp = 1
    GoLen = 2
    MaxStarts = 2
    MaxTicks = 4
INVARIANTS
    FramesInOrder
    BrokenOnlyBy
CHECK_DEADLOCK FALSE
