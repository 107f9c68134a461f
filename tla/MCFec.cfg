SPECIFICATION FecSpec
CONSTANTS
    DataShards = 3
    ParityShards = 1
    Shapes <- MCShapes
    Modulus = 32
    Multi = 1
    Samples = 8
    Starts = {1, 26}
    MaxEncodes = 5
INVARIANTS
    DecodesRight
CHECK_DEADLOCK FALSE
