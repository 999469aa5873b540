SPECIFICATION Spec
CONSTANTS
    Inputs <- MCInputs
    RowGroupSize = 10
    Memory = 2
    MemoryCap = 4
CHECK_DEADLOCK FALSE
INVARIANT
    StatsOfLiveRowGroup
