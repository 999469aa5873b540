SPECIFICATION Spec
CONSTANTS
    Value = {a, b}
    Null = Null
    NoStats = NoStats
    EmptyPrunes = FALSE
    Col = {c1, c2, c3}
    Txn = {t1, t2, t3}
    Table = Table
    Nowhere = Nowhere
    Row = {1, 2, 3, 4}
    Capacity = 3
    Workload = {"reopens"}
SYMMETRY Symmetry
CHECK_DEADLOCK FALSE
CONSTRAINT OneAtATime
INVARIANT
    PruneSound
