SPECIFICATION Spec
CONSTANTS
    Value = {a, b}
    Null = Null
    NoStats = NoStats
    EmptyPrunes = TRUE
    Col = {c1, c2}
    Txn = {t1}
    Table = Table
    Nowhere = Nowhere
    Row = {1, 2}
    Capacity = 1
    Workload = {}
SYMMETRY Symmetry
CHECK_DEADLOCK FALSE
INVARIANT
    PruneSound
