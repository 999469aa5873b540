SPECIFICATION WideSpec
CONSTANTS
    Value = {a}
    Null = Null
    NoStats = NoStats
    EmptyPrunes = TRUE
    Col = {c1, c2}
    Txn = {t1, t2}
    Table = Table
    Nowhere = Nowhere
    Row = {1, 2, 3}
    Capacity = 2
    Workload = {"updates", "reopens", "unions", "unique"}
SYMMETRY Symmetry
CHECK_DEADLOCK FALSE
INVARIANTS
    EmptyResultSound
    NullFlagSound
    MissNeedsRebuild
