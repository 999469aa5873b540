SPECIFICATION Spec
CONSTANTS
    Value = {a}
    Null = Null
    NoStats = NoStats
    EmptyPrunes = FALSE
    Col = {c1, c2}
    Txn = {t1, t2, t3}
    Table = Table
    Nowhere = Nowhere
    Row = {1, 2}
    Capacity = 2
    Workload = {"conflicts", "unique"}
SYMMETRY Symmetry
CHECK_DEADLOCK FALSE
INVARIANT
    RowsHoused
PROPERTY
    SnapshotIsolation
