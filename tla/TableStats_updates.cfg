SPECIFICATION Spec
CONSTANTS
    Value = {a, b}
    Null = Null
    NoStats = NoStats
    EmptyPrunes = FALSE
    Col = {c1, c2}
    Txn = {t1, t2, t3}
    Table = Table
    Nowhere = Nowhere
    Row = {1, 2}
    Capacity = 2
    Workload = {"updates", "reopens"}
SYMMETRY Symmetry
CHECK_DEADLOCK FALSE
INVARIANTS
    TypeOK
    PruneSound
    SeenUpdateInvalidates
PROPERTY
    NeverRevived
