SPECIFICATION Spec
CONSTANTS
    Threads = {t1, t2, t3}
    Columns = 2
    Nobody = Nobody
CHECK_DEADLOCK FALSE
INVARIANTS
    TypeOK
    ScanLostToItsColumn
PROPERTY
    OperationsEnd
