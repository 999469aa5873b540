SPECIFICATION Spec
CONSTANTS
    Columns = 3
    FilterCount = 2
    Optionals = {{}, {2}}
    Updated = {1}
    MaxUpdates = 1
    MaxHidden = 1
    VectorSize = 2
    Counts = {3}
    RowGroups = 2
    NoRowGroup = NoRowGroup
INVARIANTS
    TypeOK
    RowsReturned
    ColumnsAligned
PROPERTY
    ScanEnds
CHECK_DEADLOCK FALSE
