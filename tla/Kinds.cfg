SPECIFICATION Spec
CONSTANTS
    Finite <- MCSigned
    NegInf <- MCNegInf
    PosInf <- MCPosInf
    NaN <- MCTwoNaNs
    Special <- MCSpecial
    Types = {"ERROR", "NONE", "MIN_MAX", "CLUSTER", "BLOOM", "DICTIONARY", "other"}
    MaxRows = 5
    Slots = 4
    Modulus = 8
    Limit = 2
    Blocks = 2
    BlockBits = 8
    Hashes = 2
    Word = 32
    Low <- MCLowOfClass
    High <- MCHighOfClass
    Null = Null
    NoStats = NoStats
    Filters <- MCFilters
    FilterLists <- MCFilterLists
CHECK_DEADLOCK FALSE
CONSTRAINT InOrder
INVARIANTS
    TypeOK
    AsColumnDataAbstracts
    EmptyPartition
    ClustersFit
    FewValuesExact
    DictionaryExact
    BitsInArray
    NoFalsePrune
    NoFalseRangePrune
    ClustersTightest
    SearchesAgree
    SkipsSound
    LabelsSound
