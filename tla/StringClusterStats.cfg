SPECIFICATION Spec
CONSTANTS
    String <- MCString
    Byte = 4
    Radix = 2
    Word = 8
    MinMaxSize = 2
    Slots = 2
    MaxRows = 3
CHECK_DEADLOCK FALSE
INVARIANTS
    NoFalsePrune
    ShortStringsExact
    ClustersOrdered
