SPECIFICATION Spec
CONSTANTS
    Finite <- MCFloats
    NegInf <- MCNegInf
    PosInf <- MCPosInf
    NaN <- MCTwoNaNs
    Special <- MCSpecial
    Types = {"BLOOM"}
    MaxRows = 3
    Slots = 4
    Modulus = 8
    Limit = 2
    Blocks = 2
    BlockBits = 8
    Hashes = 2
    Word = 32
    Low <- MCLow
    High <- MCHigh
    Null = Null
    NoStats = NoStats
CHECK_DEADLOCK FALSE
INVARIANTS
    NoFalsePrune
