CONSTANTS
    NoEndpoint = NoEndpoint
    AnyType = AnyType
    NoMove = NoMove
    TypeOf <- TwoTypes
    Num = 1
    Den = 10
    AbsThreshold = 0
    Endpoints = {a, b, c}
    TekuEndpoints = {c}
    Sessions = {1, 2, 3, 4, 5}
    Prefix <- MainPrefix
    MaxSweep = 0
SPECIFICATION QuietSpec
INVARIANTS
    TotalsTrue
PROPERTIES
    MovesSeparate
    RunEnds
    RunBalances
