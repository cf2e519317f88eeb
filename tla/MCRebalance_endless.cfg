CONSTANTS
    NoEndpoint = NoEndpoint
    AnyType = AnyType
    NoMove = NoMove
    TypeOf <- TwoTypes
    Num = 1
    Den = 10
    AbsThreshold = 0
    Endpoints = {a, b, c}
    TekuEndpoints = {c}
    Sessions = {1, 2, 3, 4, 5}
    Prefix <- TypedPrefix
    MaxSweep = 0
SPECIFICATION QuietSpec
PROPERTIES
    RunEnds
