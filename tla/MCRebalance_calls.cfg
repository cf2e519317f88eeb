CONSTANTS
    NoEndpoint = NoEndpoint
    AnyType = AnyType
    NoMove = NoMove
    TypeOf <- TwoTypes
    Num = 1
    Den = 10
    AbsThreshold = 0
    Endpoints = {a, b, c}
    TekuEndpoints = {c}
    Sessions = {1, 2, 3}
    Prefix <- MixedPrefix
    MaxSweep = 2
SPECIFICATION Spec
INVARIANTS
    TypeOK
PROPERTIES
    SpreadShrinks
    MainToUnderloaded
SYMMETRY SymmetricEndpoints
