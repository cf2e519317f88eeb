CONSTANTS
    lighthouse = lighthouse
    teku = teku
    main = main
    N = 2
    Types <- MCTypes
    AnyType = AnyType
    TypeOf <- MCTypeOf
    Cgc <- MCCgc
    MinCgcs <- MCMinCgcs
    Requests = {q1, q2}
    NoCall = NoCall
    Sessions = {main}
    Prefix <- MCPrefix
    Sticky = TRUE
    NoClient = NoClient
    Mover = Mover
SPECIFICATION PathSpec
INVARIANTS
    PathTypeOK
    NoDoubleOvertaking
    FitsRequest
    AnsweredFromReady
    StraysAreLate
SYMMETRY SymmetricRequests
