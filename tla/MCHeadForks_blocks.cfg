CONSTANTS
    Roots <- MCRoots
    SlotOf <- MCSlotOf
    Before <- MCBefore
    FollowDistance = 2
    N = 2
    NoRoot = NoRoot
    MaxHeadDistance = 1
    FlagValues <- OnlyUp
SPECIFICATION Spec
INVARIANTS
    TypeOK
    MembersOnChain
    HeadHasHeader
    ForksUnrelated
    NoKnownLaggard
