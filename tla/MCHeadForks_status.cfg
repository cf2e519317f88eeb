CONSTANTS
    Roots <- PairRoots
    SlotOf <- PairSlotOf
    Before <- PairBefore
    FollowDistance = 2
    N = 2
    NoRoot = NoRoot
    MaxHeadDistance = 0
    FlagValues <- SomeFlags
SPECIFICATION FairSpec
INVARIANTS
    ReadyAreOnline
PROPERTIES
    DropNoticed
    ListsReady
