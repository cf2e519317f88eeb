CONSTANTS
    Roots <- ForkRoots
    SlotOf <- ForkSlotOf
    Before <- ForkBefore
    FollowDistance = 2
    N = 3
    NoRoot = NoRoot
    MaxHeadDistance = 1
    FlagValues <- OnlyUp
SPECIFICATION SettledSpec
INVARIANTS
    IndexesAgree
    NewestIsCached
    WalkAgrees
    ForksPartition
PROPERTIES
    OneObjectPerRoot
    KnownChainsKept
CHECK_DEADLOCK FALSE
