CONSTANTS
    Capacity = 1
SPECIFICATION FairPoolSpec
INVARIANTS
    PoolTypeOK
    NotOnlineWhenLost
    OnlineIsFollowed
PROPERTIES
    LossNoticed
    ReturnsOrStuck
    DownNodeLeaves
    GoodNodeReturns
CHECK_DEADLOCK FALSE
