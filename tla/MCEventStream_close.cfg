CONSTANTS
    Capacity = 2
SPECIFICATION FairSpec
PROPERTIES
    CloseAlwaysReturns
CHECK_DEADLOCK FALSE
