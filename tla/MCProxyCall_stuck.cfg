CONSTANTS
    Capacity = 5
SPECIFICATION FairSpec
PROPERTIES
    CancelledCallEnds
CHECK_DEADLOCK FALSE
