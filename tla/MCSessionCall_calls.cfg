CONSTANTS
    ip = ip
    Capacity = 1
    Addrs = {ip}
    Prefixes = {"main", "teku"}
    Rate = 1
    Burst = 2
    SessionTimeout = 2
    CallTimeout = 1
    Owner <- MCOwner
SPECIFICATION SystemFairSpec
INVARIANTS
    SystemTypeOK
    FewLateEvents
    LiveCallKeepsSession
PROPERTIES
    BucketPerAddress
    PlainCallEnds
    WatcherEnds
    EndsOrStuck
CHECK_DEADLOCK FALSE
