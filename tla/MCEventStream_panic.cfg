CONSTANTS
    Capacity = 2
SPECIFICATION Spec
INVARIANTS
    NoPanic
CHECK_DEADLOCK FALSE
