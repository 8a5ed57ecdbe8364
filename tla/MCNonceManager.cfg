CONSTANTS
    Slots = {s1, s2}
    U64 = 6
    OverflowChecks = TRUE
SPECIFICATION Spec
INVARIANT CacheDominates
PROPERTY ImplementsAllocator
CHECK_DEADLOCK FALSE
