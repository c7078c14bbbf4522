SPECIFICATION FairSpec
CONSTANTS
    Policies = {a, b, c}
    Served = {{}, {a}, {a, b}, {b, c}}
    Unstable = {b, c}
INVARIANTS NoPolicyLost
PROPERTIES CacheRestored PromisedUpdates
CHECK_DEADLOCK FALSE
