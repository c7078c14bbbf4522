SPECIFICATION FairSpec
CONSTANTS
    PolicySets = {empty}
    NoPolicies = empty
    SessionIDs = {s1}
    Objects = {o1, o2}
    None = None
    Buffer = 1
INVARIANTS TypeOK
PROPERTIES StopReturns InterfaceReturns
CHECK_DEADLOCK FALSE
