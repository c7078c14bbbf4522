SPECIFICATION FairSpec
CONSTANTS
    None = None
    Buffer = 1
    MaxStates = 3
INVARIANTS NoSendOnClosed ListenerUpToDate ReleasedUnlessForgotten
PROPERTIES StopReturns OwnerEnds
CHECK_DEADLOCK FALSE
