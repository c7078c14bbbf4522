SPECIFICATION FairSpec
CONSTANTS
    i1 = i1  i2 = i2
    Resources = {r1}
    Instances = {i1}
    Clients = {c1}
    None = None
    OpsThreshold = 2
    Interval = 1
    MinimumDuration = 1
    Faults = TRUE
    InitialPages <- Decaying
    MaxRevision = 1
PROPERTIES OperationsReturn
