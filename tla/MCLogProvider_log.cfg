SPECIFICATION FairSpec
CONSTANTS
    i1 = i1  i2 = i2
    Resources = {r1}
    Instances = {i1, i2}
    Clients = {c1, c2}
    None = None
    OpsThreshold = 2
    Interval = 1
    MinimumDuration = 1
    Faults = FALSE
    InitialPages <- Decaying
    MaxRevision = 2
INVARIANTS TypeOK CheckpointAgrees NoLostCheckpoint
PROPERTIES CheckpointIsolated CheckpointsSpaced DurationCheckpointed OpenOperationsReturn
