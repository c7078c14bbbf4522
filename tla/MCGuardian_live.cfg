SPECIFICATION FairSpec
CONSTANTS
    a1 = a1  a2 = a2  b1 = b1  b2 = b2
    A = A  B = B
    Instances = {a1, b1}
    Consumers = {A, B}
    ConsumerOf <- Owner
    Handlers = {h1, h2}
    None = None
    Strategy = "instance"
    Policies <- Limit1
    Capacity = 1
    MaxAttempts = 2
    Durable = TRUE
    Faults = TRUE
    MaxTime = 2
    MaxRevision = 2
PROPERTIES CallsEnd
