SPECIFICATION Spec
CONSTANTS
    a1 = a1  a2 = a2  b1 = b1  b2 = b2
    A = A  B = B
    Instances = {a1, a2, b1}
    Consumers = {A, B}
    ConsumerOf <- Owner
    Handlers = {h1, h2}
    None = None
    Strategy = "consumer"
    Policies <- Limit1
    Capacity = 1
    MaxAttempts = 2
    Durable = FALSE
    Faults = FALSE
    MaxTime = 3
    MaxRevision = 3
SYMMETRY Symmetry
INVARIANTS WithinLimit ViewIntegrity NoIdleCapacity
PROPERTIES SlotsHeldUntilDecay
