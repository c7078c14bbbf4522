SPECIFICATION Spec
CONSTANTS
    a1 = a1  a2 = a2  b1 = b1  b2 = b2
    A = A  B = B
    Instances = {a1, a2, b1, b2}
    Consumers = {A, B}
    ConsumerOf <- Owner
    Handlers = {h1}
    None = None
    Strategy = "instance"
    Policies <- Limit2
    Capacity = 2
    MaxAttempts = 2
    Durable = TRUE
    Faults = FALSE
    MaxTime = 5
    MaxRevision = 6
SYMMETRY Symmetry
INVARIANTS TypeOK PanicFree NoIdleCapacity
PROPERTIES NoOvertaking
