SPECIFICATION Spec
CONSTANTS
    Producers = {p1, p2}
    Workers = {w1}
    RequestCapacity = 1
    ResultCapacity = 1
    Capacity = 2
    MaxBytes = 3
    Sizes = {1, 2}
    MaxSequence = 4
    PerTurn = 2
    MaxJobs = 1
    MaxRevision = 0
    MaxInputs = 2
INVARIANTS
    CountsAreExact
PROPERTY
    KeepsPromise
CHECK_DEADLOCK FALSE
