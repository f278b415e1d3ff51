SPECIFICATION FairSpec
CONSTANTS
    Producers = {p1}
    Workers = {w1, w2}
    RequestCapacity = 1
    ResultCapacity = 2
    Capacity = 1
    MaxBytes = 1
    Sizes = {1}
    MaxSequence = 1
    PerTurn = 2
    MaxJobs = 3
    MaxRevision = 1
    MaxInputs = 1
INVARIANTS
    EveryJobOnce
    ResultsAnnounced
PROPERTIES
    JobsEnd
    ShutdownEnds
CHECK_DEADLOCK FALSE
