SPECIFICATION FairSpec
CONSTANTS
    MaxRevision = 2
    MaxEpoch = 1
    MaxAttempt = 2
    MaxPolls = 2
    NoToken = NoToken
    NoLease = NoLease
    NoFrame = NoFrame
INVARIANTS
    ActiveOwnsAttempt
    PendingIsNewest
    LinkAgrees
PROPERTIES
    OnlyResumeIsRefused
    FramesEnd
    PendingIsDrawn
CHECK_DEADLOCK FALSE
