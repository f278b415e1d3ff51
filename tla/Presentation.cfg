\* Three attempts over two revisions after the initial one and one surface change:
\* enough for a completion that is stale by revision, by epoch and by
\* visibility, and for a token two attempts old.
SPECIFICATION CallSpec
CONSTANTS
    MaxRevision = 2
    MaxEpoch = 2
    MaxAttempt = 3
    NoToken = NoToken
INVARIANTS
    StateInvariant
    AttemptsEndOnce
    CleanMeansSettled
CHECK_DEADLOCK FALSE
