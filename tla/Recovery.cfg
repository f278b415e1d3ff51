\* Three generations of two snapshots and one failed write: a snapshot the hook
\* overtakes, one that fails while the next is published, and one published again.
SPECIFICATION FairJournalSpec
CONSTANTS
    Requests = {r1, r2}
    MaxGeneration = 3
    MaxFailures = 1
    None = None
INVARIANTS
    DedupeIsSafe
    CrashLogIsTrue
    ShutdownDrains
PROPERTIES
    JournalMovesForward
    PublishedIsCompleted
CHECK_DEADLOCK FALSE
