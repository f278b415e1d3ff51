SPECIFICATION FairSpec
CONSTANTS
    Texts = {"", "a", "b"}
    Batches = 2
    Parent <- Directories
    Capacity = 2
    Together = 2
    MaxEvents = 4
INVARIANTS
    PanelsShowQuery
    EveryWaitIsServed
    NothingForgotten
PROPERTY
    QuestionsEnd
