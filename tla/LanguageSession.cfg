SPECIFICATION Spec
CONSTANTS
    Documents = {"a", "b"}
    First = "a"
    ControlCapacity = 2
    EventCapacity = 2
    PacketSize = 2
    MaxRestarts = 2
    MaxTurns = 2
    MaxPublished = 1
INVARIANTS
    AnalysisIsCurrent
    ServerInStep
    RestsOpen
CHECK_DEADLOCK FALSE
