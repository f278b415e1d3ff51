SPECIFICATION FairSpec
CONSTANTS
    ControlCapacity = 1
    EventCapacity = 4
    TerminalReserve = 2
    InputCapacity = 1
    OutputCapacity = 1
    WriteCapacity = 1
    MaxPolls = 2
    MaxEpoch = 2
    MaxInputs = 2
    MaxOutputs = 2
INVARIANTS
    ChildIsOurs
    EventsAreAnnounced
    ClientIsTold
PROPERTY
    Settles
CHECK_DEADLOCK FALSE
