SPECIFICATION Spec
CONSTANTS
    a = a
    b = b
    c = c
    Paths = {a, b, c}
    Server <- Languages
    Pinned = {"pinned"}
    MaxWarm = 2
    MaxDraining = 1
    MaxSearches = 2
    MaxSessions = 2
SYMMETRY SameLanguage
INVARIANTS
    ShownIsServed
    SearchesAreServed
CHECK_DEADLOCK FALSE
