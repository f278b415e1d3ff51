SPECIFICATION FramesSpec
CONSTANTS
    SlotCount = 2
    MaxSequence = 2
    MaxSaturations = 1
    Tokens = {1, 2, 3}
    Generations = {1}
    NoLease = NoLease
    Glyphs = {a, b, c}
    Blank = Blank
    NoImage = NoImage
    Nothing = Nothing
    FirstRows = 1
    MaxRows = 2
    MaxPatches = 1
    MaxGlyphs = 1
    MaxRevision = 8
    MaxFailures = 1
SYMMETRY Symmetry
INVARIANTS
    RingStateInvariant
    LeasesOutstanding
    GlyphsAreRight
    FramesAreOwned
CHECK_DEADLOCK FALSE
