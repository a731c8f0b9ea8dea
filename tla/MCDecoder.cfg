SPECIFICATION Spec

CONSTANTS
    None = None
    NumSlots = 1
    Entry <- MCEntry
    Quads = {"q"}
    Dims <- MCDims
    MaxStrips = 2
    Coords = {0, 1, 2}

INVARIANTS
    RenderInBounds
    RestingBooksHaveTheirFrame
    FrameIsUniform
    GapsAreBlack

PROPERTY
    CommitTogether

CHECK_DEADLOCK TRUE
