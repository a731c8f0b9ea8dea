SPECIFICATION LintSpec

CONSTANTS
    None = None
    NumSlots = 2
    Entry <- MCEntry
    Quads = {"q"}
    Dims <- MCDims
    MaxStrips = 2
    Coords = {0, 1, 3}

INVARIANTS
    LintKnowsTheMode

PROPERTIES
    ConformantDecodes
    IntraStandsAlone

CHECK_DEADLOCK TRUE
