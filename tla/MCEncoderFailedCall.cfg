SPECIFICATION Spec

CONSTANTS
    None = None
    NumSlots = 2
    Entry <- MCEntry
    Quads = {"q"}
    Kinds = {"V1"}
    CallModes = {"Yuv12"}
    Heights = {1, 3}
    Columns = {1}
    Requests = {2}

INVARIANT
    RollingTracksReceiver
