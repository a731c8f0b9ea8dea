SPECIFICATION Spec

CONSTANTS
    None = None
    NumSlots = 2
    Entry <- MCColour
    Quads = {"q"}
    Kinds = {"V1"}
    CallModes = {"Yuv12", "Gray8"}
    Heights = {1, 3}
    Columns = {1}
    Requests = {2}

INVARIANTS
    RollingMatchesDecoders
    SkipsAgainstShownPicture
    ShowsWhatWasMeant
