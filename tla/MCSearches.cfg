SPECIFICATION SearchSpec

CONSTANTS
    None = None
    QMax = 6
    Trials = 3
    Grid <- MCGrid
    Curves <- MCCurves
    Targets = {2, 6}
    Windows = {1, 2}
    Tols <- MCTols
    MaxFrames = 4

    Counts <- MCCounts
    Lists <- MCLists
    Options = {"a", "b"}
    Default = "b"
    Outcomes <- MCOutcomes
    NoFrame = NoFrame
    Weights = {1}
    HeaderSize = 1
    VintageStrips = 1

    LumaDims = 2
    ChromaDims = 1
    LumaMax = 7
    ChromaBound = 4
    Wide = 3
    Strips <- MCStrips
    Tunings <- MCTunings
    NoBook = NoBook

INVARIANTS
    FramesFollowEachOther
    RankedByItsOwnCost
    NoWorseThanUniform
    CarriedIsFresh
    NeverWorseThanTheCut
    FewVectorsAreExact
    DecisionsFitTheBooks

PROPERTIES
    HighestThatFits
    FitsIfLowestFits

CHECK_DEADLOCK FALSE
