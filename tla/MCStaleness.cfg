SPECIFICATION StaleSpec

CONSTANTS
    None = None
    Intervals <- MCIntervals
    Sizes = {"small"}
    NumSlots = 2
    Counts = {1, 2}
    StripCounts = {2}
    Threshold = 1
    MaxStale = 2

PROPERTIES
    SeekIntervalIsKept
    PromisedKeyframeComesFirst
    NumberIsDistance
    ReclaimsIdleSlots
    ShortGroupsReclaimNothing
