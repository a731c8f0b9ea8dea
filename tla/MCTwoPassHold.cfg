SPECIFICATION Spec

CONSTANTS
    None = None
    QMax = 6
    Trials = 3
    Grid <- MCGrid
    Curves <- MCCurves
    Targets = {2, 6}
    Windows = {1, 2}
    Tols <- MCTols
    MaxFrames = 4

PROPERTY
    HoldsWhileOnTarget
