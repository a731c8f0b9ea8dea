SPECIFICATION Spec

CONSTANTS
    None = None
    Qualities = {"q"}
    Axis <- MCAxis
    Requests = {3, 6}
    Rows = 8
    Lens = {1, 4}
    Sses = {0, 1}
    Budgets = {2, 9}
    Caps = {0, 3}
    MaxCount = 9

INVARIANT
    VintageFramesHaveThreeStrips
