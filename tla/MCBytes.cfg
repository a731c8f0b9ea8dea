SPECIFICATION BytesSpec

CONSTANTS
    WordBits = 3
    V4Words = 2
    Blocks <- MCBlocks
    Foreign <- MCForeign
    MaxBlocks = 4
    GroupSlots = 2
    Slots = 6
    Quantum = 4
    MaxDimension = 8
    Frames <- MCFrames
    Cells <- MCCells
    MaxItems = 40

INVARIANTS
    ReadsWhatWasWritten
    WalkerAgrees
    WalkersAgree
    ReadsWhatWasEncoded
    ProbeSeesTheFirstStrip

PROPERTY
    WalkEnds

CHECK_DEADLOCK FALSE
