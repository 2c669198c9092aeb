CONSTANTS
    Size = 2
    UMax = 100
    Blocks <- GBlocks
    Entry = "E"
    Order <- GOrder
    Preds <- GPreds
    Returns <- GReturns
    Code <- GCode
    PathCond = {}
    MaxLS = 6
    LoopBlocks = {}
    Header = "none"
    Latch = "none"
    Preheader = "none"
SPECIFICATION Spec
INVARIANT DeadStoresUnread
CHECK_DEADLOCK FALSE
